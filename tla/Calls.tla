------------------------------- MODULE Calls -------------------------------
(***************************************************************************)
(* Calls between users (ws/hub.go: call-user, and the events that          *)
(* sendToUser relays), while connections come and go as in Presence.       *)
(*                                                                         *)
(* The goroutine that calls takes h.mu only to read userSockets[target].   *)
(* What it gets is a reference to that map: it goes on changing while the  *)
(* goroutine walks it.  When the user's last socket is deleted the map is  *)
(* thrown away, and a socket that registers later goes into a new one.     *)
(***************************************************************************)
EXTENDS Presence

CONSTANT MaxCalls  \* bound on the number of events of this kind

ASSUME CallsAssumption == MaxCalls \in Nat

VARIABLES
  call,   \* what each goroutine knows of the event it handles
  calls   \* events handled so far

allVars == <<vars, call, calls>>

\* stage    after userSockets was read "calling" for call-user, and "relaying" for
\*          call-answered, call-rejected and end-call; "walking" while the map is iterated
\* attached the map is still the one in userSockets
\* due      sockets in the map since the iteration began that it has not come to
\* offered  sockets in the map that the event was offered to
\* steady   (history) sockets that the user had during the whole event
\* vacant   (history) the user had no socket at some moment of the event
Event ==
  [stage : {"calling", "relaying", "walking"}, target : Users,
   attached : BOOLEAN, due : SUBSET Clients, offered : SUBSET Clients,
   steady : SUBSET Clients, vacant : BOOLEAN]

Idle == [stage |-> "idle"]

\* The goroutines hold what their variables allow.
CallsTypeOK ==
  /\ TypeOK
  /\ call \in [Clients -> Event \cup {Idle}]
  /\ calls \in 0 .. MaxCalls

Busy(c) == call[c] # Idle

CallsInit ==
  /\ Init
  /\ call = [c \in Clients |-> Idle]
  /\ calls = 0

-----------------------------------------------------------------------------
(* Steps of a call *)

\* The sockets in the map that c holds a reference to: none once it was thrown away.
Targets(c) == IF call[c].attached THEN userSockets[call[c].target] ELSE {}

\* c reads userSockets[u] under h.mu.  If u has no entry, there is no map to follow.
Look(c, u, stage) ==
  /\ pc[c] = "open" /\ ~Busy(c)
  /\ calls < MaxCalls
  /\ calls' = calls + 1
  /\ call' = [call EXCEPT ![c] =
                [stage |-> stage, target |-> u, attached |-> Online(u), due |-> {},
                 offered |-> {}, steady |-> userSockets[u], vacant |-> ~Online(u)]]
  /\ UNCHANGED vars

\* call-user.
CallUser(c, u) == Look(c, u, "calling")

\* call-answered, call-rejected and end-call, which are passed on by sendToUser.
Relay(c, u) == Look(c, u, "relaying")

\* The caller is told that the user is busy: the map is empty.
UserIsBusy(c) == call[c].stage = "calling" /\ Targets(c) = {}

AnswerBusy(c) ==
  /\ Busy(c)
  /\ UserIsBusy(c)
  /\ call' = [call EXCEPT ![c] = Idle]
  /\ UNCHANGED <<vars, calls>>

\* The iteration begins.
Walk(c) ==
  /\ Busy(c) /\ call[c].stage # "walking"
  /\ ~UserIsBusy(c)
  /\ call' = [call EXCEPT ![c].stage = "walking", ![c].due = Targets(c)]
  /\ UNCHANGED <<vars, calls>>

\* The event is offered to a socket of the map, which drops it when its buffer is full.  The
\* iteration may come to a socket that was put into the map after it began, or skip it.
Ring(c, d) ==
  /\ Busy(c) /\ call[c].stage = "walking"
  /\ d \in Targets(c) \ call[c].offered
  /\ call' = [call EXCEPT ![c].due = @ \ {d}, ![c].offered = @ \cup {d}]
  /\ UNCHANGED <<vars, calls>>

AfterFirst(c) == call[c].offered # {} \/ call[c].due = {}  \* mutant: rings one socket

AllReached(c) == call[c].due = {}

\* The iteration has come to every socket that was there all along.
Finish(c) ==
  /\ Busy(c) /\ call[c].stage = "walking"
  /\ AllReached(c)
  /\ call' = [call EXCEPT ![c] = Idle]
  /\ UNCHANGED <<vars, calls>>

-----------------------------------------------------------------------------
(* Steps of the others *)

\* The event that c handles, after another goroutine changed userSockets.
Followed(c) ==
  LET now == userSockets'[call[c].target] IN
  [call[c] EXCEPT
     !.attached = @ /\ now # {},
     !.due      = @ \cap now,
     !.offered  = @ \cap now,
     !.steady   = @ \cap now,
     !.vacant   = @ \/ now = {}]

\* A goroutine that handles no call does something else.
Other(c) ==
  /\ ~Busy(c)
  /\ Step(c)
  /\ call' = [d \in Clients |-> IF Busy(d) THEN Followed(d) ELSE Idle]
  /\ UNCHANGED calls

\* The process stops and starts again.  The runtime stops it, among other reasons, when it
\* notices that a map is written while it is iterated.
RestartAll ==
  /\ Restart
  /\ call' = [c \in Clients |-> Idle]
  /\ UNCHANGED calls

CallStep(c) ==
  \/ \E u \in Users : CallUser(c, u) \/ Relay(c, u)
  \/ AnswerBusy(c)
  \/ Walk(c)
  \/ \E d \in Clients : Ring(c, d)
  \/ Finish(c)

CallsNext ==
  \/ \E c \in Clients : CallStep(c) \/ Other(c)
  \/ RestartAll
  \/ Rest /\ UNCHANGED <<call, calls>>

CallsSpec == CallsInit /\ [][CallsNext]_allVars

-----------------------------------------------------------------------------
(* Properties *)

\* Whatever registers, reconnects or leaves while a call is put through (hub.go:358-396,
\* 566-582): when its goroutine is done, every socket that the user had all the while was
\* offered it, or else the user had none at some moment of it and, if it was call-user, the
\* caller may have been told that the user is busy.
CallIsSettled ==
  [][\A c \in Clients : Busy(c) /\ ~Busy(c)' /\ pc'[c] = "open" =>
       \/ call[c].vacant
       \/ call[c].steady \subseteq call[c].offered]_allVars

=============================================================================
