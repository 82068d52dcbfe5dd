------------------------ MODULE SessionRegistration ------------------------
(***************************************************************************)
(* Which session daemon the root daemon listens to.                        *)
(*                                                                         *)
(* A session daemon connects to the system bus and calls register_session; *)
(* the root remembers the unique name of that connection, and accepts      *)
(* display applies, acknowledgements and heartbeats from it only.  The     *)
(* handler takes a while (authorisation, and up to 8 s of waiting for the  *)
(* secondary panel) before it stores the caller.  The root forgets the     *)
(* name when the bus reports that its owner is gone.                       *)
(*                                                                         *)
(* The daemon's display task shares the connection: it asks the root's     *)
(* ApplyGuard for a permit before every apply, and when the root says that *)
(* another connection is registered it registers its own once more, and    *)
(* asks again.  It may still hold a connection that run_session_client has *)
(* already replaced.                                                       *)
(***************************************************************************)
EXTENDS ApplyGuard, Sequences, FiniteSets

CONSTANTS
    Sessions,       \* session daemons
    Conns,          \* unique bus names; one is free again once forgotten
    NoConn

ASSUME ConnAssumption == NoConn \notin Conns

VARIABLES
    registration,   \* RootStateInterface.registration, `registered' with it
    handler,        \* connections whose register_session call the root handles
    gone,           \* NameOwnerChanged signals the root has not handled
    client,         \* run_session_client of each daemon
    display         \* register_display_apply_attempt of each daemon

rootVars == <<registration, handler, gone>>
vars == <<attempts, paused, decays, stale, registration, handler, gone, client,
          display>>

MaybeConn == Conns \cup {NoConn}
Stopped == [pc |-> "stopped", conn |-> NoConn]
Free == [pc |-> "down", conn |-> NoConn]
NoApply == [pc |-> "idle", conn |-> NoConn]

TypeOK ==
    /\ GuardTypeOK
    /\ registration \in MaybeConn
    /\ handler \subseteq Conns
    /\ gone \in Seq(Conns)
    /\ client \in [Sessions -> [pc : {"stopped", "down", "register", "ready"}, conn : MaybeConn]]
    /\ display \in [Sessions -> [pc : {"idle", "ask", "reregister", "retry", "apply"},
                                 conn : MaybeConn]]

Init ==
    /\ GuardInit
    /\ registration = NoConn
    /\ handler = {} /\ gone = <<>>
    /\ client = [s \in Sessions |-> Stopped]
    /\ display = [s \in Sessions |-> NoApply]

-----------------------------------------------------------------------------
(* A connection is open while one of the daemon's tasks holds it. *)
Holds(s, c) == client[s].conn = c \/ display[s].conn = c
Open(c) == \E s \in Sessions : Holds(s, c)
Unused(c) ==
    /\ ~Open(c) /\ c \notin handler /\ registration # c
    /\ \A i \in 1..Len(gone) : gone[i] # c

(* The bus reports a connection as gone when the last holder drops it. *)
ReportsGone(c) ==
    gone' = IF \E s \in Sessions : client'[s].conn = c \/ display'[s].conn = c
            THEN gone ELSE Append(gone, c)

-----------------------------------------------------------------------------
(* run_session_client *)
Connect(s) ==
    /\ client[s].pc = "down"
    /\ \E c \in Conns :
          /\ Unused(c)
          /\ client' = [client EXCEPT ![s] = [pc |-> "register", conn |-> c]]
          /\ handler' = handler \cup {c}
    /\ UNCHANGED <<guardVars, registration, gone, display>>

(* Fault: any name registered will do for a heartbeat. *)
Reconnect_WhenNobody(s) ==
    /\ client[s].pc = "ready" /\ registration = NoConn
    /\ client' = [client EXCEPT ![s] = Free]
    /\ UNCHANGED <<guardVars, registration, handler, display>>
    /\ ReportsGone(client[s].conn)

(* The heartbeat, or any report, is refused: drop the connection, try again. *)
Reconnect(s) ==
    /\ client[s].pc = "ready" /\ registration # client[s].conn
    /\ client' = [client EXCEPT ![s] = Free]
    /\ UNCHANGED <<guardVars, registration, handler, display>>
    /\ ReportsGone(client[s].conn)

(* register_session stores its caller, alive or not, and replies. *)
Store(c) ==
    /\ c \in handler
    /\ handler' = handler \ {c}
    /\ registration' = c
    /\ client' = [s \in Sessions |-> IF client[s].conn = c /\ client[s].pc = "register"
                                     THEN [client[s] EXCEPT !.pc = "ready"]
                                     ELSE client[s]]
    /\ display' = [s \in Sessions |-> IF display[s].conn = c /\ display[s].pc = "reregister"
                                      THEN [display[s] EXCEPT !.pc = "retry"]
                                      ELSE display[s]]
    /\ UNCHANGED <<guardVars, gone>>

(* Polkit does not authorise the caller: the daemon drops the connection, *)
(* a display task gives up. *)
Deny(c) ==
    /\ c \in handler
    /\ handler' = handler \ {c}
    /\ client' = [s \in Sessions |-> IF client[s].conn = c /\ client[s].pc = "register"
                                     THEN Free ELSE client[s]]
    /\ display' = [s \in Sessions |-> IF display[s].conn = c /\ display[s].pc = "reregister"
                                      THEN NoApply ELSE display[s]]
    /\ IF Open(c) THEN ReportsGone(c) ELSE UNCHANGED gone
    /\ UNCHANGED <<guardVars, registration>>

(* watch_registered_session and clear_registration_for_owner. *)
ForgetGone ==
    /\ gone # <<>>
    /\ gone' = Tail(gone)
    /\ registration' = IF registration = Head(gone) THEN NoConn ELSE registration
    /\ UNCHANGED <<guardVars, handler, client, display>>

-----------------------------------------------------------------------------
(* register_display_apply_attempt of the session daemon's display task. *)
AskPermit(s) ==
    /\ display[s].pc = "idle" /\ client[s].pc = "ready"
    /\ display' = [display EXCEPT ![s] = [pc |-> "ask", conn |-> client[s].conn]]
    /\ UNCHANGED <<guardVars, rootVars, client>>

Asking(s) == display[s].pc \in {"ask", "retry"}

Permitted(s) ==
    /\ Asking(s) /\ registration = display[s].conn
    /\ Admit
    /\ display' = [display EXCEPT ![s].pc = "apply"]
    /\ UNCHANGED <<rootVars, client>>

GiveUp(s) ==
    /\ display' = [display EXCEPT ![s] = NoApply]
    /\ UNCHANGED <<registration, handler, client>>
    /\ ReportsGone(display[s].conn)

Refused(s) ==
    /\ Asking(s) /\ registration = display[s].conn
    /\ Exceed \/ RefusePaused
    /\ GiveUp(s)

(* Another session is registered: register again, but only once. *)
Mismatch(s) ==
    /\ display[s].pc = "ask" /\ registration \notin {display[s].conn, NoConn}
    /\ display[s].conn \notin handler
    /\ handler' = handler \cup {display[s].conn}
    /\ display' = [display EXCEPT ![s].pc = "reregister"]
    /\ UNCHANGED <<guardVars, registration, gone, client>>

(* Nobody is registered, or somebody else again: fail closed. *)
Denied(s) ==
    /\ Asking(s) /\ registration # display[s].conn
    /\ registration = NoConn \/ display[s].pc = "retry"
    /\ GiveUp(s)
    /\ UNCHANGED guardVars

(* Mutter's ApplyMonitorsConfig; the connection is no longer needed. *)
Apply(s) ==
    /\ display[s].pc = "apply"
    /\ GiveUp(s)
    /\ UNCHANGED guardVars

-----------------------------------------------------------------------------
(* The daemon's process: every task of it and its connections end at once. *)
SessionStarts(s) ==
    /\ client[s].pc = "stopped"
    /\ client' = [client EXCEPT ![s] = Free]
    /\ UNCHANGED <<guardVars, rootVars, display>>

SessionStops(s) ==
    /\ client[s].pc # "stopped"
    /\ client' = [client EXCEPT ![s] = Stopped]
    /\ display' = [display EXCEPT ![s] = NoApply]
    /\ gone' = LET c == client[s].conn
                   d == display[s].conn
               IN  gone \o (IF c = NoConn THEN <<>> ELSE <<c>>)
                        \o (IF d \in {c, NoConn} THEN <<>> ELSE <<d>>)
    /\ UNCHANGED <<guardVars, registration, handler>>

(* Calls to the root that are under way fail; a ready client finds out by *)
(* its next heartbeat or by the bus. *)
RootRestarts ==
    /\ GuardRestart
    /\ registration' = NoConn /\ handler' = {} /\ gone' = <<>>
    /\ client' = [s \in Sessions |-> IF client[s].pc = "register" THEN Free ELSE client[s]]
    /\ display' = [s \in Sessions |-> IF display[s].pc \in {"ask", "retry", "reregister"}
                                      THEN NoApply ELSE display[s]]

AdministratorResumes == Resume /\ UNCHANGED <<rootVars, client, display>>
DecayFires == Decay /\ UNCHANGED <<rootVars, client, display>>

-----------------------------------------------------------------------------
ClientStep(s) == Connect(s) \/ Reconnect(s)
DisplayStep(s) == Permitted(s) \/ Refused(s) \/ Mismatch(s) \/ Denied(s) \/ Apply(s)

Next ==
    \/ \E s \in Sessions : ClientStep(s) \/ AskPermit(s) \/ DisplayStep(s)
                          \/ SessionStarts(s) \/ SessionStops(s)
    \/ \E c \in Conns : Store(c) \/ Deny(c)
    \/ ForgetGone \/ DecayFires \/ AdministratorResumes \/ RootRestarts

Spec == Init /\ [][Next]_vars

(* Handlers and tasks run; no daemon has to start or to ask for an apply. *)
Fairness ==
    /\ \A s \in Sessions : WF_vars(ClientStep(s)) /\ WF_vars(DisplayStep(s))
    /\ \A c \in Conns : WF_vars(Store(c) \/ Deny(c))
    /\ WF_vars(ForgetGone) /\ WF_vars(DecayFires)

FairSpec == Spec /\ Fairness

-----------------------------------------------------------------------------
(* Once one daemon is alone, authorised, the root stays up and no display  *)
(* is reconciled, the root ends up registered with the connection that     *)
(* daemon uses, even if calls of dead connections are still being handled  *)
(* and a display task has registered one again that was already replaced.  *)
(* (While its display task keeps asking, a daemon can displace itself for  *)
(* ever: each time it reconnects, a call that still holds the previous     *)
(* connection registers that one again.)                                   *)
Alone(s) == \A t \in Sessions : (client[t].pc = "stopped") <=> (t # s)
Disturbance ==
    \/ RootRestarts \/ \E c \in Conns : Deny(c)
    \/ \E s \in Sessions : SessionStops(s) \/ AskPermit(s)
LoneSessionIsRegistered ==
    \A s \in Sessions :
        <>[]Alone(s) /\ <>[][~Disturbance]_vars
            => <>[](client[s].pc = "ready" /\ registration = client[s].conn)
=============================================================================
