----------------------------- MODULE TaskLedger -----------------------------
(***************************************************************************)
(* What a call of the message bus promises, without the writes it takes:   *)
(* MessageBus implements it.                                               *)
(*                                                                         *)
(* A call has at most one task.  The task is SUBMITTED until the agent has *)
(* been asked, moves as the agent says while it is asked, and is closed    *)
(* once, as RESPONDED or ERROR, before the caller is told the same.  The   *)
(* text of the response has copies in two tables and in what the caller    *)
(* gets: copies may be missing, but no two of them differ.                 *)
(***************************************************************************)
CONSTANTS
  Calls,   \* calls of SendStreaming
  States,  \* states an agent may report
  Texts,   \* texts of a response
  MayLose  \* whether a write may be lost

VARIABLES
  row,     \* [Calls -> state of the call's task, or "none"]
  phase,   \* [Calls -> where the call stands]
  copies   \* [Calls -> SUBSET Texts]: the texts of the copies of the response

ledger == <<row, phase, copies>>

InProgress == {"new", "open", "asked", "responded"}
Told == {"refused", "failed", "ok"}
Phases == InProgress \cup Told \cup {"lost"}

Init ==
  /\ row = [c \in Calls |-> "none"]
  /\ phase = [c \in Calls |-> "new"]
  /\ copies = [c \in Calls |-> {}]

To(c, from, to) == phase[c] = from /\ phase' = [phase EXCEPT ![c] = to]
\* The row becomes s, unless the write is lost.
Write(c, s) == row' = [row EXCEPT ![c] = s] \/ (MayLose /\ UNCHANGED row)

\* The agent is not connected.
Refuse(c) == To(c, "new", "refused") /\ UNCHANGED <<row, copies>>

Open(c) ==
  /\ To(c, "new", "open")
  /\ row' = [row EXCEPT ![c] = "SUBMITTED"]
  /\ UNCHANGED copies

\* The call fails before the agent is asked; its task may exist.
Abort(c) ==
  /\ MayLose
  /\ \/ To(c, "new", "failed") /\ Write(c, "SUBMITTED")
     \/ To(c, "open", "failed") /\ UNCHANGED row
  /\ UNCHANGED copies

Ask(c) == To(c, "open", "asked") /\ UNCHANGED <<row, copies>>

Move(c, s) ==
  /\ phase[c] = "asked"
  /\ row' = [row EXCEPT ![c] = s]
  /\ UNCHANGED <<phase, copies>>

Respond(c) == To(c, "asked", "responded") /\ Write(c, "RESPONDED") /\ UNCHANGED copies

\* One of the tables gets its copy of the response.
Publish(c, t) ==
  /\ phase[c] = "responded"
  /\ copies[c] \subseteq {t}
  /\ copies' = [copies EXCEPT ![c] = {t}]
  /\ UNCHANGED <<row, phase>>

Return(c, t) ==
  /\ To(c, "responded", "ok")
  /\ copies[c] \subseteq {t}
  /\ copies' = [copies EXCEPT ![c] = {t}]
  /\ UNCHANGED row

Fail(c) == To(c, "asked", "failed") /\ Write(c, "ERROR") /\ UNCHANGED copies

\* The process stops: what is in progress stays as it is.
Stop ==
  /\ phase' \in [Calls -> Phases]
  /\ \A c \in Calls :
       phase'[c] = phase[c] \/ (phase[c] \in InProgress /\ phase'[c] = "lost")
  /\ UNCHANGED <<row, copies>>

Next ==
  \/ \E c \in Calls :
       \/ Refuse(c) \/ Open(c) \/ Abort(c) \/ Ask(c) \/ Respond(c) \/ Fail(c)
       \/ \E s \in States : Move(c, s)
       \/ \E t \in Texts : Publish(c, t) \/ Return(c, t)
  \/ Stop

Spec == Init /\ [][Next]_ledger
=============================================================================
