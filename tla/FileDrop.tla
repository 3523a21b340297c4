------------------------------ MODULE FileDrop ------------------------------
(***************************************************************************)
(* What the users of a transfer rely on, without chunks, rows, handlers or *)
(* calls: a file becomes whole, stays so unless it is wiped, and is told   *)
(* to be sent, or completed, only when it is whole or was wiped.  A fetch  *)
(* ends well only on a file that is whole or was wiped, misses something   *)
(* only of one that is not whole at that moment, and may be cut off at any *)
(* time.                                                                   *)
(***************************************************************************)
CONSTANTS Files, Fetches

VARIABLES
  whole,      \* files all of whose content is there
  wiped,      \* files that were deleted once
  sent,       \* files whose sender was told "file sent"
  completed,  \* files whose row says COMPLETED, by uploads alone
  fetch       \* each receiver's fetch

dropVars == <<whole, wiped, sent, completed, fetch>>

NoFetch == [phase |-> "idle"]
FetchOf(phase, f) == [phase |-> phase, file |-> f]

DropInit ==
  /\ whole = {} /\ wiped = {} /\ sent = {} /\ completed = {}
  /\ fetch = [d \in Fetches |-> NoFetch]

Fill(f) == whole' = whole \cup {f} /\ UNCHANGED <<wiped, sent, completed, fetch>>

(* Something may be left behind, even everything. *)
Wipe(f) ==
  /\ wiped' = wiped \cup {f}
  /\ whole' \in {whole, whole \ {f}}
  /\ UNCHANGED <<sent, completed, fetch>>

Report(f) ==
  /\ f \in whole \cup wiped
  /\ sent' = sent \cup {f}
  /\ UNCHANGED <<whole, wiped, completed, fetch>>

Complete(f) ==
  /\ f \in whole \cup wiped
  /\ completed' = completed \cup {f}
  /\ UNCHANGED <<whole, wiped, sent, fetch>>

Reopen(f) == completed' = completed \ {f} /\ UNCHANGED <<whole, wiped, sent, fetch>>

Goes(d, to) == fetch' = [fetch EXCEPT ![d] = to] /\ UNCHANGED <<whole, wiped, sent, completed>>

Begin(d, f) == fetch[d].phase # "reading" /\ Goes(d, FetchOf("reading", f))

EndWell(d, f) ==
  /\ fetch[d] = FetchOf("reading", f)
  /\ f \in whole \cup wiped
  /\ Goes(d, FetchOf("ok", f))

MissSome(d, f) ==
  /\ fetch[d] = FetchOf("reading", f)
  /\ f \notin whole
  /\ Goes(d, FetchOf("missing", f))

CutOff(d, f) ==
  /\ fetch[d] = FetchOf("reading", f)
  /\ Goes(d, FetchOf("failed", f))

Crash ==
  /\ fetch' = [d \in Fetches |-> NoFetch]
  /\ UNCHANGED <<whole, wiped, sent, completed>>

DropNext ==
  \/ \E f \in Files : \/ Fill(f) \/ Wipe(f) \/ Report(f) \/ Complete(f) \/ Reopen(f)
                      \/ \E d \in Fetches : \/ Begin(d, f) \/ EndWell(d, f)
                                             \/ MissSome(d, f) \/ CutOff(d, f)
  \/ Crash

DropSpec == DropInit /\ [][DropNext]_dropVars
=============================================================================
