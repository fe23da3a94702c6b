--------------------------- MODULE AppendOnlyLog ---------------------------
(***************************************************************************)
(* What an audit ledger promises its callers, with no files, locks or      *)
(* crashes: a sequence of committed records that only ever grows at its    *)
(* end, and a set of records whose append was acknowledged.  A record may  *)
(* be committed without being acknowledged (the caller saw an error after  *)
(* the commit point), never the other way round.                           *)
(***************************************************************************)
EXTENDS Naturals, Sequences

CONSTANT Record     \* the records a caller may ask to append

VARIABLES
    entries,        \* the committed records, oldest first
    acked           \* the records whose append returned normally

logVars == <<entries, acked>>

LogTypeOK ==
    /\ entries \in Seq(Record)
    /\ acked \subseteq Record

LogInit ==
    /\ entries \in Seq(Record)
    /\ acked = {}

(* The append commits and the caller is told so. *)
AppendAcked(r) ==
    /\ entries' = Append(entries, r)
    /\ acked' = acked \union {r}

(* The append commits, but the caller sees an error. *)
AppendUnacked(r) ==
    /\ entries' = Append(entries, r)
    /\ UNCHANGED acked

LogNext == \E r \in Record : AppendAcked(r) \/ AppendUnacked(r)

LogSpec == LogInit /\ [][LogNext]_logVars
=============================================================================
