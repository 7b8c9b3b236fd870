----------------------------- MODULE DecodeCommand -----------------------------
(***************************************************************************)
(* The `decode` command (xtce-cli decode.rs, run): drains the packet       *)
(* iterator of Framing over the stream, decodes each packet into one       *)
(* buffer, counts what became of it, and ends with a summary and an exit   *)
(* status.  What decode_into answers is Decoder's subject: here each       *)
(* answer is possible for each packet.                                     *)
(***************************************************************************)
EXTENDS Framing

CONSTANT Limits     \* the values of --limit a run considers; {} is no limit

ASSUME LimitAssumption == \A l \in Limits : \A n \in l : n \in Nat /\ l = {n}

VARIABLES
  limit,            \* {} or {n}
  count,            \* total, decoded, trailing, unrecognised, failed
  status            \* running, or how run ended: ok, failed, badly framed

commandVars == <<framingVars, limit, count, status>>

Decodings == {"decoded", "decodedTrailing"}
Answers   == Decodings \cup {"notDescribed", "failed"}

CommandInit ==
  /\ FramingInit
  /\ limit \in Limits
  /\ count = [total |-> 0, decoded |-> 0, trailing |-> 0, unrecognised |-> 0,
              failed |-> 0]
  /\ status = "running"

LimitReached == \E n \in limit : count.total >= n
Exit == IF count.failed > 0 THEN "failed" ELSE "ok"

\* Mutant: reaching the limit skips the item, not the rest of the stream.
StopAtLimitGoesOn ==
  /\ status = "running"
  /\ LimitReached
  /\ YieldPacket \/ YieldShortHeader \/ YieldShortPacket
  /\ UNCHANGED <<limit, count, status>>

\* The limit is looked at once an item has been taken: the item is dropped.
StopAtLimit ==
  /\ status = "running"
  /\ LimitReached
  /\ YieldPacket \/ YieldShortHeader \/ YieldShortPacket
  /\ status' = Exit
  /\ UNCHANGED <<limit, count>>

\* Mutant: a framing error only ends the loop.
AbortOnFramingErrorQuietly ==
  /\ status = "running"
  /\ ~ LimitReached
  /\ YieldShortHeader \/ YieldShortPacket
  /\ count' = [count EXCEPT !.total = @ + 1]
  /\ status' = Exit
  /\ UNCHANGED limit

\* `let framed = framed?`, after the item has been counted.
AbortOnFramingError ==
  /\ status = "running"
  /\ ~ LimitReached
  /\ YieldShortHeader \/ YieldShortPacket
  /\ count' = [count EXCEPT !.total = @ + 1]
  /\ status' = "badlyFramed"
  /\ UNCHANGED limit

One(b) == IF b THEN 1 ELSE 0

\* The match on what decode_into returned.
Tally(answer) ==
  [total        |-> count.total + 1,
   decoded      |-> count.decoded + One(answer \in Decodings),
   trailing     |-> count.trailing + One(answer = "decodedTrailing"),
   unrecognised |-> count.unrecognised + One(answer = "notDescribed"),
   failed       |-> count.failed + One(answer = "failed")]

\* A packet that fails to decode is counted and does not end the run.
DecodePacket(answer) ==
  /\ status = "running"
  /\ ~ LimitReached
  /\ YieldPacket
  /\ count' = Tally(answer)
  /\ UNCHANGED <<limit, status>>

Summarise ==
  /\ status = "running"
  /\ EndOfStream
  /\ status' = Exit
  /\ UNCHANGED <<limit, count>>

CommandNext ==
  \/ StopAtLimit
  \/ AbortOnFramingError
  \/ \E answer \in Answers : DecodePacket(answer)
  \/ Summarise

CommandSpec ==
  CommandInit /\ [][CommandNext]_commandVars /\ WF_commandVars(CommandNext)

-------------------------------------------------------------------------------
CommandTypeOK ==
  /\ FramingTypeOK
  /\ limit \in Limits
  /\ count \in [total : Nat, decoded : Nat, trailing : Nat, unrecognised : Nat,
                failed : Nat]
  /\ status \in {"running", "ok", "failed", "badlyFramed"}

\* "{total} packet(s): {decoded} decoded, {unrecognised} not described, {failed}
\* failed": the three add up to the total whenever the summary is printed, and
\* packets with unclaimed bits are among the decoded ones.
CountsAddUp ==
  /\ count.total = count.decoded + count.unrecognised + count.failed
                   + (IF status = "badlyFramed" THEN 1 ELSE 0)
  /\ count.trailing <= count.decoded

\* Every item of the stream is counted, up to the one that is taken to find
\* that the limit has been reached.
ItemsAreCounted ==
  \/ Len(items) = count.total
  \/ Len(items) = count.total + 1 /\ LimitReached /\ status # "running"

\* A run that exits successfully has not passed over anything: no packet
\* failed, no framing error came before the limit, and unless the limit was
\* reached the packets cover the stream, but for trailing wrapper bytes.
OkMeansAllSeen ==
  status = "ok" =>
    /\ count.failed = 0
    /\ \A i \in 1 .. count.total : IsPacket(items[i])
    /\ LimitReached \/ Len(stream) - EndOf(items, Len(items)) <= skip

\* The command ends, on any stream.
RunEnds == <> (status # "running")
===============================================================================
