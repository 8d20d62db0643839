----------------------------- MODULE OutputTail -----------------------------
(***************************************************************************)
(* Tail (internal/osrun/run.go): the last Capacity bytes of what a command *)
(* writes, and whether anything was lost.  The bytes may be any values.    *)
(***************************************************************************)
EXTENDS Integers, Sequences

CONSTANTS Capacity, Byte

VARIABLES
    bytes, truncated,   \* the Tail
    printed             \* history: all that was written

tail == <<bytes, truncated, printed>>

Skip_OneLess(s, n) == SubSeq(s, n, Len(s))

\* p[n:] of Go.
Skip(s, n) == SubSeq(s, n + 1, Len(s))
EndOf(s, n) == IF Len(s) > n THEN Skip(s, Len(s) - n) ELSE s

Empty == bytes = <<>> /\ truncated = FALSE /\ printed = <<>>
Reset == bytes' = <<>> /\ truncated' = FALSE /\ printed' = <<>>

Write_FlagsLongWritesOnly(p) ==
    LET q      == EndOf(p, Capacity)
        excess == Len(bytes) + Len(q) - Capacity
    IN  /\ bytes' = (IF excess > 0 THEN Skip(bytes, excess) ELSE bytes) \o q
        /\ truncated' = (truncated \/ Len(p) > Capacity)
        /\ printed' = printed \o p

\* One Write, of any size.
Write(p) ==
    LET q      == EndOf(p, Capacity)
        excess == Len(bytes) + Len(q) - Capacity
    IN  /\ bytes' = (IF excess > 0 THEN Skip(bytes, excess) ELSE bytes) \o q
        /\ truncated' = (truncated \/ Len(p) > Capacity \/ excess > 0)
        /\ printed' = printed \o p

TailNext == Reset \/ \E p \in Seq(Byte) : Write(p)
TailSpec == Empty /\ [][TailNext]_tail

\* Whatever the sizes of the writes, the Tail holds the end of what was written
\* and admits every loss: what is not marked truncated is the whole output.
TailHoldsEnd ==
    /\ bytes = EndOf(printed, Capacity)
    /\ truncated <=> Len(printed) > Capacity
=============================================================================
