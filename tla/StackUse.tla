------------------------------ MODULE StackUse ------------------------------
(***************************************************************************)
(* Any client of the stack page: every order of the four operations, from  *)
(* the stack the constructor leaves (SP_ = 0xFD, RAM zeroed).  The history *)
(* variables say what a caller may expect back:                            *)
(*   live   - the bytes pushed, not popped and still stored, live[1] the   *)
(*            most recent; the first `depth` entries count                 *)
(*   warned - some operation logged that the stack pointer is invalid      *)
(***************************************************************************)
EXTENDS Stack

CONSTANTS Data,     \* the bytes a client pushes
          LastCell  \* the byte of the cartridge at 0xFFFF

ASSUME DataAssumption == Data \subseteq Byte /\ LastCell \in Byte

VARIABLES stk, live, depth, warned
vars == <<stk, live, depth, warned>>

(* The types of SP_ and the stack page, and of the history.                 *)
TypeOK ==
    /\ stk \in StackType
    /\ live \in [1 .. W -> Byte]
    /\ depth \in 0 .. W
    /\ warned \in BOOLEAN

Init ==
    /\ stk = [sp  |-> W - 3,
              mem |-> [c \in Cell |-> IF c = Top THEN LastCell ELSE 0]]
    /\ live = [k \in 1 .. W |-> 0]
    /\ depth = 0
    /\ warned = FALSE

\* What the history becomes when n bytes, newest[1] the last, are stored ...
Stored(n, newest) ==
    /\ live' = [k \in 1 .. W |-> IF k <= n THEN newest[k] ELSE live[k - n]]
    /\ depth' = IF depth + n <= W THEN depth + n ELSE W

\* ... and when the n most recent ones are taken back.
Taken(n) ==
    /\ live' = [k \in 1 .. W |-> IF k + n <= W THEN live[k + n] ELSE 0]
    /\ depth' = IF depth >= n THEN depth - n ELSE 0

PushByte(v) ==
    /\ stk' = Push(stk, v)
    /\ warned' = (warned \/ PushComplains(stk))
    /\ Stored(1, <<v>>)

\* A word pushed at SP_ = 0 is not stored in the page, and the two cells
\* that SP_ skips belong to no byte a client pushed last: nothing is left to
\* rely on.
PushWord(w) ==
    /\ stk' = Push16(stk, w)
    /\ warned' = (warned \/ PushComplains(stk))
    /\ IF stk.sp = 0
         THEN /\ depth' = 0
              /\ UNCHANGED live
         ELSE Stored(2, <<Lo(w), Hi(w)>>)

PopByte ==
    /\ stk' = Pop(stk)
    /\ warned' = (warned \/ PopComplains(stk))
    /\ Taken(1)

PopWord ==
    /\ stk' = Pop16(stk)
    /\ warned' = (warned \/ Pop16Complains(stk))
    /\ Taken(2)

Next ==
    \/ \E v \in Data : PushByte(v)
    \/ \E hi, lo \in Data : PushWord(MakeWord(hi, lo))
    \/ PopByte
    \/ PopWord

Spec == Init /\ [][Next]_vars

-----------------------------------------------------------------------------
(* Every byte a caller still expects is in the page, at its distance from  *)
(* SP_, however often SP_ has wrapped: an off-by-one between a push and    *)
(* its pop, or between the byte and the word forms, breaks it.             *)
LiveBytesStored ==
    \A k \in 1 .. W : k <= depth => stk.mem[Up(stk.sp, k)] = live[k]

(* pop_stack and pop_stack16 return what was pushed, in whatever mixture   *)
(* of bytes and words it was pushed, save for a word popped from 0xFE.     *)
PopsReturnWhatWasPushed ==
    /\ depth >= 1 => Popped(stk) = live[1]
    /\ depth >= 2 /\ stk.sp # W - 2 => Popped16(stk) = MakeWord(live[2], live[1])

(* A word pop that answers with something else than the bytes pushed last  *)
(* has logged a complaint by then, whatever happened before.               *)
WrongWordIsReported ==
    [][PopWord /\ depth >= 2 /\ Popped16(stk) # MakeWord(live[2], live[1])
         => warned']_vars
=============================================================================
