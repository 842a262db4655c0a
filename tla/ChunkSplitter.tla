--------------------------- MODULE ChunkSplitter ----------------------------
(***************************************************************************)
(* SplitChunk (api/internal/chunk/splitter.go): a function's source is     *)
(* embedded in windows of MaxChunkChars bytes that overlap, so that code   *)
(* at a seam is whole in one of them.  A window is the half-open range of  *)
(* offsets it takes from the source.                                       *)
(***************************************************************************)
EXTENDS Integers, Sequences

CONSTANTS MaxChunk, Overlap,    \* MaxChunkChars, OverLapChars
          Sources               \* lengths of the functions split

ASSUME SplitterAssumption ==
    /\ MaxChunk \in Nat /\ Overlap \in Nat /\ Overlap < MaxChunk /\ Sources \subseteq Nat

VARIABLES
    length,     \* len(c.Content)
    start,
    windows,    \* the chunks so far
    split       \* whether the loop is over

splitVars == <<length, start, windows, split>>

Window == [from : Nat, to : Nat]

SplitInit == length \in Sources /\ start = 0 /\ windows = <<>> /\ split = FALSE

(* A short function is one chunk. *)
KeepWhole ==
    /\ ~split /\ length <= MaxChunk
    /\ windows' = <<[from |-> 0, to |-> length]>>
    /\ split' = TRUE
    /\ UNCHANGED <<length, start>>

(* Mutant: the next window starts past the seam. *)
AfterSeam(end) == end + Overlap

NextStart(end) == end - Overlap

(* One turn of the loop. *)
CutWindow ==
    /\ ~split /\ length > MaxChunk /\ start < length
    /\ LET end == IF start + MaxChunk > length THEN length ELSE start + MaxChunk IN
         /\ windows' = Append(windows, [from |-> start, to |-> end])
         /\ IF end = length THEN split' = TRUE /\ UNCHANGED start
            ELSE start' = NextStart(end) /\ UNCHANGED split
    /\ UNCHANGED length

SplitNext == KeepWhole \/ CutWindow

SplitSpec == SplitInit /\ [][SplitNext]_splitVars
-----------------------------------------------------------------------------
SplitTypeOK ==
    /\ length \in Nat /\ start \in Nat /\ windows \in Seq(Window) /\ split \in BOOLEAN

Covered(n) == \A p \in 0..(n - 1) : \E i \in DOMAIN windows : windows[i].from <= p /\ p < windows[i].to

(* Whatever its length, every byte of a function is in some chunk, chunks  *)
(* are within the limit and its text, and each shares Overlap bytes with   *)
(* the next: any passage of up to Overlap bytes is whole in one of them.   *)
ChunksCoverSource ==
    split => /\ Covered(length)
             /\ \A i \in DOMAIN windows : windows[i].to <= length /\ windows[i].to - windows[i].from <= MaxChunk
             /\ \A i \in 1..(Len(windows) - 1) : windows[i].to - windows[i + 1].from = Overlap

(* The same of a function that is being split: what the windows so far     *)
(* cover ends Overlap bytes after the next one's start.                    *)
SplitInv ==
    /\ SplitTypeOK
    /\ windows = <<>> => start = 0 /\ ~split
    /\ windows # <<>> => /\ Covered(windows[Len(windows)].to)
                         /\ split => windows[Len(windows)].to = length
                         /\ ~split => start = windows[Len(windows)].to - Overlap
    /\ \A i \in DOMAIN windows : windows[i].to <= length /\ windows[i].to - windows[i].from <= MaxChunk
    /\ \A i \in 1..(Len(windows) - 1) : windows[i].to - windows[i + 1].from = Overlap
=============================================================================
