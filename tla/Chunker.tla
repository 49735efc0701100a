------------------------------ MODULE Chunker ------------------------------
(***************************************************************************)
(* chunk_file_diffs of diff/chunker.py: the files of a diff are packed into *)
(* chunks for the provider, whole and in order.  A step is one iteration of *)
(* its loop.  A file is its position in the diff; what counts of it is its  *)
(* byte_size.                                                               *)
(***************************************************************************)
EXTENDS Naturals, Sequences, SequencesExt

CONSTANTS
    Maximum,   \* maximum_bytes, settings.chunk_bytes
    Sizes,     \* byte sizes a file's diff may have
    MaxFiles   \* bound: files in a diff

\* Sections of a diff have at least their two header lines.
ASSUME ChunkerAssumption == Maximum \in Nat /\ Sizes \subseteq Nat \ {0} /\ MaxFiles \in Nat

VARIABLES
    files,        \* the sizes of the files, the argument
    next,         \* the file the loop looks at
    chunks,       \* chunks closed so far, sequences of files
    current,      \* files of the open chunk
    currentSize,
    returned

vars == <<files, next, chunks, current, currentSize, returned>>

\* A diff that parses has at least one file.
Init ==
    /\ files \in UNION {[1..n -> Sizes] : n \in 1..MaxFiles}
    /\ next = 1
    /\ chunks = <<>>
    /\ current = <<>>
    /\ currentSize = 0
    /\ returned = FALSE

Fits_Full(size) == current = <<>> \/ currentSize + size < Maximum
Fits_AsBefore(size) == current = <<>> \/ currentSize <= Maximum
Fits(size) == current = <<>> \/ currentSize + size <= Maximum

Oversized(size) == size > Maximum

\* chunks once "if current" has closed the open one.
Closed_Dropped == IF Len(current) < 2 THEN chunks ELSE Append(chunks, current)
Closed == IF current = <<>> THEN chunks ELSE Append(chunks, current)

Looking_Skips == next <= Len(files) /\ next' = next + 2 /\ UNCHANGED <<files, returned>>
Looking == next <= Len(files) /\ next' = next + 1 /\ UNCHANGED <<files, returned>>

Extend ==
    /\ Looking /\ ~Oversized(files[next]) /\ Fits(files[next])
    /\ current' = Append(current, next)
    /\ currentSize' = currentSize + files[next]
    /\ UNCHANGED chunks

StartNew ==
    /\ Looking /\ ~Oversized(files[next]) /\ ~Fits(files[next])
    /\ chunks' = Closed
    /\ current' = <<next>>
    /\ currentSize' = files[next]

\* A file larger than a chunk is a chunk of its own.  The second "if current" of the
\* loop finds the chunk closed already.
Isolate ==
    /\ Looking /\ Oversized(files[next])
    /\ chunks' = Append(Closed, <<next>>)
    /\ current' = <<>>
    /\ currentSize' = 0

Return ==
    /\ next = Len(files) + 1 /\ ~returned
    /\ chunks' = Closed
    /\ current' = <<>>
    /\ returned' = TRUE
    /\ UNCHANGED <<files, next, currentSize>>

Next == Extend \/ StartNew \/ Isolate \/ Return

Spec == Init /\ [][Next]_vars

-----------------------------------------------------------------------------
(* Properties *)

\* The locals of the loop are what their annotations say.
TypeOK ==
    /\ files \in Seq(Sizes) /\ next \in 1..Len(files) + 1
    /\ chunks \in Seq(Seq(1..Len(files))) /\ current \in Seq(1..Len(files))
    /\ currentSize \in Nat /\ returned \in BOOLEAN

\* The closed chunks with the open one, if it has files.
AllChunks == Closed

First(c) == c[1]
LastOf(c) == c[Len(c)]
FileAfter(cs) == IF cs = <<>> THEN 1 ELSE LastOf(cs[Len(cs)]) + 1

Run(c) == c # <<>> /\ \A k \in 2..Len(c) : c[k] = c[k - 1] + 1

\* The chunks cs are runs of consecutive files, each continuing the one before.
Consecutive(cs) ==
    \A i \in 1..Len(cs) :
        /\ Run(cs[i])
        /\ First(cs[i]) = IF i = 1 THEN 1 ELSE LastOf(cs[i - 1]) + 1

\* Nothing is lost, repeated, reordered or left empty: the chunks hold the files from
\* the first to the last one looked at, in their order.
PackedInOrder == Consecutive(AllChunks) /\ next = FileAfter(AllChunks)

SumOf(sizes, c) ==
    LET total[k \in 0..Len(c)] == IF k = 0 THEN 0 ELSE total[k - 1] + sizes[c[k]]
    IN total[Len(c)]
SizeOf(c) == SumOf(files, c)

\* No chunk is larger than the limit, but for a file that alone is.
ChunksBounded ==
    \A i \in DOMAIN AllChunks : SizeOf(AllChunks[i]) <= Maximum \/ Len(AllChunks[i]) = 1

\* A chunk ends only where the next file would not have fitted: no two neighbours
\* could have been one chunk, so that usage.chunks counts no needless provider call.
NoNeedlessSplit ==
    \A i \in DOMAIN AllChunks \ {1} :
        SizeOf(AllChunks[i - 1]) + files[First(AllChunks[i])] > Maximum

=============================================================================
