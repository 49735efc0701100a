----------------------------- MODULE DiffParser -----------------------------
(***************************************************************************)
(* parse_unified_diff of diff/parser.py.  A tool that knows what every line *)
(* means writes a diff; the parser then reads it with the tests the code    *)
(* applies to a line, which see only how the line begins.  A parser step is *)
(* one iteration of a loop of the code.                                     *)
(***************************************************************************)
EXTENDS Integers, Sequences, SequencesExt, FiniteSetsExt

CONSTANTS
    Paths,       \* file paths, DevNull and NoPath among them
    DevNull,     \* /dev/null, the new side of a deleted file
    NoPath,      \* an empty path
    LineNumbers, \* bound: new-file line numbers at which hunks start
    MaxLines,    \* bound: lines of a diff
    MaxBody,     \* bound: lines of its hunks
    None

ASSUME DiffAssumption ==
    /\ {DevNull, NoPath} \subseteq Paths /\ DevNull # NoPath
    /\ LineNumbers \subseteq Nat /\ MaxLines \in Nat /\ MaxBody \in Nat
    /\ None \notin Int \cup Paths

VARIABLES
    text,     \* the lines of the diff
    writer,   \* the tool: whether it writes "diff --git" lines, and where in a file it is
    headers,  \* history: the lines at which it began a file
    truth,    \* history: the new-side lines that come before any unreadable one of their hunk
    phase,    \* "writing", "parsing", "accepted", "rejected"
    reading,  \* the parser's locals: the line it looks at, path, current_new_line, ...
    lines     \* the NewFileLines of all files, in order

diff == <<text, writer, headers, truth>>
vars == <<diff, phase, reading, lines>>

\* How a line begins, as far as the parser tells.  "+++ " and "--- " begin headers, and
\* added or removed lines whose content begins with "++ " or "-- "; "+++" and "---" are
\* longer runs of marks; "" is a context line stripped of its only space.
Added == {"+", "+++", "+++ "}
Removed == {"-", "---", "--- "}
Context == {" ", ""}
Beginnings == {"diff --git ", "@@", "\\", "other"} \cup Added \cup Removed \cup Context

\* path and start are what a header or a hunk header says, path with what _clean_path
\* takes away already gone: a timestamp after a tab, quotes, and a leading a/ or b/.
Line == [begins : Beginnings, path : Paths, start : Nat]
Begins(b) == [begins |-> b, path |-> NoPath, start |-> 0]
Header(p) == [begins |-> "+++ ", path |-> p, start |-> 0]

NewFileLine == [path : Paths \ {DevNull, NoPath}, line : Nat, added : BOOLEAN, hunk : Nat]

Init ==
    /\ text = <<>> /\ headers = {} /\ truth = <<>>
    /\ \E git \in BOOLEAN : writer = [git |-> git, path |-> None, line |-> 0, hunk |-> -1,
                                      readable |-> TRUE, body |-> 0]
    /\ phase = "writing"
    /\ reading = [next |-> 0, path |-> None, line |-> None, hunk |-> -1, sawHunk |-> FALSE]
    /\ lines = <<>>

-----------------------------------------------------------------------------
(* The tool *)

Write(new) ==
    /\ phase = "writing" /\ Len(text) + Len(new) <= MaxLines
    /\ text' = text \o new
    /\ UNCHANGED <<phase, reading, lines>>

BeginFile(path, new) ==
    /\ Write((IF writer.git THEN <<Begins("diff --git ")>> ELSE <<>>) \o new)
    /\ writer' = [writer EXCEPT !.path = path, !.line = 0, !.hunk = -1]
    /\ headers' = headers \cup {Len(text) + 1}
    /\ UNCHANGED truth

WriteFile == \E p \in Paths : BeginFile(p, <<Begins("--- "), Header(p)>>)

\* A renamed or binary file has neither headers nor hunks.
WriteRename == writer.git /\ BeginFile(None, <<Begins("other")>>)

WriteHunk ==
    /\ writer.path \notin {None, NoPath}
    /\ \E n \in LineNumbers :
        /\ n >= writer.line
        /\ Write(<<[begins |-> "@@", path |-> NoPath, start |-> n]>>)
        /\ writer' = [writer EXCEPT !.line = n, !.hunk = @ + 1, !.readable = TRUE]
    /\ UNCHANGED <<headers, truth>>

\* What the parser takes for the end of the hunk, it cannot read, nor what follows in
\* this hunk.
WriteBody ==
    /\ writer.hunk >= 0 /\ writer.body < MaxBody
    /\ \E b \in Added \cup Removed \cup Context \cup {"\\"}, p \in Paths \ {NoPath} :
        LET newSide == b \in Added \cup Context
            readable == writer.readable /\ b \in {"+", "-", " ", "\\"}
        IN
        /\ newSide => writer.path # DevNull
        /\ Write(<<IF b = "+++ " THEN Header(p) ELSE Begins(b)>>)
        /\ writer' = [writer EXCEPT !.line = IF newSide THEN @ + 1 ELSE @,
                                    !.readable = readable, !.body = @ + 1]
        /\ truth' = IF ~(newSide /\ readable) THEN truth
                    ELSE Append(truth, [path |-> writer.path, line |-> writer.line,
                                        added |-> b \in Added, hunk |-> writer.hunk])
    /\ UNCHANGED headers

-----------------------------------------------------------------------------
(* The parser *)

\* _section_starts
SectionStarts ==
    LET gitStarts == {i \in DOMAIN text : text[i].begins = "diff --git "} IN
    IF gitStarts # {} THEN gitStarts
    ELSE {i \in 1..Len(text) - 1 : text[i].begins = "--- " /\ text[i + 1].begins = "+++ "}

\* The lines of the section that begins at line i which look like such a header.
Headers(i, b) ==
    {k \in i..Len(text) : text[k].begins = b /\ \A s \in SectionStarts : s <= i \/ k < s}

Parse ==
    /\ phase = "writing"
    /\ IF SectionStarts = {}
       THEN phase' = "rejected" /\ UNCHANGED reading
       ELSE phase' = "parsing" /\ reading' = [reading EXCEPT !.next = Min(SectionStarts)]
    /\ UNCHANGED <<diff, lines>>

HunksSeen_InSection == FALSE
HunksSeen == reading.sawHunk

\* The head of a section: its headers and its path.
OpenSection ==
    LET i == reading.next
        header == Min(Headers(i, "+++ "))
    IN
    /\ phase = "parsing" /\ i \in SectionStarts
    /\ IF Headers(i, "--- ") = {} \/ Headers(i, "+++ ") = {} \/ text[header].path = NoPath
       THEN phase' = "rejected" /\ UNCHANGED reading
       ELSE /\ reading' = [next |-> header + 1, path |-> text[header].path, line |-> None,
                           hunk |-> -1, sawHunk |-> HunksSeen]
            /\ UNCHANGED phase
    /\ UNCHANGED <<diff, lines>>

\* A line after the headers.
Reads ==
    /\ phase = "parsing" /\ reading.next \in DOMAIN text \ SectionStarts
    /\ UNCHANGED <<diff, phase>>

InHunk == reading.line # None
Reading == text[reading.next]

ReadHunkStart ==
    /\ Reads /\ Reading.begins = "@@"
    /\ reading' = [reading EXCEPT !.next = @ + 1, !.line = Reading.start,
                                  !.hunk = @ + 1, !.sawHunk = TRUE]
    /\ UNCHANGED lines

Reported_Always(path) == TRUE
Reported(path) == path # DevNull

NewSide_AddedOnly(b) == b = "+"
NewSide(b) == b \in {"+", " "}

ReadNewSide ==
    /\ Reads /\ InHunk /\ Reading.begins \in {"+", " "}
    /\ lines' = IF ~Reported(reading.path) THEN lines
                ELSE Append(lines, [path |-> reading.path, line |-> reading.line,
                                    added |-> Reading.begins = "+", hunk |-> reading.hunk])
    /\ reading' = [reading EXCEPT !.next = @ + 1,
                                  !.line = IF NewSide(Reading.begins) THEN @ + 1 ELSE @]

\* Removed lines and "\ No newline at end of file" are passed over; any other line ends
\* the hunk; outside a hunk nothing counts.
PassOver ==
    /\ Reads /\ Reading.begins # "@@" /\ ~(InHunk /\ Reading.begins \in {"+", " "})
    /\ reading' = [reading EXCEPT !.next = @ + 1,
                                  !.line = IF Reading.begins \in {"-", "\\"} THEN @ ELSE None]
    /\ UNCHANGED lines

Return ==
    /\ phase = "parsing" /\ reading.next = Len(text) + 1
    /\ phase' = IF reading.sawHunk THEN "accepted" ELSE "rejected"
    /\ UNCHANGED <<diff, reading, lines>>

Next ==
    \/ WriteFile \/ WriteRename \/ WriteHunk \/ WriteBody
    \/ Parse \/ OpenSection \/ ReadHunkStart \/ ReadNewSide \/ PassOver \/ Return

Spec == Init /\ [][Next]_vars

-----------------------------------------------------------------------------
(* Properties *)

\* Text, locals and result have the shapes of the code's lists and dataclasses; no line
\* of /dev/null is ever reported.
TypeOK ==
    /\ text \in Seq(Line)
    /\ phase \in {"writing", "parsing", "accepted", "rejected"}
    /\ reading \in [next : 0..Len(text) + 1, path : Paths \cup {None}, line : Nat \cup {None},
                    hunk : Nat \cup {-1}, sawHunk : BOOLEAN]
    /\ lines \in Seq(NewFileLine)

\* The parser never invents a line, nor gives one a wrong path, number or hunk, and
\* loses only what follows an unreadable line in its hunk, of a diff whose sections it
\* finds where the tool began them; that is every diff with "diff --git" lines.
LinesAreTrue ==
    /\ writer.git /\ text # <<>> => SectionStarts = headers
    /\ SectionStarts = headers =>
          /\ IsPrefix(lines, truth)
          /\ phase = "accepted" => lines = truth

\* A diff is refused whole only when one of its files has no headers (a rename, a
\* binary file) or no path, or when none of them has a hunk.
RefusedForCause ==
    phase = "rejected" /\ SectionStarts = headers =>
        \/ \A i \in DOMAIN text : text[i].begins # "@@"
        \/ \E i \in DOMAIN text : text[i] \in {Begins("other"), Header(NoPath)}

=============================================================================
