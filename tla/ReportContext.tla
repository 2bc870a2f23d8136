---------------------------- MODULE ReportContext ----------------------------
(***************************************************************************)
(* A converted report is read line by line into tables, each with the        *)
(* statement or note it stands in (attach_context of                         *)
(* ingestion/table_parser.py); then tables that lost their header to a page  *)
(* break inherit it.  A line is what the patterns find in it.                *)
(***************************************************************************)
EXTENDS Integers, Sequences, SequencesExt, FiniteSetsExt

CONSTANTS
  LineKinds,  \* the lines a report is made of
  MaxLines    \* bound: lines of a report

Nothing == ""
Statements == {"balance", "income", "cashflow"}
Note == "note"
Named == Statements \union {Note, "report"}   \* _SECTION_HEADINGS

ASSUME ContextAssumption ==
  /\ MaxLines \in Nat
  /\ \A l \in LineKinds :
       /\ l.kind \in {"page", "row", "heading", "text"} /\ l.names \in Named \union {Nothing}
       /\ {l.page, l.schedule, l.width} \subseteq Nat /\ {l.starts, l.continued} \subseteq BOOLEAN
       /\ l.look \in {Nothing, "semantic", "data", "marker"}

VARIABLES
  lines,    \* the lines read
  here,     \* current_section, in_note_section, current_note_ref, ... as last latched
  open,     \* current_table: its rows' looks, and its width
  blocks,   \* tables_with_context
  read      \* the whole report is read

contextVars == <<lines, here, open, blocks, read>>

NoPage == 0
NoRef == <<Nothing, 0>>
NoTable == [looks |-> << >>, width |-> 0]

ContextTypeOK ==
  /\ Len(lines) <= MaxLines /\ read \in BOOLEAN
  /\ here.section \in Named \union {Nothing} /\ here.page \in Nat
  /\ \A b \in ToSet(blocks) : b.at \in DOMAIN lines /\ b.from < b.at /\ b.width > 0
  /\ open # NoTable => ~read /\ lines # << >> /\ Last(lines).kind = "row"

ContextInit ==
  /\ lines = << >> /\ open = NoTable /\ blocks = << >> /\ read = FALSE
  /\ here = [section |-> Nothing, inNotes |-> FALSE, chapter |-> "V", ref |-> NoRef,
             page |-> NoPage, continued |-> FALSE, said |-> {}]

-----------------------------------------------------------------------------
(* What a line changes.                                                     *)

(* flush_table: at the first line that is no row.                            *)
Flushed ==
  IF open = NoTable THEN blocks
  ELSE Append(blocks, [section |-> here.section, ref |-> here.ref, page |-> here.page,
                       continued |-> here.continued \/ here.said # {},
                       looks |-> open.looks, width |-> open.width, look |-> open.looks[1],
                       at |-> Len(lines), from |-> 0])

NewPage(c, l) == IF l.kind = "page" THEN [c EXCEPT !.page = l.page, !.continued = FALSE] ELSE c

(* "(tiếp theo)" in any line marks the page.                                 *)
Continued(c, l) == IF l.continued THEN [c EXCEPT !.continued = TRUE] ELSE c

Says(c, what, l) == [c EXCEPT !.said = IF l.continued THEN @ \union {what} ELSE @ \ {what}]

(* (mutated form: the schedule of the last note stays)                       *)
Leave_RefKept(c, l) == [c EXCEPT !.section = l.names, !.inNotes = FALSE]

Leave(c, l) ==
  [c EXCEPT !.section = l.names, !.inNotes = FALSE, !.ref = NoRef, !.said = @ \ {"title"}]

(* A chapter of the notes and a caption that mentions a statement are still  *)
(* notes; a heading that only names the notes without opening them changes   *)
(* nothing.                                                                  *)
Section(c, l) ==
  IF c.inNotes /\ (l.chapter # Nothing \/ (l.names \in Statements /\ ~l.starts))
    THEN [c EXCEPT !.section = Note]
  ELSE IF l.names = Note
    THEN IF l.starts THEN [c EXCEPT !.section = Note, !.inNotes = TRUE] ELSE c
  ELSE IF l.names # Nothing THEN Leave(c, l) ELSE c

Chapter(c, l) == IF c.inNotes /\ l.chapter # Nothing THEN [c EXCEPT !.chapter = l.chapter] ELSE c

ScheduleRef(c, l) ==
  IF c.inNotes /\ l.schedule > 0
  THEN Says([c EXCEPT !.ref = <<c.chapter, l.schedule>>], "title", l) ELSE c

(* A heading latches its section, a numbered one or a short numbered line    *)
(* among the notes its schedule.                                             *)
Latched(c, l) ==
  LET d == Continued(NewPage(c, l), l)
  IN CASE l.kind = "heading" -> ScheduleRef(Chapter(Section(Says(d, "heading", l), l), l), l)
       [] l.kind = "text" -> ScheduleRef(d, l)
       [] OTHER -> d

ReadLine(l) ==
  /\ ~read /\ Len(lines) < MaxLines
  /\ l.kind = "row" /\ open # NoTable => l.width = open.width
  /\ blocks' = IF l.kind = "row" THEN blocks ELSE Flushed
  /\ open' = IF l.kind # "row" THEN NoTable
             ELSE [looks |-> Append(open.looks, l.look), width |-> l.width]
  /\ here' = Latched(here, l)
  /\ lines' = Append(lines, l)
  /\ UNCHANGED read

-----------------------------------------------------------------------------
(* Headers: made up for lists of marked rows, or inherited.                 *)

Recovered(b) ==
  IF b.look = "marker" /\ \E i \in 2..Len(b.looks) : b.looks[i] = "marker"
  THEN [b EXCEPT !.look = "semantic"] ELSE b

(* previous_by_context: the last table of the same place that has a header.  *)
Previous(done, b) ==
  Max({i \in DOMAIN done : done[i].look = "semantic" /\ done[i].section = b.section
                             /\ done[i].ref = b.ref} \union {0})

SamePlace(a, b) ==
  a.page = NoPage \/ b.page = NoPage \/ b.page \in {a.page, a.page + 1}

Inherited(done, b) ==
  LET i == Previous(done, b)
  IN Append(done, IF /\ b.continued /\ b.look = "data" /\ i # 0
                     /\ SamePlace(done[i], b) /\ done[i].width = b.width
                  THEN [b EXCEPT !.look = "semantic", !.from = i] ELSE b)

Finish ==
  /\ ~read /\ read' = TRUE
  /\ blocks' = FoldLeft(Inherited, << >>, [i \in DOMAIN Flushed |-> Recovered(Flushed[i])])
  /\ open' = NoTable
  /\ UNCHANGED <<lines, here>>

ContextNext == Finish \/ \E l \in LineKinds : ReadLine(l)

ContextSpec == ContextInit /\ [][ContextNext]_contextVars

-----------------------------------------------------------------------------
(* Where a reader of the report would say that line i stands.               *)

Opens(i) == lines[i].kind = "heading" /\ lines[i].names = Note /\ lines[i].starts
Closes(i) ==
  /\ lines[i].kind = "heading" /\ lines[i].names # Note
  /\ lines[i].chapter = Nothing
  /\ lines[i].names = "report" \/ (lines[i].names \in Statements /\ lines[i].starts)

LastLine(S) == Max(S \union {0})
StartOf(i) == LastLine({j \in 1..i : Opens(j) \/ Closes(j)})
AmongNotes(i) == StartOf(i) # 0 /\ Opens(StartOf(i))

SectionAt(i) ==
  IF AmongNotes(i) THEN Note
  ELSE LET j == LastLine({k \in 1..i : lines[k].kind = "heading" /\ ~AmongNotes(k)
                                         /\ lines[k].names \notin {Note, Nothing}})
       IN IF j = 0 THEN Nothing ELSE lines[j].names

Announces(i) ==
  AmongNotes(i) /\ lines[i].kind \in {"heading", "text"} /\ lines[i].schedule > 0
OpensChapter(i) == AmongNotes(i) /\ lines[i].kind = "heading" /\ lines[i].chapter # Nothing

ChapterAt(i) ==
  LET j == LastLine({k \in 1..i : OpensChapter(k)})
  IN IF j = 0 THEN "V" ELSE lines[j].chapter

ScheduleAt(i) ==
  LET j == LastLine({k \in 1..i : Announces(k) /\ \A m \in k..i : AmongNotes(m)})
  IN IF j = 0 THEN NoRef ELSE <<ChapterAt(j), lines[j].schedule>>

(* Every table stands where its place in the report says: in the statement   *)
(* opened last or among the notes, with the schedule announced last since    *)
(* the notes were opened and never with one of an earlier stay among them;   *)
(* and a header is inherited only from the table of that same statement or   *)
(* schedule before it, of the same width and on this page or the one before  *)
(* (table_parser.py:391-441, :468-575).                                      *)
TablesStandInTheirNote ==
  \A n \in DOMAIN blocks :
    LET b == blocks[n]  a == blocks[b.from] IN
    /\ b.section = SectionAt(b.at) /\ b.ref = ScheduleAt(b.at)
    /\ b.from # 0 =>
         /\ b.from < n /\ a.look = "semantic" /\ a.width = b.width
         /\ SectionAt(a.at) = SectionAt(b.at) /\ ScheduleAt(a.at) = ScheduleAt(b.at)
         /\ \A m \in b.from + 1..n - 1 :
              blocks[m].look = "semantic" => <<blocks[m].section, blocks[m].ref>> # <<b.section, b.ref>>
         /\ b.page > a.page + 1 => a.page = NoPage
=============================================================================
