------------------------------ MODULE TableScan ------------------------------
(***************************************************************************)
(* A table of a report becomes facts (df_to_facts of                         *)
(* ingestion/kb_builder.py): one pass over the rows with what it remembers   *)
(* of the rows above: section, period, numbered parent, outline, the entity  *)
(* of a matrix and the running sum.  A row is its label and numbers; texts   *)
(* are the classes the code's patterns tell apart.                           *)
(***************************************************************************)
EXTENDS Integers, Sequences, FiniteSetsExt, Functions

CONSTANTS
  StatementRows,  \* the rows statements and schedules are built from
  MatrixRows,     \* the rows of a table of entities and their transactions
  Title,          \* base_subheading or section_note_title, "" without one
  MaxRows         \* bound: rows of a table

None == ""
Sections == {"cost", "depreciation"}      \* _SECTION_LABELS
Periods == {"previous", "current"}        \* _PERIOD_DIVIDER_LABELS
BareTotals == {"sum"}
TotalLabels == BareTotals \union {"sum of all"}   \* _TOTAL_LABEL_RE

ASSUME ScanAssumption ==
  /\ MaxRows \in Nat
  /\ \A r \in StatementRows \union MatrixRows :
       /\ r.outline \in Nat /\ r.numbered \in BOOLEAN
       /\ \A c \in DOMAIN r.cells : r.cells[c] \in Int
       /\ {r.label, r.relation, r.descriptor} = {None} => r.outline = 0
  /\ \A r \in StatementRows : r.relation = None /\ r.descriptor = None
  /\ \A r \in MatrixRows : r.cells = << >> => r.relation = None /\ r.descriptor = None

VARIABLES
  table,      \* the rows
  byEntity,   \* context_matrix_mode: one entity's transactions stand in a run of rows
  header,     \* header_section: the value type the first column's header names
  at,         \* row_index
  place,      \* current_section, current_parent, current_group, current_period
  outline,    \* hierarchy: the headings the row stands under, one a level
  sums, count,       \* component_sums, component_count
  entity, relation,  \* active_primary_entity, active_relationship
  facts

scanVars == <<table, byEntity, header, at, place, outline, sums, count, entity, relation, facts>>

NoCells == << >>
Filled(r) == {r.label, r.relation, r.descriptor} # {None} \/ r.cells # NoCells
HasData(r) == r.cells # NoCells

ScanTypeOK ==
  /\ at \in 1..Len(table) + 1 /\ count \in 0..MaxRows
  /\ Cardinality(outline) <= MaxRows /\ Len(facts) <= MaxRows
  /\ place.section \in Sections \union {None} /\ place.period \in Periods \union {None}
  /\ \A c \in DOMAIN sums : sums[c] \in Int
  /\ ~byEntity => entity = None
  /\ entity = None => relation = None

Tables(R) == UNION {[1..n -> R] : n \in 0..MaxRows}

ScanStart ==
  /\ at = 1 /\ outline = {} /\ sums = NoCells /\ count = 0
  /\ place = [section |-> header, parent |-> None, group |-> None, period |-> None]
  /\ entity = None /\ relation = None /\ facts = << >>

ScanInit ==
  /\ \/ byEntity = FALSE /\ table \in Tables(StatementRows) /\ header \in {None, "cost"}
     \/ byEntity = TRUE /\ table \in Tables(MatrixRows) /\ header = None
  /\ ScanStart

(* matrix_mode: the header or any row without numbers names a section.       *)
ByValueType ==
  header # None \/ \E i \in DOMAIN table : table[i].label \in Sections /\ ~HasData(table[i])

-----------------------------------------------------------------------------
(* The entity a row belongs to, itself or from the rows above.              *)

Boundary(r) ==
  byEntity /\ \/ r.label \in TotalLabels \/ r.descriptor \in TotalLabels
              \/ r.label # None /\ ~HasData(r) /\ r.descriptor = None

Owner(r) ==
  IF ~byEntity \/ ~Filled(r) \/ Boundary(r) THEN None
  ELSE IF r.label # None THEN r.label ELSE entity

(* A new entity starts with its own relationship, a row below may add one.   *)
Fill(r) ==
  /\ entity' = Owner(r)
  /\ relation' = IF Owner(r) = None THEN None
                 ELSE IF r.label # None \/ r.relation # None THEN r.relation ELSE relation

(* A descriptor without an entity names its row itself.                      *)
Called(r, owner) ==
  IF owner # None THEN owner
  ELSE IF r.label # None THEN r.label
  ELSE IF r.descriptor # None THEN r.descriptor ELSE r.relation
RowLabel(r) == Called(r, Owner(r))

-----------------------------------------------------------------------------
(* What a row is called, and whether that makes it a total.                 *)

Meaningful(groups) ==
  LET named == SelectSeq(groups, LAMBDA g : g # None)
  IN IF named = << >> THEN None ELSE named[1]

Deepest == Max({h.level : h \in outline} \union {0})
Innermost == IF outline = {} THEN None ELSE (CHOOSE h \in outline : h.level = Deepest).label

LastFilled == Max({i \in DOMAIN table : Filled(table[i])} \union {0})

AddsUp(r) ==
  /\ count >= 2 /\ HasData(r)
  /\ \A c \in DOMAIN r.cells : c \in DOMAIN sums /\ sums[c] = r.cells[c]

(* A row without a label is a total only if it ends the table or adds up.    *)
BlankGroup(r) ==
  IF HasData(r) /\ ((at = LastFilled /\ count >= 2) \/ AddsUp(r))
  THEN Meaningful(<<place.group, place.parent, place.section, Title>>)
  ELSE None

BareGroup == Meaningful(<<place.section, Innermost, place.group, place.parent, Title>>)

(* The group a total of numbers is named after: the row has no label, it     *)
(* repeats the title of its schedule, or it says no more than "total".       *)
TotalGroup(r) ==
  IF RowLabel(r) = None THEN BlankGroup(r)
  ELSE IF ~HasData(r) THEN None
  ELSE IF RowLabel(r) = Title THEN Title
  ELSE IF RowLabel(r) \in BareTotals THEN BareGroup
  ELSE None

IsTotal(r) == TotalGroup(r) # None \/ RowLabel(r) \in TotalLabels

Reading == at <= Len(table) /\ at' = at + 1 /\ Fill(table[at]) /\ UNCHANGED <<table, byEntity, header>>

-----------------------------------------------------------------------------
(* The five kinds of rows.                                                  *)

Skip ==
  /\ Reading
  /\ RowLabel(table[at]) = None /\ TotalGroup(table[at]) = None
  /\ UNCHANGED <<place, outline, sums, count, facts>>

ClosesSum == sums' = NoCells /\ count' = 0

SectionDivider ==
  LET r == table[at] IN
  /\ Reading
  /\ ByValueType /\ RowLabel(r) \in Sections /\ ~HasData(r)
  /\ place' = [place EXCEPT !.section = RowLabel(r), !.group = RowLabel(r)]
  /\ outline' = {} /\ ClosesSum
  /\ UNCHANGED facts

(* (mutated form: the sum runs on from one period into the next)             *)
NewPeriod_SumKept(r) == place' = [place EXCEPT !.period = RowLabel(r)] /\ UNCHANGED <<sums, count>>

NewPeriod(r) == place' = [place EXCEPT !.period = RowLabel(r)] /\ ClosesSum

PeriodDivider ==
  /\ Reading
  /\ RowLabel(table[at]) \in Periods /\ ~HasData(table[at])
  /\ NewPeriod(table[at])
  /\ UNCHANGED <<outline, facts>>

Above(level) == {h \in outline : h.level < level}

Under(level, label) == Above(level) \union {[level |-> level, label |-> label]}

(* A heading without a number stands one level below the last.               *)
Heading ==
  LET r == table[at] IN
  /\ Reading
  /\ RowLabel(r) \notin Periods \union Sections \union {None} /\ ~HasData(r)
  /\ place' = [place EXCEPT !.group = RowLabel(r)]
  /\ outline' = Under(IF r.outline > 0 THEN r.outline ELSE Deepest + 1, RowLabel(r))
  /\ ClosesSum
  /\ UNCHANGED facts

(* A row of numbers under "1.", "II." or "A." is the parent of the rows below *)
(* that only break it down; a total loses its outline number.                *)
Level(r) == IF TotalGroup(r) # None THEN 0 ELSE r.outline
Placed(r) ==
  IF r.numbered /\ TotalGroup(r) = None /\ ~ByValueType
  THEN [place EXCEPT !.parent = r.label, !.group = r.label] ELSE place

(* One fact for each number of the row, in one record here.                  *)
FactsOf(r) ==
  [at |-> at, label |-> IF TotalGroup(r) # None THEN TotalGroup(r) ELSE RowLabel(r),
   inferred |-> TotalGroup(r) # None, blank |-> RowLabel(r) = None, total |-> IsTotal(r),
   cells |-> r.cells,
   headings |-> IF Level(r) = 0 THEN outline ELSE Above(Level(r)),
   section |-> place.section, parent |-> Placed(r).parent, period |-> place.period,
   entity |-> Owner(r), relation |-> relation']

Adds(r) ==
  /\ count' = count + 1
  /\ sums' = [c \in DOMAIN sums \union DOMAIN r.cells |->
                (IF c \in DOMAIN sums THEN sums[c] ELSE 0)
                  + (IF c \in DOMAIN r.cells THEN r.cells[c] ELSE 0)]

Facts ==
  LET r == table[at] IN
  /\ Reading
  /\ HasData(r) /\ (RowLabel(r) # None \/ TotalGroup(r) # None)
  /\ place' = Placed(r)
  /\ facts' = Append(facts, FactsOf(r))
  /\ outline' = IF Level(r) > 0 THEN Under(Level(r), RowLabel(r)) ELSE outline
  /\ IF IsTotal(r) THEN ClosesSum ELSE Adds(r)

ScanNext == Skip \/ SectionDivider \/ PeriodDivider \/ Heading \/ Facts

ScanSpec == ScanInit /\ [][ScanNext]_scanVars

-----------------------------------------------------------------------------
(* What a reader of the table would say of a row, from the rows above it.    *)

RowsAbove(P(_), i) == {j \in 1..i - 1 : P(table[j])}
LabelOfLast(P(_), i, otherwise) ==
  IF RowsAbove(P, i) = {} THEN otherwise ELSE table[Max(RowsAbove(P, i))].label

DividesSections(r) == r.label \in Sections /\ ~HasData(r)
DividesPeriods(r) == r.label \in Periods /\ ~HasData(r)

(* The run of rows below the last one that names an entity or ends a run.    *)
OwnerOf(i) ==
  LET starts == {j \in 1..i : table[j].label # None \/ ~Filled(table[j])
                                \/ table[j].descriptor \in TotalLabels}
  IN IF ~byEntity \/ starts = {} THEN None
     ELSE LET r == table[Max(starts)]
          IN IF r.label \in TotalLabels \/ r.descriptor \in TotalLabels
                  \/ (~HasData(r) /\ r.descriptor = None)
             THEN None ELSE r.label

NameOf(i) == Called(table[i], OwnerOf(i))

(* The number it stands under: a divider and a renamed total have none.      *)
NumberOf(i) ==
  IF \/ DividesSections(table[i]) \/ DividesPeriods(table[i])
     \/ \E k \in DOMAIN facts : facts[k].at = i /\ facts[k].inferred
  THEN 0 ELSE table[i].outline

(* A numbered row stands until the next of its level or a section.           *)
Stands(j, i) ==
  /\ NumberOf(j) > 0
  /\ \A k \in j + 1..i - 1 :
       ~DividesSections(table[k]) /\ NumberOf(k) \notin 1..NumberOf(j)

(* A heading without a number stands until the next first-level row at most. *)
StandsBare(j, i) ==
  /\ NumberOf(j) = 0 /\ ~HasData(table[j]) /\ table[j].label \notin Sections \union Periods
  /\ \A k \in j + 1..i - 1 : ~DividesSections(table[k]) /\ NumberOf(k) # 1

(* A row stands under the numbered rows above its own level, and under what  *)
(* else is a heading.                                                        *)
PlacedUnder(f) ==
  LET own == NumberOf(f.at)
  IN /\ \A j \in 1..f.at - 1 :
          (Stands(j, f.at) /\ (own = 0 \/ NumberOf(j) < own)) =>
            [level |-> NumberOf(j), label |-> NameOf(j)] \in f.headings
     /\ \A h \in f.headings :
          /\ own = 0 \/ h.level < own
          /\ \E j \in 1..f.at - 1 :
               /\ h.label = NameOf(j)
               /\ (Stands(j, f.at) /\ h.level = NumberOf(j)) \/ StandsBare(j, f.at)

(* Every fact stands where a reader of the table would put it: under the     *)
(* last section and period divider above it, below the numbered headings     *)
(* that enclose it and no other, and with the entity of its own run of rows, *)
(* never one from before a heading, a total or an empty row                  *)
(* (kb_builder.py:1134-1217, :1311-1345, :1620-1628).                        *)
FactsKeepTheirPlace ==
  \A i \in DOMAIN facts :
    LET f == facts[i] IN
    /\ f.section = LabelOfLast(DividesSections, f.at, header)
    /\ f.period = LabelOfLast(DividesPeriods, f.at, None)
    /\ f.entity = OwnerOf(f.at)
    /\ PlacedUnder(f)

(* The facts, of the first n, that a sum at row i is of: those below the last *)
(* heading, divider and total.                                               *)
Summed(i, n) ==
  {k \in 1..n : /\ \A j \in facts[k].at..i - 1 : table[j].label = None \/ HasData(table[j])
                /\ \A m \in k..n : ~facts[m].total}
ColumnSum(S, c) ==
  SumFunction([k \in {k \in S : c \in DOMAIN facts[k].cells} |-> facts[k].cells[c]])

(* A row without a label that became a total stands below two components or  *)
(* more of its own group, period and section, and unless it ends the table   *)
(* it is their sum in every column: no number of another group is counted    *)
(* in, and none is taken twice (kb_builder.py:1237-1273, :1630-1640).        *)
TotalsAddUp ==
  \A i \in DOMAIN facts :
    LET f == facts[i]
        own == Summed(f.at, i - 1)
    IN f.blank =>
         /\ Cardinality(own) >= 2
         /\ f.at = LastFilled \/ \A c \in DOMAIN f.cells : f.cells[c] = ColumnSum(own, c)

(* Both: a fact means what its row means, in its place and in its sums.      *)
FactsMeanTheirRows == FactsKeepTheirPlace /\ TotalsAddUp
=============================================================================
