----------------------------- MODULE PageExport -----------------------------
(***************************************************************************)
(* Exporting the page of a session again and again (apexlang.export_       *)
(* apexlang with ailayout.assist, Workbench.export and preview_html): the  *)
(* layout rules place the controls, a provider may be asked to place those *)
(* of crowded regions better, its plan is validated, applied and kept for  *)
(* the next export, and a block is bound to its table once a reviewer has  *)
(* confirmed its key.                                                      *)
(*                                                                         *)
(* The source is converted again between exports: Revisions[sample] are    *)
(* the forms it goes through.  A digest is the request itself.             *)
(***************************************************************************)
EXTENDS PageLayout

CONSTANTS Revisions,   \* per sample, the forms its source becomes
          Layouts,     \* what the layout rules make of each of them
          Pages,       \* page numbers an export may be given
          Cells,       \* the cells a provider may propose: [column, span, label, side]
          KeyColumns,  \* names a reviewer may give for a key
          MaxExports,
          Absent

ASSUME ExportAssumption ==
  /\ Pages \subseteq Nat \ {0} /\ 1 \in Pages /\ MaxExports \in Nat
  /\ \A s \in DOMAIN Revisions : Revisions[s] # <<>> /\ Revisions[s] \in Seq(ToSet(Revisions[s]))
  /\ Layouts = [s \in DOMAIN Revisions |-> Map(LAMBDA form : Layout(form), Revisions[s])]

DenseRow == 5

VARIABLES sample,    \* which form this is about
          revision,  \* the module that is open
          config,    \* the remembered choices of the last export
          plans,     \* the plan kept for each page: [request, plan]
          keys,      \* block -> its confirmed key column
          exported,  \* the last page written, with what it was made of
          placed,    \* the last page a provider placed, for each page number
          refused,   \* was the last export refused
          exports    \* bound

exportVars == <<sample, revision, config, plans, keys, exported, placed, refused, exports>>

Form == Revisions[sample][revision]

-----------------------------------------------------------------------------
(* What the provider is asked *)

Placed(layout, r) == Map(LAMBDA cell : Fit(layout.controls[cell.ref[2]], cell.ref[2]), r.body)
Hard(layout) ==
  SelectSeq(layout.regions, LAMBDA r :
    /\ r.kind = "static" /\ r.body # <<>>
    /\ \/ \E k \in DOMAIN r.body : r.body[k].flags # {}
       \/ \E row \in ToSet(Rows(Placed(layout, r))) : Len(row) >= DenseRow)

\* The page of the rules, and the regions a provider is asked about.
Ruled == [s \in DOMAIN Revisions |->
            Map(LAMBDA layout : [layout |-> layout, hard |-> Hard(layout)], Layouts[s])]
Rules == Ruled[sample][revision].layout
HardOnes == Ruled[sample][revision].hard

Corner(form, layout, r) ==
  CASE r.id[4] > 0       -> LET u == Union(Placed(layout, r), <<>>) IN <<u.x, u.y, u.w, u.h>>
    [] r.id[1] = "frame" -> LET g == form.canvases[r.id[2]].graphics[r.id[3]] IN <<g.x, g.y, g.w, g.h>>
    [] OTHER             -> LET c == form.canvases[r.id[2]] IN <<0, 0, c.w, c.h>>

\* request: what is drawn in a region, relative to it, and where the rules
\* put it, under the names the page has for it.
RegionsRequest(form, layout, regions, page) ==
  LET Asked(r) ==
        LET corner == Corner(form, layout, r)
            rules(i) == LET at == CHOOSE c \in ToSet(r.body) : c.ref = <<"control", i>>
                        IN [column |-> at.column, span |-> at.span, label |-> at.label, flags |-> at.flags]
            Control(b) == [name |-> <<page>> \o <<ItemName(form, b.ref[2])>>,
                           x |-> b.x - corner[1], y |-> b.y - corner[2], w |-> b.w, h |-> b.h,
                           caption |-> layout.controls[b.ref[2]].caption, room |-> b.room,
                           rules |-> rules(b.ref[2])]
        IN [id |-> r.id, w |-> corner[3], h |-> corner[4],
            rows |-> Map(LAMBDA row : Map(Control, row), Rows(Placed(layout, r)))]
  IN Map(Asked, regions)

-----------------------------------------------------------------------------
(* What becomes of its plan: a sequence of [id, rows], a row a sequence of *)
(* [name, column, span, label, side]                                       *)

NamesIn(form, r) == {ItemName(form, c.ref[2]) : c \in ToSet(r.body)}
GoodCell(cell, free) ==
  /\ cell.column \in 1..GridColumns
  /\ cell.span \in 1..(GridColumns + 1 - cell.column)
  /\ cell.column >= free
  /\ cell.label \in 0..(cell.span - 1)
  /\ cell.side = "left" => cell.label > 0
IsList(x) == x \in Seq(ToSet(x))
GoodRow(row) ==
  /\ IsList(row) /\ row # <<>>
  /\ \A k \in DOMAIN row :
       GoodCell(row[k], IF k = 1 THEN 1 ELSE row[k - 1].column + row[k - 1].span)

\* validate_plan: every control of every region asked about, exactly once,
\* in cells that do not overlap, with labels narrower than their cells.
ValidPlan(form, regions, plan) ==
  LET asked(id) == {r \in ToSet(regions) : r.id = id}
      names(entry) == Map(LAMBDA cell : cell.name, FlattenSeq(entry.rows))
  IN /\ IsList(plan)
     /\ {plan[k].id : k \in DOMAIN plan} = {r.id : r \in ToSet(regions)}
     /\ \A j, k \in DOMAIN plan : plan[j].id = plan[k].id => j = k
     /\ \A entry \in ToSet(plan) :
          /\ IsList(entry.rows) /\ entry.rows # <<>>
          /\ \A k \in DOMAIN entry.rows : GoodRow(entry.rows[k])
          /\ \A r \in asked(entry.id) : ToSet(names(entry)) = NamesIn(form, r)
          /\ \A j, k \in DOMAIN names(entry) : names(entry)[j] = names(entry)[k] => j = k

\* apply_plan: the body of each region in the order of the plan; a control
\* that shows no caption has no label.
Labelled(layout, cell) ==
  LET c == layout.controls[cell.ref[2]] IN c.caption /\ ~c.choice /\ cell.side \notin {"none", "control"}
Put(layout, old, new, k) ==
  LET labelled == Labelled(layout, old)
      left     == labelled /\ new.side = "left" /\ new.label > 0
  IN [old EXCEPT !.newRow = (k = 1), !.newColumn = (k > 1), !.by = "ai", !.flags = {},
                 !.column = new.column, !.span = new.span,
                 !.label = IF left THEN new.label ELSE 0,
                 !.side = IF left THEN "left" ELSE IF labelled THEN "above" ELSE @]
\* A table of the controls by name has the last of those that share one.
Called(form, r, name) == r.body[Max({k \in DOMAIN r.body : ItemName(form, r.body[k].ref[2]) = name})]
PutRow(form, layout, r, row) ==
  [k \in DOMAIN row |-> Put(layout, Called(form, r, row[k].name), row[k], k)]
Replace(form, layout, r, entry) ==
  [r EXCEPT !.body = FlattenSeq(Map(LAMBDA row : PutRow(form, layout, r, row), entry.rows))]
ApplyPlan(form, layout, plan) ==
  LET entries(r) == {e \in ToSet(plan) : e.id = r.id} IN
  [layout EXCEPT !.regions =
     Map(LAMBDA r : IF entries(r) = {} THEN r
                    ELSE Replace(form, layout, r, CHOOSE e \in entries(r) : TRUE), @)]

\* A kept plan stands for the request it answered and no other.
Requests ==
  [s \in DOMAIN Revisions |-> [r \in DOMAIN Revisions[s] |->
    [p \in Pages |-> RegionsRequest(Revisions[s][r], Ruled[s][r].layout, Ruled[s][r].hard, p)]]]
Fits(page, kept) ==
  /\ kept # Absent
  /\ HardOnes # <<>>
  /\ kept.request = Requests[sample][revision][page]
  /\ ValidPlan(Form, HardOnes, kept.plan)

\* confirmed_bindings: a confirmed key binds if it is among the columns the
\* page has an item for.
Bindings(form, layout, confirmed) ==
  LET offered == BindCandidates(form, layout) IN
  {b \in DOMAIN offered : b \in DOMAIN confirmed /\ confirmed[b] \in offered[b].columns}

-----------------------------------------------------------------------------

ExportInit ==
  /\ sample \in DOMAIN Revisions
  /\ revision = 1
  /\ config = [page |-> 1, ai |-> FALSE]
  /\ plans = [p \in Pages |-> Absent]
  /\ keys = <<>>
  /\ exported = Absent
  /\ placed = [p \in Pages |-> Absent]
  /\ refused = FALSE
  /\ exports = 0

\* The module is converted from a newer source and opened again.
Revise ==
  /\ revision < Len(Revisions[sample])
  /\ revision' = revision + 1
  /\ UNCHANGED <<sample, config, plans, keys, exported, placed, refused, exports>>

\* What a provider may answer about the regions: about a single one any one
\* row of one or two of the proposed cells, or two rows alike, with names left
\* out and repeated; about all of them a row for each control.
Proposals(form, regions) ==
  LET cell(n, c) == [name |-> n, column |-> c.column, span |-> c.span, label |-> c.label, side |-> c.side]
      cells(r)   == {cell(n, c) : n \in NamesIn(form, r), c \in Cells}
      lines(r)   == {<<a>> : a \in cells(r)} \cup (cells(r) \X cells(r))
      bodies(r)  == {<<l>> : l \in lines(r)} \cup {<<<<cell(m, c)>>, <<cell(n, c)>>>> : m, n \in NamesIn(form, r), c \in Cells}
      stack(r, c) == Map(LAMBDA n : <<cell(n, c)>>, SetToSeq(NamesIn(form, r)))
      stacked(c) == Map(LAMBDA r : [id |-> r.id, rows |-> stack(r, c)], regions)
      free == IF Len(regions) = 1 THEN {<<[id |-> regions[1].id, rows |-> b]>> : b \in bodies(regions[1])}
              ELSE {}
  IN free \cup {stacked(c) : c \in Cells}
\* One plan that is not valid is like another, and like no plan.
ProviderAnswers ==
  [s \in DOMAIN Revisions |-> [r \in DOMAIN Revisions[s] |->
    LET form == Revisions[s][r]  regions == Ruled[s][r].hard IN
    {[kind |-> "plan", plan |-> p] : p \in {p \in Proposals(form, regions) : ValidPlan(form, regions, p)}}
    \cup {[kind |-> k, plan |-> <<>>] : k \in {"no plan", "refused"}}]]

\* Nothing that may be kept is Absent.
ASSUME AbsenceAssumption ==
  \A s \in DOMAIN Revisions : \A r \in DOMAIN Revisions[s] :
    \A p \in Pages, answer \in ProviderAnswers[s][r] :
      Absent # [request |-> Requests[s][r][p], plan |-> answer.plan]

\* What the rules make of a form is a list of regions, told apart by their
\* ids, and the regions asked about are lists of cells with a control in each.
IsRegion(r) == r = Region(r.id, r.kind, r.body, r.columns, r.subs) /\ IsList(r.body)
IsCell(c) ==
  c = [ref |-> c.ref, newRow |-> c.newRow, newColumn |-> c.newColumn, column |-> c.column,
       span |-> c.span, flow |-> c.flow, side |-> c.side, label |-> c.label, flags |-> c.flags, by |-> c.by]
ASSUME LayoutAssumption ==
  \A s \in DOMAIN Revisions : \A r \in DOMAIN Revisions[s] :
    LET regions == Ruled[s][r].layout.regions
    IN /\ IsList(regions) /\ \A x \in DOMAIN regions : IsRegion(regions[x])
       /\ \A x, y \in DOMAIN regions : regions[x].id = regions[y].id => x = y
       /\ \A asked \in ToSet(Ruled[s][r].hard) :
            /\ asked \in ToSet(regions) /\ asked.columns = <<>>
            /\ \A c \in ToSet(asked.body) : IsCell(c) /\ c.ref = <<"control", c.ref[2]>>

\* The keys a reviewer confirms or withdraws in the dialog of an export: a
\* block must be one of the module's, a column is any text.
Confirmations(form) ==
  {keys} \cup {Restrict(keys, DOMAIN keys \ {b}) : b \in DOMAIN keys}
  \cup {(b :> column) @@ keys : b \in DOMAIN form.blocks, column \in KeyColumns}

\* Slip: one kept plan for the session.
KeepLast(page, plan) ==
  [p \in Pages |-> IF p = page THEN [request |-> Requests[sample][revision][page], plan |-> plan] ELSE Absent]

\* assist keeps a plan it has applied, under the page it is for.
Keep(page, plan) == [plans EXCEPT ![page] = [request |-> Requests[sample][revision][page], plan |-> plan]]

\* Workbench.export and export_apexlang: the confirmed keys and the choices
\* are remembered first; a policy that forbids the provider stops the export
\* there, any other failure leaves the rules' page.
Export(page, ai, confirmed, answer) ==
  LET regions == HardOnes
      cached  == ai /\ Fits(page, plans[page])
      asked   == ai /\ regions # <<>> /\ ~cached
      applied == asked /\ answer.kind = "plan" /\ ValidPlan(Form, regions, answer.plan)
      final   == CASE cached  -> ApplyPlan(Form, Rules, plans[page].plan)
                   [] applied -> ApplyPlan(Form, Rules, answer.plan)
                   [] OTHER   -> Rules
  IN /\ exports < MaxExports
     /\ exports' = exports + 1
     /\ keys' = confirmed
     /\ config' = [page |-> page, ai |-> ai]
     /\ plans' = IF applied THEN Keep(page, answer.plan) ELSE plans
     /\ refused' = (asked /\ answer.kind = "refused")
     /\ IF refused' THEN UNCHANGED <<exported, placed>>
        ELSE /\ exported' = [revision |-> revision, page |-> page, asked |-> asked,
                             assisted |-> cached \/ applied,
                             regions |-> final.regions, hidden |-> final.hidden,
                             bound |-> Restrict(confirmed, Bindings(Form, final, confirmed))]
             /\ placed' = IF cached \/ applied
                          THEN [placed EXCEPT ![page] = [form |-> revision, regions |-> final.regions]]
                          ELSE placed
     /\ UNCHANGED <<sample, revision>>

NoAnswer == [kind |-> "no plan", plan |-> <<>>]
ExportSome ==
  \E page \in Pages, ai \in BOOLEAN, confirmed \in Confirmations(Form) :
    \E answer \in IF ai /\ HardOnes # <<>> /\ ~Fits(page, plans[page])
                   THEN ProviderAnswers[sample][revision] ELSE {NoAnswer} :
      Export(page, ai, confirmed, answer)

ExportNext == Revise \/ ExportSome

ExportSpec == ExportInit /\ [][ExportNext]_exportVars

\* Slip: a kept plan is shown although the last export did not use it.
PreviewKept ==
  IF Fits(1, plans[1]) THEN ApplyPlan(Form, Rules, plans[1].plan).regions ELSE Rules.regions

\* Workbench.preview_html: the page an export gets is numbered by its
\* choices, the one the preview draws is always the first.
Preview ==
  LET kept == IF config.ai THEN plans[config.page] ELSE Absent
  IN IF Fits(1, kept) THEN ApplyPlan(Form, Rules, kept.plan).regions ELSE Rules.regions

-----------------------------------------------------------------------------
(* Properties *)

InRows(body) ==
  /\ body # <<>> => body[1].newRow
  /\ \A k \in DOMAIN body :
       /\ body[k].column >= 1 /\ body[k].span >= 1
       /\ body[k].column + body[k].span <= GridColumns + 1
       /\ body[k].label \in 0..(body[k].span - 1)
       /\ ~body[k].newRow => body[k - 1].column + body[k - 1].span <= body[k].column

\* Where a region shows control i: in a cell, or as a column of its grid.
InCell(r, i, k) == k \in DOMAIN r.body /\ r.body[k].ref = <<"control", i>>
Spots(r, i) ==
  {<<"cell", k>> : k \in {k \in DOMAIN r.body : InCell(r, i, k)}}
  \cup {<<"column", k>> : k \in {k \in DOMAIN r.columns : r.columns[k] = i}}

\* The visible controls the rules put nowhere: on a tab page that their canvas
\* does not declare, or on a canvas that is hung as a toolbar above a canvas
\* which is itself hung above another one.
Undrawn(form) ==
  {i \in DOMAIN form.controls :
     LET c == form.controls[i].canvas  canvas == form.canvases[c] IN
     /\ c \in DOMAIN form.canvases
     /\ \/ Host(form, c) # 0 /\ Host(form, Host(form, c)) # 0
        \/ canvas.kind = "tab" /\ canvas.tabs > 0 /\ form.controls[i].tab \notin 0..canvas.tabs}

\* The controls of a region that a plan cannot name, as a later one gets the
\* same item name.
Eclipsed(form, r) ==
  {i \in DOMAIN form.controls : \E k \in DOMAIN r.body :
     /\ ItemName(form, r.body[k].ref[2]) = ItemName(form, i)
     /\ \E j \in DOMAIN r.body : InCell(r, i, j)
     /\ \A j \in DOMAIN r.body : InCell(r, i, j) => j < k}
LostToPlan(form, asked) == UNION {Eclipsed(form, r) : r \in ToSet(asked)}

EveryControlOnce(form, regions, hidden, lost) ==
  \A i \in DOMAIN form.controls :
    LET at == {x \in DOMAIN regions : Spots(regions[x], i) # {}} IN
    IF i \in DOMAIN hidden \cup lost THEN at = {}
    ELSE Cardinality(at) = 1 /\ \A x \in at : Cardinality(Spots(regions[x], i)) = 1

RowsFollow(regions) ==
  \A x \in DOMAIN regions :
    regions[x].kind = "static" => InRows(regions[x].body) /\ InRows(regions[x].subs)

DatabaseItems(form, b) == {i \in DOMAIN form.controls : form.controls[i].block = b /\ form.controls[i].column}
Homes(regions, hidden, items) ==
  {x \in DOMAIN regions : \E i \in items :
     \/ \E k \in DOMAIN regions[x].body : InCell(regions[x], i, k)
     \/ i \in DOMAIN hidden /\ hidden[i] = regions[x].id}
BoundTogether(form, regions, hidden, bound) ==
  \A b \in DOMAIN bound :
    /\ Cardinality(Homes(regions, hidden, DatabaseItems(form, b))) = 1
    /\ \E i \in DatabaseItems(form, b) :
         form.controls[i].name = bound[b] /\ Homes(regions, hidden, {i}) # {}

Whole(form, regions, hidden, bound, lost) ==
  /\ EveryControlOnce(form, regions, hidden, lost)
  /\ RowsFollow(regions)
  /\ BoundTogether(form, regions, hidden, bound)

\* Whatever the rules or a provider decided, and for whatever geometry: the
\* cells of a row follow each other inside the twelve columns, and no label
\* takes all of its cell, which APEX finds out only when it renders the page;
\* what a bound block has on the page is in one region, its key included; and
\* every hidden control is accounted for and every other one is on the page
\* once, in one cell or as one column of a grid - but for two kinds, which are
\* on no page at all: those that are Undrawn, and, once a plan was accepted,
\* those that it could not name.  ("A visible control lands exactly once" of
\* docs/layout-mapping-matrix.md:147 leaves these out.)
PageIsWhole ==
  exported # Absent =>
    LET form == Revisions[sample][exported.revision]
        asked == Ruled[sample][exported.revision].hard
        lost == Undrawn(form) \cup (IF exported.assisted THEN LostToPlan(form, asked) ELSE {})
    IN Whole(form, exported.regions, exported.hidden, exported.bound, lost)

\* A page that a provider has placed is the same page, without a question to
\* anybody, whenever the same source is exported again under the same number
\* with the assistant on - whatever was exported, refused, withdrawn or
\* converted in between - until a plan for it is kept that answers another
\* request.
PlansAreReplayed ==
  [][(exports' > exports /\ config'.ai /\ placed[config'.page] # Absent
      /\ Revisions[sample][placed[config'.page].form] = Form)
       => /\ ~exported'.asked /\ exported'.revision = revision
          /\ exported'.regions = placed[config'.page].regions]_exportVars

\* The preview shows the page the last export wrote, whoever placed it, as
\* long as that was the first page and no export has been refused since.
PreviewIsTheExport ==
  exported # Absent /\ exported.revision = revision /\ exported.page = 1 /\ ~refused
    => Preview = exported.regions
=============================================================================
