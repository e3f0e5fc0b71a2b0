----------------------------- MODULE PageLayout -----------------------------
(***************************************************************************)
(* How the screen of a form becomes an APEX page of twelve columns         *)
(* (apexlayout.py): which region holds a control, in which row, at which   *)
(* columns, and with how much room for its label.                          *)
(*                                                                         *)
(* A form is the record                                                    *)
(*   [controls : Seq([block, name, x, y, w, h, side, room, button, choice, *)
(*                    visible, shown, canvas, tab, column]),               *)
(*    blocks   : Seq([name, records, table]),                              *)
(*    canvases : Seq([kind, w, h, window, tabs, graphics]),                *)
(*    windows  : Seq([toolbar])]                                           *)
(* without WebUtil's own blocks and canvases.  Lengths are in the form's   *)
(* units, a name is a sequence of words, `room' is what a prompt takes     *)
(* beside its field, `shown' is ItemsDisplay, `column' a database column,  *)
(* and 0 is a number the source leaves out.                                *)
(***************************************************************************)
EXTENDS Integers, Sequences, FiniteSets, SequencesExt

GridColumns   == 12
DefaultWidth  == 60
DefaultHeight == 14
CharWidth     == 5    \* a module without a character cell, in points
PromptReach   == 4

Map(Op(_), s) == <<>> \o [i \in DOMAIN s |-> Op(s[i])]      \* <<>> \o: a tuple, made once
Indices(s, Test(_)) == SelectSeq([i \in DOMAIN s |-> i], LAMBDA i : Test(s[i]))
Sorted(s, Key(_)) ==       \* sorted() with a key, which keeps the order of equals
  LET before(i, j) == \/ Key(s[i])[1] < Key(s[j])[1]
                      \/ Key(s[i])[1] = Key(s[j])[1] /\ Key(s[i])[2] < Key(s[j])[2]
                      \/ Key(s[i]) = Key(s[j]) /\ i < j
      order == SortSeq([i \in DOMAIN s |-> i], before)
  IN Map(LAMBDA i : s[i], order)

\* round() of n / d: to the nearest, and to the even one from the middle.
Round(n, d) ==
  LET q == n \div d  r == n % d IN
  IF 2 * r > d \/ (2 * r = d /\ q % 2 = 1) THEN q + 1 ELSE q
Columns(length, width) == Round(GridColumns * length, Max({width, 1}))
Or(n, default) == IF n = 0 THEN default ELSE n

-----------------------------------------------------------------------------
(* Boxes *)

\* A box claims a place on the page: that of a control with the room of its
\* prompt, <<"control", i>>, or that of a region, <<kind, canvas, i, row>>.
Box(x, y, w, h, ref) == [x |-> x, y |-> y, w |-> w, h |-> h, ref |-> ref, side |-> "none", room |-> 0]
ItemBox(c) == Box(c.x, c.y, Or(c.w, DefaultWidth), Or(c.h, DefaultHeight), <<>>)
Fit(c, i) ==
  LET b == ItemBox(c)
      beside == c.side \in {"left", "right"} /\ c.room > 0
  IN [b EXCEPT !.ref = <<"control", i>>, !.side = c.side,
               !.room = IF c.side = "left" THEN c.room ELSE 0,
               !.x = IF beside /\ c.side = "left" THEN @ - c.room ELSE @,
               !.w = IF beside THEN @ + c.room ELSE @]
IsControl(b) == b.ref[1] = "control"

\* The anchor of a row is its topmost box.
SharesRow(anchor, b) ==
  10 * (Min({anchor.y + anchor.h, b.y + b.h}) - Max({anchor.y, b.y})) >= 7 * Min({anchor.h, b.h})
Rows(boxes) ==
  LET Join(rows, b) ==
        LET open == {k \in DOMAIN rows : SharesRow(rows[k][1], b)} IN
        IF open = {} THEN Append(rows, <<b>>) ELSE [rows EXCEPT ![Min(open)] = Append(@, b)]
  IN Map(LAMBDA row : Sorted(row, LAMBDA b : <<b.x, b.y>>),
         FoldLeft(Join, <<>>, Sorted(boxes, LAMBDA b : <<b.y, b.x>>)))

-----------------------------------------------------------------------------
(* Cells *)

Cell(b, newRow, column, span) ==
  [ref |-> b.ref, newRow |-> newRow, newColumn |-> ~newRow, column |-> column, span |-> span,
   flow |-> FALSE, side |-> b.side, label |-> 0, flags |-> {}, by |-> "rules"]
Flag(name, raised) == IF raised THEN {name} ELSE {}

\* A box keeps its column unless the one before it is in the way; it goes on
\* in another row of the grid when less than half of it would fit.
PlaceRow(row, left, width) ==
  LET Place(done, b) ==
        LET raw     == Columns(b.x - left, width) + 1
            natural == Min({GridColumns, Max({1, raw - done.shift})})
            wanted  == Max({1, Columns(b.w, width), IF b.side = "left" /\ b.room > 0 THEN 2 ELSE 1})
            next    == Max({natural, done.free})
            first   == done.cells = <<>>
            wrapped == ~first /\ (GridColumns + 1 - next < Max({1, wanted \div 2}))
            column  == IF wrapped THEN 1 ELSE next
            span    == Min({wanted, GridColumns + 1 - column})
            flags   == Flag("wrapped", wrapped) \cup Flag("shrunk", span < wanted)
                       \cup Flag("pushed", ~wrapped /\ natural < done.free)
        IN [cells |-> Append(done.cells, [Cell(b, first \/ wrapped, column, span)
                                            EXCEPT !.flags = IF IsControl(b) THEN flags ELSE {}]),
            free  |-> column + span,
            shift |-> IF wrapped THEN Max({0, raw - 1}) ELSE done.shift]
  IN FoldLeft(Place, [cells |-> <<>>, free |-> 1, shift |-> 0], row).cells

\* Slip: a label may take all of its cell.
SettleUncapped(cells, row, width) ==
  [i \in DOMAIN cells |->
     IF row[i].side = "left" /\ row[i].room > 0
     THEN [cells[i] EXCEPT !.label = Min({Max({1, Columns(row[i].room, width)}), cells[i].span})]
     ELSE cells[i]]

\* Labels left of their fields: all of a row have a column of their own, or
\* all go above.
SettleLabels(cells, row, width) ==
  LET lefts   == {i \in DOMAIN row : row[i].side = "left" /\ row[i].room > 0}
      want(i) == Max({1, Columns(row[i].room, width)})
      give(i) == Min({want(i), cells[i].span - 1})
      beside  == \A i \in lefts : give(i) >= 1
  IN [i \in DOMAIN cells |->
        IF i \notin lefts THEN cells[i]
        ELSE IF beside
        THEN [cells[i] EXCEPT !.label = give(i),
                              !.flags = IF give(i) < want(i) THEN @ \cup {"label-narrow"} ELSE @]
        ELSE [cells[i] EXCEPT !.side = "above", !.flags = @ \cup {"label-above"}]]

\* A toolbar has rows and no columns; buttons side by side share a cell.
FlowCells(form, boxes) ==
  LET button(b) == form.controls[b.ref[2]].button
      InRow(row) == [i \in DOMAIN row |->
        [Cell(row[i], i = 1, 1, GridColumns) EXCEPT !.flow = TRUE,
           !.newColumn = i > 1 /\ ~(button(row[i]) /\ button(row[i - 1]))]]
  IN FlattenSeq(Map(InRow, Rows(boxes)))

-----------------------------------------------------------------------------
(* Regions *)

Region(id, kind, body, columns, subs) ==
  [id |-> id, kind |-> kind, body |-> body, columns |-> columns, subs |-> subs]
Beside(row, left, width) == SettleLabels(PlaceRow(row, left, width), row, width)
Union(run, ref) ==
  LET x0 == Min({run[i].x : i \in DOMAIN run})
      y0 == Min({run[i].y : i \in DOMAIN run})
  IN Box(x0, y0, Max({run[i].x + run[i].w - x0 : i \in DOMAIN run} \cup {1}),
         Max({run[i].y + run[i].h - y0 : i \in DOMAIN run} \cup {1}), ref)

\* A row with sub-regions in it falls into those and the runs between them.
Pieces(row) ==
  LET Next(pieces, b) ==
        IF IsControl(b) /\ pieces # <<>> /\ IsControl(Last(pieces)[1])
        THEN [pieces EXCEPT ![Len(pieces)] = Append(@, b)] ELSE Append(pieces, <<b>>)
  IN FoldLeft(Next, <<>>, row)

\* A region's own controls end where its first sub-region begins: what is
\* drawn beside or below goes into rows of its own, so that it keeps its place.
Arrange(id, boxes, left, width) ==
  LET rows   == Rows(boxes)
      first  == Min({k \in DOMAIN rows : \E i \in DOMAIN rows[k] : ~IsControl(rows[k][i])}
                    \cup {Len(rows) + 1})
      laid(rs, x, w) == FlattenSeq(Map(LAMBDA row : Beside(row, x, w), rs))
      pieces == FlattenSeq(Map(Pieces, SubSeq(rows, first, Len(rows))))
      group(k) == <<id[1], id[2], id[3], k>>
      subs   == [k \in DOMAIN pieces |->
                   IF IsControl(pieces[k][1]) THEN Union(pieces[k], group(k)) ELSE pieces[k][1]]
      InRow(row) ==
        LET cells == PlaceRow(row, left, width)
            alone == Len(row) = 1
            wrap(i)  == \E k \in DOMAIN pieces : row[i].ref = group(k) /\ IsControl(pieces[k][1])
            inner(i) == pieces[row[i].ref[4]]
        IN [i \in DOMAIN row |->
              IF ~wrap(i) THEN [cell |-> cells[i], group |-> <<>>]
              ELSE IF alone
              THEN [cell  |-> [cells[i] EXCEPT !.newColumn = TRUE, !.column = 1, !.span = GridColumns],
                    group |-> laid(Rows(inner(i)), left, width)]
              ELSE [cell  |-> cells[i], group |-> laid(Rows(inner(i)), row[i].x, row[i].w)]]
      placed == FlattenSeq(Map(InRow, Rows(subs)))
      groups == SelectSeq(placed, LAMBDA p : p.group # <<>>)
  IN [own    |-> Region(id, "static", laid(SubSeq(rows, 1, first - 1), left, width), <<>>,
                        Map(LAMBDA p : p.cell, placed)),
      groups |-> Map(LAMBDA p : Region(p.cell.ref, "static", p.group, <<>>, <<>>), groups)]

-----------------------------------------------------------------------------
(* What belongs where *)

\* A frame, or a rectangle with a text on its top edge, groups what is in it.
Captions(graphics) ==
  LET texts == Indices(graphics, LAMBDA g : g.kind = "text")
      Titles(g, t) == LET middle == 2 * t.y + t.h  across == 2 * t.x + t.w IN
        /\ middle - 2 * g.y \in -2 * Max({t.h, 12}) .. 2 * Max({t.h, 12})
        /\ across \in 2 * (g.x - 2) .. 2 * (g.x + g.w + 2)
      Look(seen, k) ==
        LET g    == graphics[k]
            mine == SelectSeq(texts, LAMBDA t : t \notin seen.used /\ Titles(g, graphics[t]))
        IN CASE g.kind = "frame" -> [seen EXCEPT !.boxes = Append(@, k)]
             [] g.kind = "rectangle" /\ g.w > 0 /\ g.h > 0 /\ mine # <<>> ->
                  [boxes |-> Append(seen.boxes, k), used |-> seen.used \cup {mine[1]}]
             [] OTHER -> seen
  IN FoldLeft(Look, [boxes |-> <<>>, used |-> {}], [k \in DOMAIN graphics |-> k])

Area(b) == b.w * b.h
Around(b, of) ==      \* b contains the middle of `of'
  /\ 2 * of.x + of.w \in 2 * b.x .. 2 * (b.x + b.w)
  /\ 2 * of.y + of.h \in 2 * b.y .. 2 * (b.y + b.h)
Smallest(frames, b, exclude) ==
  LET around == SelectSeq(frames, LAMBDA f :
                  Around(f, b) /\ (exclude # <<>> => f.ref # exclude /\ Area(f) > Area(b)))
      least  == {i \in DOMAIN around : \A j \in DOMAIN around : Area(around[i]) <= Area(around[j])}
  IN IF around = <<>> THEN <<>> ELSE around[Min(least)].ref

\* Text right before a field without a caption, or right above it, is its
\* prompt; the rightmost text chooses first.
Adopt(controls, pairs, graphics, texts) ==
  LET Rank(t, c) ==
        LET b      == ItemBox(c)
            gap    == b.x - (t.x + t.w)
            drop   == b.y - (t.y + t.h)
            beside == 2 * (Min({t.y + t.h, b.y + b.h}) - Max({t.y, b.y})) >= Min({t.h, b.h})
            over   == /\ Min({t.x + t.w, b.x + b.w}) - Max({t.x, b.x}) > 0
                      /\ t.w <= b.w + PromptReach * CharWidth
        IN IF beside /\ gap \in -CharWidth .. PromptReach * CharWidth THEN <<0, gap>>
           ELSE IF ~t.bold /\ over /\ 2 * drop >= -t.h /\ drop <= t.h THEN <<1, drop>>
           ELSE <<2, 0>>
      Claim(seen, k) ==
        LET t    == graphics[k]
            rank(i) == Rank(t, seen.controls[i])
            free == SelectSeq(pairs, LAMBDA i : ~seen.controls[i].caption /\ rank(i)[1] < 2)
            best == Sorted(free, rank)[1]
            c    == seen.controls[best]
        IN IF t.long \/ free = <<>> THEN seen
           ELSE [adopted  |-> seen.adopted \cup {k},
                 controls |-> [seen.controls EXCEPT ![best] =
                    IF rank(best)[1] = 0
                    THEN [c EXCEPT !.caption = TRUE, !.side = "left", !.room = Max({c.x - t.x, CharWidth})]
                    ELSE [c EXCEPT !.caption = TRUE, !.side = "above", !.room = 0]]]
      done == FoldLeft(Claim, [controls |-> controls, adopted |-> {}],
                       Sorted(texts, LAMBDA k : <<-graphics[k].x, 0>>))
  IN [controls |-> done.controls, left |-> SelectSeq(texts, LAMBDA k : k \notin done.adopted)]

Shown(form, c) == Or(c.shown, Or(form.blocks[c.block].records, 1))
InGrid(form, c) == Shown(form, c) > 1 /\ form.blocks[c.block].table /\ ~c.button

\* Records of a block on a table become one grid, its columns as they are drawn.
Grids(form, id, items) ==
  LET many == SelectSeq(items, LAMBDA i : InGrid(form, form.controls[i]))
      blocks == FoldLeft(LAMBDA bs, i : LET b == form.controls[i].block IN
                                        IF Contains(bs, b) THEN bs ELSE Append(bs, b), <<>>, many)
      Grid(b) ==
        LET columns == Sorted(SelectSeq(many, LAMBDA i : form.controls[i].block = b),
                              LAMBDA i : <<form.controls[i].x, form.controls[i].y>>)
            tall(i) == LET f == Fit(form.controls[i], i) IN [f EXCEPT !.h = @ * Shown(form, form.controls[i])]
        IN [box |-> Union(Map(tall, columns), <<"grid", id[2], b, id[3]>>), columns |-> columns]
  IN Map(Grid, blocks)

\* A frame or a tab with nothing in it but one block's records is their grid.
Container(form, id, items, kids, left, width, root) ==
  LET grids == Grids(form, id, items)
      own   == SelectSeq(items, LAMBDA i : ~InGrid(form, form.controls[i]))
      boxes == Map(LAMBDA i : Fit(form.controls[i], i), own) \o kids \o Map(LAMBDA g : g.box, grids)
      laid  == Arrange(id, boxes, left, width)
  IN IF ~root /\ own = <<>> /\ kids = <<>> /\ Len(grids) = 1
     THEN [own |-> Region(id, "grid", <<>>, grids[1].columns, <<>>), groups |-> <<>>]
     ELSE [own |-> laid.own,
           groups |-> laid.groups \o Map(LAMBDA g : Region(g.box.ref, "grid", <<>>, g.columns, <<>>), grids)]

-----------------------------------------------------------------------------
(* The page *)

\* RegionNode.walk: a region, then its sub-regions in their order.
Walk(node) ==
  LET walk[id \in DOMAIN node] ==
        LET here == node[id]
            Below(cell) ==
              LET made == SelectSeq(here.groups, LAMBDA g : g.id = cell.ref) IN
              IF cell.ref \in DOMAIN node THEN walk[cell.ref]
              ELSE IF made = <<>> THEN <<Region(cell.ref, "text", <<>>, <<>>, <<>>)>> ELSE made
        IN <<here.own>> \o FlattenSeq(Map(Below, here.own.subs))
  IN walk

\* The controls of a canvas, and their captions once its loose text is read.
OnCanvas(form, c) == Indices(form.controls, LAMBDA k : k.visible /\ k.canvas = c)
Framed(form, c) ==
  LET canvas == form.canvases[c]
      graphics == canvas.graphics
      root == <<"canvas", c, 0, 0>>
      seen == Captions(graphics)
      box(kind, k) == Box(graphics[k].x, graphics[k].y, graphics[k].w, graphics[k].h, <<kind, c, k, 0>>)
      frames == Map(LAMBDA k : box("frame", k), seen.boxes)
      home(b, exclude) == LET s == Smallest(frames, b, exclude) IN IF s = <<>> THEN root ELSE s
      pairs == OnCanvas(form, c)
      loose == SelectSeq(Indices(graphics, LAMBDA g : g.kind = "text"), LAMBDA k : k \notin seen.used)
      read  == Adopt(form.controls, pairs, graphics, loose)
      texts == Map(LAMBDA k : box("text", k), read.left)
      after == [form EXCEPT !.controls = read.controls]
      kids(id)  == SelectSeq(frames, LAMBDA f : home(f, f.ref) = id)
                   \o SelectSeq(texts, LAMBDA t : home(t, <<>>) = id)
      items(id) == SelectSeq(pairs, LAMBDA i : home(ItemBox(form.controls[i]), <<>>) = id)
      right == {Fit(form.controls[i], i).x + Fit(form.controls[i], i).w : i \in ToSet(pairs)}
      frame(id) == CHOOSE f \in ToSet(frames) : f.ref = id
      node == [id \in {root} \cup {f.ref : f \in ToSet(frames)} |->
                 IF id = root
                 THEN Container(after, id, items(id), kids(id), 0,
                                Or(canvas.w, Max(right \cup {IF right = {} THEN 400 ELSE 0})), TRUE)
                 ELSE Container(after, id, items(id), kids(id), frame(id).x, frame(id).w, FALSE)]
  IN [regions |-> Walk(node)[root], controls |-> read.controls]

\* One region per tab page the canvas declares, or else per page its controls
\* name; a control that names none is on the first.
Tabbed(form, c) ==
  LET canvas == form.canvases[c]
      named  == {form.controls[i].tab : i \in ToSet(OnCanvas(form, c))} \ {0}
      pages  == IF canvas.tabs > 0 THEN 1..canvas.tabs ELSE IF named # {} THEN named ELSE {1}
      right  == {Fit(form.controls[i], i).x + Fit(form.controls[i], i).w : i \in ToSet(OnCanvas(form, c))}
      width  == Or(canvas.w, Max(right \cup {IF right = {} THEN 400 ELSE 0}))
      on(t)  == SelectSeq(OnCanvas(form, c), LAMBDA i :
                            form.controls[i].tab \in {t} \cup (IF t = Min(pages) THEN {0} ELSE {}))
      id(t)  == <<"tab", c, t, 0>>
      node   == [x \in {id(t) : t \in pages} |-> Container(form, x, on(x[3]), <<>>, 0, width, FALSE)]
  IN <<Region(<<"canvas", c, 0, 0>>, "static", <<>>, <<>>, <<>>)>>
     \o FlattenSeq(Map(LAMBDA t : Walk(node)[id(t)], SetToSortSeq(pages, <)))

OnToolbar(form, c) ==
  <<Region(<<"canvas", c, 0, 0>>, "flow",
           FlowCells(form, Map(LAMBDA i : Fit(form.controls[i], i), OnCanvas(form, c))), <<>>, <<>>)>>

\* Without a canvas there is a region per block, a control per row.
Unplaced(form) ==
  LET Block(b) ==
        LET seen == Indices(form.controls, LAMBDA k : k.block = b /\ k.visible)
            grid == form.blocks[b].records > 1 /\ form.blocks[b].table
            columns == IF grid THEN SelectSeq(seen, LAMBDA i : ~form.controls[i].button) ELSE <<>>
            body == SelectSeq(seen, LAMBDA i : ~Contains(columns, i))
            alone(box) == [Cell(box, TRUE, 1, GridColumns) EXCEPT !.newColumn = TRUE, !.flow = TRUE]
            cell(i) == alone(Fit(form.controls[i], i))
            sub  == Box(0, 0, 0, 0, <<"grid", 0, b, 0>>)
        IN IF grid /\ body = <<>> THEN <<Region(<<"block", 0, b, 0>>, "grid", <<>>, columns, <<>>)>>
           ELSE IF grid
           THEN <<Region(<<"block", 0, b, 0>>, "flow", Map(cell, body), <<>>,
                         <<alone(sub)>>),
                  Region(sub.ref, "grid", <<>>, columns, <<>>)>>
           ELSE <<Region(<<"block", 0, b, 0>>, "flow", Map(cell, body), <<>>, <<>>)>>
  IN FlattenSeq([b \in DOMAIN form.blocks |-> Block(b)])

\* A window's toolbar stands right above the window's first other canvas, or
\* nowhere (0); of two windows that name it, above the first that has one.
Host(form, t) ==
  LET hosts(w) == {c \in DOMAIN form.canvases \ {t} :
                     form.canvases[c].kind # "toolbar" /\ form.canvases[c].window = w}
      docked == {w \in DOMAIN form.windows : form.windows[w].toolbar = t /\ hosts(w) # {}}
  IN IF docked = {} THEN 0 ELSE Min(hosts(Min(docked)))
RootOrder(form) ==
  LET above(c) == {t \in DOMAIN form.canvases : Host(form, t) = c}
      order(c) == IF Host(form, c) # 0 THEN <<>> ELSE SetToSeq(above(c)) \o <<c>>
  IN FlattenSeq([c \in DOMAIN form.canvases |-> order(c)])

\* build_layout: the regions in their order, where hidden controls go, and
\* the controls with the captions they have by then.
Layout(form) ==
  LET made(c) == CASE form.canvases[c].kind = "toolbar" ->
                        [regions |-> OnToolbar(form, c), controls |-> form.controls]
                   [] form.canvases[c].kind = "tab" ->
                        [regions |-> Tabbed(form, c), controls |-> form.controls]
                   [] OTHER -> Framed(form, c)
      built == [c \in DOMAIN form.canvases |-> made(c)]
      regions == IF form.canvases = <<>> THEN Unplaced(form)
                 ELSE FlattenSeq(Map(LAMBDA c : built[c].regions, RootOrder(form)))
      shows(r, b) == \E i \in DOMAIN form.controls : form.controls[i].block = b /\
                       (\/ Contains(r.columns, i)
                        \/ \E k \in DOMAIN r.body : r.body[k].ref = <<"control", i>>)
      home(b) == IF form.canvases = <<>> THEN <<"block", 0, b, 0>>
                 ELSE LET at == {k \in DOMAIN regions : shows(regions[k], b)}
                      IN IF at = {} THEN <<>> ELSE regions[Min(at)].id
      hidden == {i \in DOMAIN form.controls :
                   ~form.controls[i].visible \/ (form.canvases # <<>> /\ form.controls[i].canvas = 0)}
  IN [regions  |-> regions,
      hidden   |-> [i \in hidden |-> home(form.controls[i].block)],
      controls |-> [i \in DOMAIN form.controls |->
                      IF form.controls[i].canvas = 0 \/ form.canvases = <<>> THEN form.controls[i]
                      ELSE built[form.controls[i].canvas].controls[i]]]

\* apex_item_names: a name two blocks share gets its block's before it.
ItemName(form, i) ==
  LET name == form.controls[i].name
      same == {j \in DOMAIN form.controls : form.controls[j].name = name}
  IN IF same = {i} THEN name ELSE form.blocks[form.controls[i].block].name \o name

-----------------------------------------------------------------------------
(* Blocks a confirmed key could bind *)

Bodies(layout, r) ==
  {i \in DOMAIN layout.controls : \E k \in DOMAIN r.body : r.body[k].ref = <<"control", i>>}
  \cup {i \in DOMAIN layout.hidden : layout.hidden[i] = r.id}

\* bind_candidates: one record, one table, and one region with all of the
\* block's database items in it and no other block's.
BindCandidates(form, layout) ==
  LET columns(r) == {i \in Bodies(layout, r) : form.controls[i].column}
      of(b) == {i \in DOMAIN form.controls : form.controls[i].block = b /\ form.controls[i].column}
      homes(b) == {r \in ToSet(layout.regions) : columns(r) \cap of(b) # {}}
      astray(b) == \E i \in of(b) \cap DOMAIN layout.hidden : layout.hidden[i] = <<>>
      fits(b, r) == r.kind \in {"static", "flow"} /\ columns(r) \subseteq of(b)
  IN [b \in {b \in DOMAIN form.blocks :
                /\ form.blocks[b].table /\ form.blocks[b].records <= 1
                /\ Cardinality(homes(b)) = 1 /\ ~astray(b)
                /\ \A r \in homes(b) : fits(b, r)} |->
        LET r == CHOOSE r \in homes(b) : TRUE
        IN [region |-> r.id, columns |-> {form.controls[i].name : i \in columns(r)}]]
=============================================================================
