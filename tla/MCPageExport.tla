---------------------------- MODULE MCPageExport ----------------------------
EXTENDS PageExport

Item(block, name, x, y, w, h, side, room) ==
  [block |-> block, name |-> name, x |-> x, y |-> y, w |-> w, h |-> h, side |-> side, room |-> room,
   caption |-> side # "none", button |-> FALSE, choice |-> FALSE, visible |-> TRUE, shown |-> 0,
   canvas |-> 1, tab |-> 0, column |-> TRUE]
Block(name, records) == [name |-> name, records |-> records, table |-> TRUE]
Canvas(kind, tabs, graphics) ==
  [kind |-> kind, w |-> 240, h |-> 100, window |-> 1, tabs |-> tabs, graphics |-> graphics]
Graphic(kind, x, y, w, h) == [kind |-> kind, x |-> x, y |-> y, w |-> w, h |-> h, bold |-> FALSE, long |-> FALSE]

Emp == Block(<<"EMP">>, 1)
Id   == Item(1, <<"ID">>, 40, 10, 30, 14, "left", 40)
Name == Item(1, <<"NAME">>, 60, 10, 40, 14, "left", 110)
Sal  == Item(1, <<"SAL">>, 130, 12, 60, 14, "above", 0)
Note == Item(1, <<"NOTE">>, 60, 40, 150, 60, "none", 0)

Screen(controls, blocks, canvases) ==
  [controls |-> controls, blocks |-> blocks, canvases |-> canvases, windows |-> <<[toolbar |-> 0]>>]
One(controls, graphics) == Screen(controls, <<Emp>>, <<Canvas("content", 0, graphics)>>)

\* Two fields whose prompts do not fit beside each other; then one of them
\* moves, and comes back.
Crowded == <<One(<<Id, Name>>, <<>>), One(<<Id, [Name EXCEPT !.x = 90]>>, <<>>), One(<<Id, Name>>, <<>>)>>
\* A row of five, with more than the row can take.
Dense == <<One([i \in 1..5 |-> Item(1, <<"F", ToString(i)>>, 45 * i, 10, 60, 14, "left", 35)], <<>>)>>
\* A frame in the row of two fields, a field in the frame, and a text above
\* one that has no prompt.
Frames == <<One(<<Id, [Sal EXCEPT !.x = 150, !.y = 14], [Name EXCEPT !.x = 90, !.room = 30], Note>>,
                <<Graphic("frame", 120, 4, 110, 30), Graphic("text", 62, 30, 30, 10)>>)>>
\* A rectangle with a title, and a hidden item.
Titled == <<One(<<Id, Sal, [Note EXCEPT !.visible = FALSE]>>,
                <<Graphic("rectangle", 0, 5, 200, 40), Graphic("text", 10, 0, 30, 10)>>)>>
\* Tab pages: one field on each and one on neither, over a second canvas; then
\* the canvas declares none.
OnTabs(tabs) == Screen(<<Id, [Sal EXCEPT !.tab = 1], [Name EXCEPT !.tab = 2], [Note EXCEPT !.canvas = 2]>>, <<Emp>>,
               <<Canvas("tab", tabs, <<>>), Canvas("content", 0, <<>>)>>)
Tabs == <<OnTabs(2), OnTabs(0)>>
\* A field on a tab page that is not declared, two windows with each other's
\* canvas for a toolbar, and a third with one of them.
Astray == <<[Screen(<<Id, [Sal EXCEPT !.tab = 3], [Name EXCEPT !.canvas = 2], [Note EXCEPT !.canvas = 4]>>, <<Emp>>,
                  <<Canvas("tab", 2, <<>>), [Canvas("content", 0, <<>>) EXCEPT !.window = 2],
                    [Canvas("content", 0, <<>>) EXCEPT !.window = 3], [Canvas("content", 0, <<>>) EXCEPT !.window = 4]>>)
             EXCEPT !.windows = [w \in 1..4 |-> [toolbar |-> IF w = 1 THEN 0 ELSE IF w = 2 THEN 3 ELSE 2]]]>>
\* Two items that get one name: ID of DEPT, as EMP has an ID too, and DEPT_ID.
Namesakes == <<Screen(<<[Id EXCEPT !.column = FALSE], Item(2, <<"ID">>, 60, 10, 40, 14, "left", 110),
                     [Item(1, <<"DEPT", "ID">>, 130, 12, 60, 14, "above", 0) EXCEPT !.column = FALSE]>>,
                    <<Emp, Block(<<"DEPT">>, 1)>>, <<Canvas("content", 0, <<>>)>>)>>
\* The records of one block as a grid among the fields of another, which
\* has a name of its own and shares another.
Records == <<Screen(<<Id, Name, [Item(2, <<"ID">>, 10, 50, 40, 14, "above", 0) EXCEPT !.shown = 3],
                    [Item(2, <<"LOC">>, 60, 50, 40, 14, "above", 0) EXCEPT !.shown = 3]>>,
                  <<Emp, Block(<<"DEPT">>, 3)>>, <<Canvas("content", 0, <<>>)>>)>>
\* A toolbar with two buttons over the window's canvas.
Tools == <<[Screen(<<Id, [Sal EXCEPT !.canvas = 2, !.button = TRUE, !.column = FALSE],
                   [Note EXCEPT !.canvas = 2, !.button = TRUE, !.column = FALSE]>>, <<Emp>>,
                 <<Canvas("content", 0, <<>>), Canvas("toolbar", 0, <<>>)>>)
            EXCEPT !.windows = <<[toolbar |-> 2]>>]>>
\* No canvas at all: fields, a hidden one, and records.
NoCanvas == <<Screen(<<[Id EXCEPT !.canvas = 0], [Sal EXCEPT !.canvas = 0, !.visible = FALSE],
                     [Item(2, <<"LOC">>, 10, 50, 40, 14, "above", 0) EXCEPT !.canvas = 0]>>,
                   <<Emp, Block(<<"DEPT">>, 3)>>, <<>>)>>

MCRevisions == [crowded |-> Crowded, dense |-> Dense, frames |-> Frames, titled |-> Titled, tabs |-> Tabs,
                records |-> Records, tools |-> Tools, nocanvas |-> NoCanvas, astray |-> Astray,
                namesakes |-> Namesakes]
MCPages == {1, 2}
MCKeyColumns == {<<"ID">>, <<"LOC">>}
MCCells == {[column |-> 1, span |-> 6, label |-> 2, side |-> "left"],
            [column |-> 7, span |-> 6, label |-> 0, side |-> "above"],
            [column |-> 6, span |-> 8, label |-> 0, side |-> "left"]}
\* The pages are made once, before the first state.
MCLayouts ==
  LET made == [s \in DOMAIN MCRevisions |-> Map(LAMBDA form : Layout(form), MCRevisions[s])] IN made
=============================================================================
