---------------------------- MODULE MCUnitReview ----------------------------
(* Constants of the runs of UnitReview: rows of rules.py, two releases of     *)
(* which the first does not know SYNCHRONIZE and files ON-LOCK otherwise, and *)
(* the forms, their units as plsql.analyze reads them.                        *)
EXTENDS UnitReview, TLC

CONSTANTS p1, p2

Entry(category, class, risk) == [category |-> category, class |-> class, risk |-> risk, known |-> TRUE]
Newest ==
  [GO_BLOCK    |-> Entry("navigation", "CLIENT_SIDE_REPLACEMENT", 45),
   NAME_IN     |-> Entry("indirection", "SERVER_SIDE_REPLACEMENT", 85),
   SYNCHRONIZE |-> Entry("ui_container", "NOT_REQUIRED", 10),
   SHOW_ALERT  |-> Entry("message", "CLIENT_SIDE_REPLACEMENT", 10),
   CALL_FORM   |-> Entry("module_nav", "SERVER_SIDE_REPLACEMENT", 70),
   COMMIT_FORM |-> Entry("transaction", "DIRECT_EQUIVALENT", 90),
   HOST        |-> Entry("external", "UNSUPPORTED", 90)]
Unclassified == [category |-> "unknown", class |-> "MANUAL_REVIEW", risk |-> 60, known |-> FALSE]
MCCatalog == <<[Newest EXCEPT !.SYNCHRONIZE = Unclassified], Newest>>

Moment(weight, why, moves, commits) == [weight |-> weight, why |-> why, moves |-> moves, commits |-> commits]
NewestPoints ==
  [WHEN_BUTTON_PRESSED |-> Moment(30, FALSE, "kept", FALSE), WHEN_FOO |-> Moment(55, TRUE, "kept", FALSE),
   PRE_INSERT |-> Moment(55, TRUE, "relocated", TRUE), ON_LOCK |-> Moment(85, TRUE, "gone", TRUE)]
MCPoints == <<[NewestPoints EXCEPT !.ON_LOCK = Moment(85, TRUE, "relocated", TRUE)], NewestPoints>>

\* A unit without anything in it, and where it belongs.
Empty ==
  [kind |-> "program_unit", name |-> "", parent |-> Root, point |-> None, verdict |-> "ASSISTED",
   small |-> FALSE, builtins |-> <<>>, sysvars |-> <<>>, literals |-> <<>>, items |-> <<>>,
   globals |-> <<>>, tables |-> <<>>, packages |-> <<>>, calls |-> <<>>, sql |-> {},
   handler |-> FALSE, branches |-> FALSE, lines |-> 6]
Trigger(block, point) ==
  [Empty EXCEPT !.kind = "trigger", !.name = <<block, point>>, !.parent = <<"block", block>>, !.point = point]
Once(S) == [b \in S |-> 1]
Literal(b, kind, value) == [builtin |-> b, kind |-> kind, value |-> value]

Item(name, lov, required, bounded) == [name |-> name, lov |-> lov, required |-> required, bounded |-> bounded]
Bare == [blocks |-> <<>>, groups |-> <<>>, lovs |-> <<>>, relations |-> <<>>, others |-> <<>>, units |-> <<>>]
TwoBlocks ==
  [Bare EXCEPT !.blocks =
     <<[name |-> "ORDERS", tables |-> <<"ORDERS">>,
        items |-> <<Item("ORDERS.ID", "STATES", TRUE, FALSE), Item("ORDERS.QTY", None, FALSE, TRUE)>>],
       [name |-> "ITEMS", tables |-> <<>>, items |-> <<>>]>>]

\* A button that reaches a check and items by name, and the check it calls.
Orders ==
  [TwoBlocks EXCEPT
     !.groups = <<[name |-> "STATES_RG", tables |-> <<"STATES">>]>>,
     !.lovs = <<[name |-> "STATES", group |-> "STATES_RG"]>>,
     !.relations = <<[name |-> "LINES", detail |-> "ITEMS"]>>,
     !.others = <<[kind |-> "library", name |-> "COMMON", edge |-> "uses", external |-> TRUE]>>,
     !.units =
       <<[Trigger("ORDERS", "WHEN_BUTTON_PRESSED") EXCEPT
            !.builtins = Once({"GO_BLOCK", "NAME_IN", "SYNCHRONIZE"}), !.items = <<"ORDERS.QTY">>,
            !.literals = <<Literal("GO_BLOCK", "block", "ITEMS"), Literal("NAME_IN", "item", "ORDERS.ID")>>,
            !.calls = <<"CHECK_ORDER">>],
         [Empty EXCEPT !.name = "CHECK_ORDER", !.globals = <<"N">>, !.tables = <<"STOCK">>, !.sql = {"update"},
            !.packages = <<[name |-> "LOG_PKG", call |-> "LOG_PKG.WRITE"]>>, !.handler = TRUE]>>]

\* Two triggers that go to a block that is not there.
Nowhere(block, point) ==
  [Trigger(block, point) EXCEPT !.builtins = Once({"GO_BLOCK"}),
                                !.literals = <<Literal("GO_BLOCK", "block", "NOPE")>>]
Locks ==
  [TwoBlocks EXCEPT !.units =
     <<[Nowhere("ORDERS", "PRE_INSERT") EXCEPT !.builtins = Once({"GO_BLOCK", "SHOW_ALERT"})],
       [Nowhere("ITEMS", "ON_LOCK") EXCEPT !.sql = {"execute_immediate"}]>>]

\* Procedures that call each other, and a trigger too small to be read.
Helpers ==
  [Bare EXCEPT !.units =
     <<[Trigger("ITEMS", "WHEN_FOO") EXCEPT !.verdict = "UNKNOWN", !.small = TRUE, !.lines = 1],
       [Empty EXCEPT !.name = "A", !.builtins = [HOST |-> 1, COMMIT_FORM |-> 2],
          !.literals = <<Literal("HOST", "os_command", "ls")>>, !.calls = <<"B">>, !.branches = TRUE],
       [Empty EXCEPT !.name = "B", !.items = <<"ORDERS.QTY">>, !.calls = <<"A", "HELPER">>]>>]

\* The button alone.
Button == [Orders EXCEPT !.groups = <<>>, !.others = <<>>, !.units = <<Orders.units[1]>>]

MCForms == [orders |-> Orders, locks |-> Locks, helpers |-> Helpers, button |-> Button,
            click |-> Button]
AtMostOf(processes, opens, answers, opinions, reviews) ==
  [processes |-> processes, opens |-> opens, answers |-> answers, opinions |-> opinions,
   reviews |-> reviews]
MCBounds ==
  [orders |-> AtMostOf(1, 3, 1, 1, 0), locks |-> AtMostOf(1, 2, 1, 1, 0), helpers |-> AtMostOf(1, 2, 1, 1, 0),
   button |-> AtMostOf(2, 2, 1, 1, 0), click |-> AtMostOf(1, 2, 0, 2, 1)]

Alike == Permutations(Process)
=============================================================================
