------------------------------ MODULE MCScenario ------------------------------
(* The parser for TLC: every directive once in a form that is accepted, the  *)
(* policy twice, and lines that are wrong in a way each.                     *)
EXTENDS Scenario

Line(directive, args, attrs) ==
  [directive |-> directive, args |-> args, attrs |-> attrs, label |-> FALSE]

At(key, value) == [key |-> key, value |-> value]

MCLines ==
  { Line("blank", <<>>, <<>>),
    Line("version", <<<<1>>>>, <<>>),
    Line("epoch", <<<<2>>>>, <<>>),
    Line("policy", <<<<1>>, <<1>>>>, <<At("fair_band", <<1>>), At("correction_threshold", <<1>>),
                                       At("max_modifier_bps", <<1>>)>>),
    Line("policy", <<<<1>>, <<2>>>>, <<At("fair_band", <<3>>), At("fair_band", <<0>>)>>),
    [Line("group", <<<<1>>, <<1>>>>, <<At("weight", <<2>>)>>) EXCEPT !.label = TRUE],
    Line("subject", <<<<3>>, <<1>>>>, <<At("group", <<1>>), At("modifier_bps", <<-1>>)>>),
    Line("evidence", <<<<1>>, <<1>>>>,
         <<At("window", <<1>>), At("window_gen", <<1>>), At("epoch", <<2>>)>>),
    Line("obs", <<<<3>>, <<1>>>>, <<At("served", <<2>>)>>),
    Line("request", <<>>, <<At("evidence", <<1, 1>>)>>),
    Line("version", <<<<2>>>>, <<>>),                                \* another format
    Line("label", <<>>, <<>>),                                       \* only a label
    Line("group", <<<<2>>, <<1>>>>, <<At("weight", <<1>>), At("weight", <<1>>)>>),
    Line("obs", <<<<3>>, <<1>>>>, <<At("unserved", <<4>>)>>),        \* too wide for u32
    Line("request", <<>>, <<At("window", <<1>>)>>),                  \* not a pair
    Line("evidence", <<<<1>>>>, <<>>) }                              \* no generation
===============================================================================
