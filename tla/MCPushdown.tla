----------------------------- MODULE MCPushdown -----------------------------
(***************************************************************************)
(* Pushdown with seconds of three units around the epoch, two severities,  *)
(* one of them also written in lower case, a constant that is no severity, *)
(* and clauses of up to two conjuncts of every form.                       *)
(***************************************************************************)
EXTENDS Pushdown

MCTimes == -4..4
MCLogSeverity == {"ERROR", "INFO"}
MCUpper == [ERROR |-> "ERROR", error |-> "ERROR", INFO |-> "INFO", bogus |-> "BOGUS"]
MCRowCaps == {0, 1}

Comparisons ==
  [class : {"comparison"}, column : {"time_unix_nano"}, op : {"=", "<>", "<", "<=", ">", ">="},
   flipped : BOOLEAN, constant : MCTimes \cup {Null}]
    \cup [class : {"comparison"}, column : {"severity_text"}, op : {"=", "<>"},
          flipped : BOOLEAN, constant : DOMAIN MCUpper \cup {Null}]

Betweens == [class : {"between"}, lower : MCTimes \cup {Null}, upper : MCTimes \cup {Null}]

Ins == [class : {"in"}, list : SUBSET DOMAIN MCUpper \ {{}}]

Ands == [class : {"and"}, left : {[class |-> "between", lower |-> -2, upper |-> Null]},
         right : Ins \cup {[class |-> "other"]}]

MCFilters == Comparisons \cup Betweens \cup Ins \cup Ands \cup {[class |-> "other"]}
=============================================================================
