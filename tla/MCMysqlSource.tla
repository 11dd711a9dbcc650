---------------------------- MODULE MCMysqlSource ----------------------------
(* Up to two pre-queries and post-queries that may have rows, and queries  *)
(* with and without rows and with several results.                         *)
EXTENDS MysqlSourceProofs

MCQuery == { <<Quiet>>, <<0>>, <<2>>, <<1, 1, Quiet>>, <<2, 0, 1, Quiet>> }

MCQueries ==
  LET statements == { <<Quiet>>, <<1>>, <<1, Quiet>> }
  IN  {<<>>} \cup {<<s>> : s \in statements}
             \cup {<<s, t>> : s, t \in statements}
=============================================================================
