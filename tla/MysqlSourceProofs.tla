-------------------------- MODULE MysqlSourceProofs --------------------------
(***************************************************************************)
(* Proofs about MysqlSource for every query, any pre- and post-queries of  *)
(* any numbers of results and rows, and any error.                         *)
(***************************************************************************)
EXTENDS MysqlSource, SequenceTheorems, TLAPS

-----------------------------------------------------------------------------
(* The inductive invariant.                                                *)

(* Where DoIndex and the wrapper can be, and what they know.               *)
TypeOK ==
  /\ params \in [pre : Queries, query : Query, post : Queries]
  /\ pc \in ({"connect", "query", "fetch", "closed"} \X {1})
           \cup ({"dismiss"} \X {1, 2})
           \cup ({"pre"} \X (1..(Count("pre") + 1)))
           \cup ({"post"} \X (1..(Count("post") + 1)))
  /\ m_pMysqlResult \in Nat \cup {NoResult}
  /\ more \in Seq(Nat \cup {Quiet})
  /\ using \in BOOLEAN /\ lost \in BOOLEAN /\ failed \in BOOLEAN
  /\ given \in Seq({<<"query", 1>>})
  /\ executed \in Seq({"pre", "query", "post"} \X Nat)

(* Nothing is left of a statement whose result was forgotten, unless the   *)
(* connection broke while it was dismissed.                                *)
DriverFollows ==
  /\ m_pMysqlResult = NoResult => ~using /\ (lost \/ more = <<>>)
  /\ \A i \in 1..(Len(more) - 1) : more[i] # Quiet

(* Rows are fetched from the query's result, and those that are left of it *)
(* make up, with those that were indexed, all it had.                      *)
RowsAreCounted ==
  LET first == Head(params.query)
  IN  /\ pc[1] \in {"connect", "pre", "query"} =>
           given = <<>> /\ <<"query", 1>> \notin ToSet(executed)
      /\ pc[1] = "fetch" => current = <<"query", 1>>
      /\ pc[1] = "fetch" =>
           IF first = Quiet THEN m_pMysqlResult = NoResult /\ given = <<>>
           ELSE m_pMysqlResult \in Nat /\ Len(given) + m_pMysqlResult = first
      /\ RowsAreOfQuery
      /\ pc[1] = "dismiss" /\ ~failed /\ ~lost =>
           \/ given = <<>> /\ \/ <<"query", 1>> \notin ToSet(executed)
                              \/ first = Quiet
           \/ Len(given) = first

(* The post-queries that precede k were sent, up to one that has rows; if  *)
(* none has, the library takes the next one.                               *)
Silent(k) == \A j \in 1..(k - 1) : params.post[j] = <<Quiet>>

PostQueriesSentBefore(k) ==
  ~failed /\ ~lost =>
    /\ \A i \in 1..Count("post") :
         i < k /\ Silent(i) => <<"post", i>> \in ToSet(executed)
    /\ pc[1] = "post" /\ Silent(k) => m_pMysqlResult = NoResult

PostQueriesFollow ==
  /\ pc[1] = "post" => PostQueriesSentBefore(pc[2])
  /\ pc = <<"dismiss", 2>> => PostQueriesSentBefore(Count("post") + 1)
  /\ PostQueriesRun

Inv == TypeOK /\ DriverFollows /\ RowsAreCounted /\ PostQueriesFollow

(* A statement's results: the first one, and those that follow.            *)
LEMMA StatementResults ==
  ASSUME NEW results, Statement(results)
  PROVE  /\ Head(results) \in Nat \cup {Quiet}
         /\ Tail(results) \in Seq(Nat \cup {Quiet})
         /\ \A i \in 1..(Len(Tail(results)) - 1) : Tail(results)[i] # Quiet
         /\ Head(results) = Quiet => Tail(results) = <<>>
  <1>1. /\ results \in Seq(Nat \cup {Quiet}) /\ results # <<>>
        /\ \A i \in 1..(Len(results) - 1) : results[i] # Quiet
    BY DEF Statement
  <1>2. /\ Head(results) = results[1] /\ Head(results) \in Nat \cup {Quiet}
        /\ Len(results) \in Nat /\ Len(results) >= 1
        /\ Tail(results) \in Seq(Nat \cup {Quiet})
        /\ Len(Tail(results)) = Len(results) - 1
        /\ \A i \in 1..Len(Tail(results)) : Tail(results)[i] = results[i + 1]
    BY <1>1, HeadTailProperties, EmptySeq, LenProperties
  <1>3. \A i \in 1..(Len(Tail(results)) - 1) : Tail(results)[i] # Quiet
    BY <1>1, <1>2
  <1>4. ASSUME Head(results) = Quiet
        PROVE  Tail(results) = <<>>
    <2>1. Len(results) = 1
      BY <1>1, <1>2, <1>4
    <2>2. Len(Tail(results)) = 0
      BY <1>2, <2>1
    <2> QED
      BY <1>2, <2>2, EmptySeq
  <1> QED
    BY <1>1, <1>2, <1>3, <1>4

(* The library answers whatever statement is sent.                         *)
LEMMA SentIsStatement ==
  ASSUME TypeOK, Sending
  PROVE  /\ Statement(Results(pc))
         /\ pc \in {"pre", "query", "post"} \X Nat
         /\ pc[1] = "query" => pc = <<"query", 1>> /\ Results(pc) = params.query
         /\ pc[1] = "post" => pc[2] \in 1..Len(params.post)
                              /\ Results(pc) = params.post[pc[2]]
  <1>1. /\ params.pre \in Queries /\ params.query \in Query
        /\ params.post \in Queries
    BY DEF TypeOK
  <1>2. CASE pc[1] = "query"
    <2>1. pc = <<"query", 1>>
      BY <1>2 DEF TypeOK
    <2> QED
      BY <1>1, <2>1, MysqlAssumption DEF Results
  <1>3. CASE pc[1] = "pre"
    <2>1. pc \in {"pre"} \X (1..(Count("pre") + 1)) /\ pc[2] <= Count("pre")
      BY <1>3 DEF TypeOK, Sending
    <2>2. Count("pre") = Len(params.pre) /\ Results(pc) = params.pre[pc[2]]
      BY <1>3 DEF Count, Results
    <2> QED
      BY <1>1, <1>3, <2>1, <2>2, MysqlAssumption
  <1>4. CASE pc[1] = "post"
    <2>1. pc \in {"post"} \X (1..(Count("post") + 1)) /\ pc[2] <= Count("post")
      BY <1>4 DEF TypeOK, Sending
    <2>2. Count("post") = Len(params.post) /\ Results(pc) = params.post[pc[2]]
      BY <1>4 DEF Count, Results
    <2> QED
      BY <1>1, <1>4, <2>1, <2>2, MysqlAssumption
  <1> QED
    BY <1>2, <1>3, <1>4 DEF Sending

-----------------------------------------------------------------------------
LEMMA InitInv == Init => Inv
  <1> SUFFICES ASSUME Init
               PROVE  Inv
    OBVIOUS
  <1>1. \A S : <<>> \in Seq(S) /\ Len(<<>>) = 0
    OBVIOUS
  <1>2. TypeOK
    BY <1>1 DEF Init, TypeOK
  <1>3. DriverFollows
    BY DEF Init, DriverFollows
  <1>4. RowsAreOfQuery
    <2>1. params.query \in Query
      BY DEF Init
    <2>2. Head(params.query) \in Nat \cup {Quiet}
      BY <2>1, MysqlAssumption, StatementResults
    <2> QED
      BY <2>2 DEF Init, RowsAreOfQuery
  <1>5. RowsAreCounted
    <2>1. ToSet(<<>>) = {}
      BY DEF ToSet
    <2> QED
      BY <1>4, <2>1 DEF Init, RowsAreCounted
  <1>6. PostQueriesFollow
    BY DEF Init, PostQueriesFollow, PostQueriesRun
  <1> QED
    BY <1>2, <1>3, <1>5, <1>6 DEF Inv

LEMMA TypeOKInvariant == TypeOK /\ RowsAreCounted /\ [Next]_vars => TypeOK'
  <1> SUFFICES ASSUME TypeOK, RowsAreCounted, [Next]_vars
               PROVE  TypeOK'
    OBVIOUS
  <1> USE DEF TypeOK, driver, history
  <1>0. /\ params \in [pre : Queries, query : Query, post : Queries]
        /\ Len(params.pre) \in Nat /\ Len(params.post) \in Nat
        /\ Count("pre") = Len(params.pre) /\ Count("post") = Len(params.post)
    BY MysqlAssumption DEF Count
  <1>1. CASE Connect
    <2>1. pc' \in {<<"pre", 1>>, <<"closed", 1>>} /\ failed' \in BOOLEAN
      BY <1>1 DEF Connect
    <2>2. UNCHANGED <<params, driver, lost, given, executed>>
      BY <1>1 DEF Connect
    <2>3. 1 \in 1..(Len(params.pre) + 1)
      BY <1>0
    <2> QED
      BY <2>1, <2>2, <2>3, <1>0 DEF Count
  <1>2. CASE SqlQuery
    <2>1. /\ Sending /\ executed' = Append(executed, pc)
          /\ m_pMysqlResult' = (IF Head(Results(pc)) = Quiet THEN NoResult
                                ELSE Head(Results(pc)))
          /\ using' = (Head(Results(pc)) # Quiet)
          /\ more' = Tail(Results(pc))
          /\ pc' = After(TRUE)
          /\ UNCHANGED <<params, lost, given, failed>>
      BY <1>2 DEF SqlQuery
    <2>2. Statement(Results(pc)) /\ pc \in {"pre", "query", "post"} \X Nat
      BY <2>1, SentIsStatement
    <2>3. m_pMysqlResult' \in Nat \cup {NoResult} /\ more' \in Seq(Nat \cup {Quiet})
      BY <2>1, <2>2, StatementResults
    <2>4. executed' \in Seq({"pre", "query", "post"} \X Nat)
      BY <2>1, <2>2, AppendProperties
    <2>5. using' \in BOOLEAN
      BY <2>1
    <2>6. (pc \in ({"connect", "query", "fetch", "closed"} \X {1})
             \cup ({"dismiss"} \X {1, 2})
             \cup ({"pre"} \X (1..(Count("pre") + 1)))
             \cup ({"post"} \X (1..(Count("post") + 1))))'
      <3>1. CASE pc[1] = "query"
        BY <2>1, <3>1 DEF After
      <3>2. CASE pc[1] \in {"pre", "post"}
        <4>1. pc' = <<pc[1], pc[2] + 1>>
          BY <2>1, <3>2 DEF After
        <4>2. pc[2] \in 1..Count(pc[1])
          BY <2>1, <3>2, <1>0 DEF Sending
        <4> QED
          BY <4>1, <4>2, <3>2, <2>1, <1>0 DEF Count
      <3> QED
        BY <3>1, <3>2, <2>1 DEF Sending
    <2> QED
      BY <2>1, <2>3, <2>4, <2>5, <2>6
  <1>3. CASE SqlQueryFails
    <2>1. /\ Sending /\ pc' = After(FALSE) /\ failed' \in BOOLEAN
          /\ UNCHANGED <<params, driver, lost, given, executed>>
      BY <1>3 DEF SqlQueryFails, OutOfSync
    <2>2. CASE pc[1] = "query"
      BY <2>1, <2>2 DEF After, Count
    <2>3. CASE pc[1] \in {"pre", "post"}
      <3>1. pc' = <<pc[1], pc[2] + 1>>
        BY <2>1, <2>3 DEF After
      <3>2. pc[2] \in 1..Count(pc[1])
        BY <2>1, <2>3, <1>0 DEF Sending
      <3> QED
        BY <3>1, <3>2, <2>1, <2>3, <1>0 DEF Count
    <2> QED
      BY <2>1, <2>2, <2>3 DEF Sending
  <1>4. CASE PreQueriesSent
    BY <1>4 DEF PreQueriesSent, Count
  <1>5. CASE FetchRow
    <2>1. /\ pc = <<"fetch", 1>> /\ UNCHANGED <<params, pc, using, more, lost, executed, failed>>
          /\ m_pMysqlResult' \in Nat
          /\ given' = Append(given, current)
      BY <1>5 DEF FetchRow
    <2>2. current = <<"query", 1>>
      BY <2>1 DEF RowsAreCounted
    <2>3. given' \in Seq({<<"query", 1>>})
      BY <2>1, <2>2
    <2> QED
      BY <2>1, <2>3 DEF Count
  <1>6. CASE EndOfRows
    BY <1>6 DEF EndOfRows, Count
  <1>7. CASE UnknownColumn
    BY <1>7 DEF UnknownColumn, Count
  <1>8. CASE DismissResult
    <2>1. /\ UNCHANGED <<params, pc, lost, given, executed, failed>>
          /\ \/ m_pMysqlResult' = NoResult /\ using' = FALSE /\ more' = more
             \/ /\ more # <<>>
                /\ m_pMysqlResult' = (IF Head(more) = Quiet THEN NoResult ELSE Head(more))
                /\ using' = (Head(more) # Quiet)
                /\ more' = Tail(more)
      BY <1>8 DEF DismissResult
    <2>2. using' \in BOOLEAN
      BY <2>1
    <2>3. more' \in Seq(Nat \cup {Quiet})
      BY <2>1, HeadTailProperties
    <2>4. m_pMysqlResult' \in Nat \cup {NoResult}
      BY <2>1, HeadTailProperties
    <2> QED
      BY <2>1, <2>2, <2>3, <2>4 DEF Count
  <1>9. CASE Dismissed
    BY <1>9, <1>0 DEF Dismissed, Count
  <1>10. CASE PostQueriesSent
    BY <1>10 DEF PostQueriesSent, Count
  <1>11. CASE Lose
    BY <1>11 DEF Lose, Count
  <1>12. CASE UNCHANGED vars
    BY <1>12 DEF vars, Count
  <1> QED
    BY <1>1, <1>2, <1>3, <1>4, <1>5, <1>6, <1>7, <1>8, <1>9, <1>10, <1>11, <1>12 DEF Next

(* What SqlQuery and a round of SqlDismissResult leave of the results.     *)
LEMMA DriverFollowsInvariant ==
  TypeOK /\ DriverFollows /\ [Next]_vars => DriverFollows'
  <1> SUFFICES ASSUME TypeOK, DriverFollows, [Next]_vars
               PROVE  DriverFollows'
    OBVIOUS
  <1> USE DEF DriverFollows, driver, history
  <1>1. CASE SqlQuery
    <2>1. /\ Sending
          /\ m_pMysqlResult' = (IF Head(Results(pc)) = Quiet THEN NoResult
                                ELSE Head(Results(pc)))
          /\ using' = (Head(Results(pc)) # Quiet)
          /\ more' = Tail(Results(pc))
      BY <1>1 DEF SqlQuery
    <2>2. Statement(Results(pc))
      BY <2>1, SentIsStatement
    <2> QED
      BY <2>1, <2>2, StatementResults, MysqlAssumption
  <1>2. CASE FetchRow \/ UnknownColumn
    <2>1. /\ m_pMysqlResult \in Nat /\ m_pMysqlResult' = m_pMysqlResult - 1
          /\ m_pMysqlResult > 0
          /\ more' = more
      BY <1>2 DEF FetchRow, UnknownColumn, TypeOK
    <2>2. m_pMysqlResult' # NoResult
      BY <2>1, MysqlAssumption
    <2> QED
      BY <2>1, <2>2
  <1>3. CASE DismissResult
    <2>1. CASE more = <<>> \/ lost
      BY <1>3, <2>1 DEF DismissResult
    <2>2. CASE ~(more = <<>> \/ lost)
      <3>1. /\ m_pMysqlResult' = (IF Head(more) = Quiet THEN NoResult ELSE Head(more))
            /\ using' = (Head(more) # Quiet)
            /\ more' = Tail(more)
        BY <1>3, <2>2 DEF DismissResult
      <3>2. Statement(more)
        BY <2>2 DEF TypeOK, Statement
      <3> QED
        BY <3>1, <3>2, StatementResults, MysqlAssumption
    <2> QED
      BY <2>1, <2>2
  <1>4. CASE EndOfRows
    BY <1>4 DEF EndOfRows
  <1>5. CASE \/ Connect \/ SqlQueryFails \/ PreQueriesSent \/ Dismissed
             \/ PostQueriesSent \/ UNCHANGED vars
    <2>1. UNCHANGED <<m_pMysqlResult, using, more, lost>>
      BY <1>5 DEF Connect, SqlQueryFails, PreQueriesSent, Dismissed,
                  PostQueriesSent, vars
    <2> QED
      BY <2>1
  <1>6. CASE Lose
    BY <1>6 DEF Lose
  <1> QED
    BY <1>1, <1>2, <1>3, <1>4, <1>5, <1>6 DEF Next

(* Once the query has been tried, what was indexed of it is settled.       *)
Settled ==
  ~failed /\ ~lost =>
    \/ given = <<>> /\ \/ <<"query", 1>> \notin ToSet(executed)
                       \/ Head(params.query) = Quiet
    \/ Len(given) = Head(params.query)

LEMMA SettledIsCounted ==
  ASSUME TypeOK, RowsAreCounted, pc[1] \in {"dismiss", "post", "closed"}
  PROVE  Settled
  BY DEF RowsAreCounted, RowsAreOfQuery, Settled

(* A step after the fetching keeps what is settled.                        *)
LEMMA SettledSteps ==
  ASSUME TypeOK, RowsAreCounted, pc'[1] \in {"dismiss", "post", "closed"}, Settled',
         UNCHANGED <<params, given>>
  PROVE  RowsAreCounted'
  <1>1. RowsAreOfQuery'
    BY DEF RowsAreCounted, RowsAreOfQuery, Settled
  <1> QED
    BY <1>1 DEF RowsAreCounted, Settled

(* A step before the fetching, in which nothing is indexed.                *)
LEMMA NothingIndexed ==
  ASSUME Head(params.query) \in Nat \cup {Quiet}, given = <<>>,
         UNCHANGED <<params, given>>, pc'[1] \notin {"post", "closed"}
  PROVE  RowsAreOfQuery'
  <1>1. Len(<<>>) = 0
    OBVIOUS
  <1> QED
    BY <1>1 DEF RowsAreOfQuery

(* The statements the server has run after one more of them.               *)
LEMMA ExecutedAppended ==
  ASSUME TypeOK, NEW at \in {"pre", "query", "post"} \X Nat
  PROVE  ToSet(Append(executed, at)) = ToSet(executed) \cup {at}
  <1>1. executed \in Seq({"pre", "query", "post"} \X Nat)
    BY DEF TypeOK
  <1>2. /\ Len(Append(executed, at)) = Len(executed) + 1 /\ Len(executed) \in Nat
        /\ Append(executed, at) \in Seq({"pre", "query", "post"} \X Nat)
        /\ \A i \in 1..Len(executed) : Append(executed, at)[i] = executed[i]
        /\ Append(executed, at)[Len(executed) + 1] = at
    BY <1>1, AppendProperties, LenProperties
  <1>3. /\ DOMAIN executed = 1..Len(executed)
        /\ DOMAIN Append(executed, at) = 1..(Len(executed) + 1)
    BY <1>1, <1>2, LenProperties
  <1> HIDE DEF TypeOK
  <1> QED
    BY <1>2, <1>3 DEF ToSet

LEMMA RowsAreCountedInvariant ==
  TypeOK /\ RowsAreCounted /\ [Next]_vars => RowsAreCounted'
  <1> SUFFICES ASSUME TypeOK, RowsAreCounted, [Next]_vars
               PROVE  RowsAreCounted'
    OBVIOUS
  <1> USE DEF driver, history
  <1>0. Head(params.query) \in Nat \cup {Quiet}
    BY MysqlAssumption, StatementResults DEF TypeOK
  <1>1. CASE Connect
    BY <1>1, <1>0 DEF Connect, RowsAreCounted, RowsAreOfQuery
  <1>2. CASE SqlQuery
    <2>1. /\ Sending /\ executed' = Append(executed, pc)
          /\ m_pMysqlResult' = (IF Head(Results(pc)) = Quiet THEN NoResult
                                ELSE Head(Results(pc)))
          /\ current' = pc /\ pc' = After(TRUE)
          /\ UNCHANGED <<params, lost, given, failed>>
      BY <1>2 DEF SqlQuery
    <2>2. /\ pc[1] = "query" => pc = <<"query", 1>> /\ Results(pc) = params.query
          /\ pc \in {"pre", "query", "post"} \X Nat
      BY <2>1, SentIsStatement
    <2>3. ToSet(executed') = ToSet(executed) \cup {pc}
      BY <2>1, <2>2, ExecutedAppended
    <2>4. CASE pc[1] = "query"
      <3>1. pc'[1] = "fetch" /\ given = <<>> /\ current' = <<"query", 1>>
        BY <2>1, <2>2, <2>4 DEF After, RowsAreCounted
      <3>2. RowsAreOfQuery'
        BY <2>1, <3>1, <1>0, NothingIndexed
      <3>3. /\ m_pMysqlResult' = (IF Head(params'.query) = Quiet THEN NoResult
                                  ELSE Head(params'.query))
            /\ given' = <<>> /\ Len(given') = 0
        BY <2>1, <2>2, <2>4, <3>1
      <3>4. Head(params'.query) \in Nat \cup {Quiet}
        BY <2>1, <1>0
      <3> DEFINE first == Head(params'.query)
      <3>5. IF first = Quiet THEN m_pMysqlResult' = NoResult /\ given' = <<>>
            ELSE m_pMysqlResult' \in Nat /\ Len(given') + m_pMysqlResult' = first
        <4> HIDE DEF first
        <4> QED
          BY <3>3, <3>4 DEF first
      <3> QED
        BY <3>1, <3>2, <3>5 DEF RowsAreCounted
    <2>5. CASE pc[1] = "pre"
      <3>1. pc'[1] = "pre" /\ given = <<>>
        BY <2>1, <2>5 DEF After, RowsAreCounted
      <3>2. RowsAreOfQuery'
        BY <2>1, <3>1, <1>0, NothingIndexed
      <3>3. <<"query", 1>> \notin ToSet(executed')
        BY <2>3, <2>5 DEF RowsAreCounted
      <3> QED
        BY <2>1, <3>1, <3>2, <3>3 DEF RowsAreCounted
    <2>6. CASE pc[1] = "post"
      <3>1. pc'[1] = "post"
        BY <2>1, <2>6 DEF After
      <3>2. <<"query", 1>> \in ToSet(executed') => <<"query", 1>> \in ToSet(executed)
        BY <2>3, <2>6
      <3>3. Settled'
        BY <2>1, <2>6, <3>2, SettledIsCounted DEF Settled
      <3> QED
        BY <2>1, <3>1, <3>3, SettledSteps
    <2> QED
      BY <2>1, <2>4, <2>5, <2>6 DEF Sending
  <1>3. CASE SqlQueryFails
    <2>1. /\ Sending /\ pc' = After(FALSE) /\ (failed => failed')
          /\ UNCHANGED <<params, driver, lost, given, executed>>
      BY <1>3 DEF SqlQueryFails
    <2>2. CASE pc[1] = "query"
      <3>1. /\ pc'[1] = "dismiss" /\ given = <<>>
            /\ <<"query", 1>> \notin ToSet(executed)
        BY <2>1, <2>2 DEF After, RowsAreCounted
      <3> QED
        BY <2>1, <3>1, SettledSteps DEF Settled
    <2>3. CASE pc[1] = "pre"
      <3>1. pc'[1] = "pre" /\ given = <<>>
        BY <2>1, <2>3 DEF After, RowsAreCounted
      <3> QED
        BY <2>1, <2>3, <3>1, <1>0 DEF RowsAreCounted, RowsAreOfQuery
    <2>4. CASE pc[1] = "post"
      <3>1. pc'[1] = "post"
        BY <2>1, <2>4 DEF After
      <3> QED
        BY <2>1, <2>4, <3>1, SettledIsCounted, SettledSteps DEF Settled
    <2> QED
      BY <2>1, <2>2, <2>3, <2>4 DEF Sending
  <1>4. CASE PreQueriesSent
    BY <1>4, <1>0 DEF PreQueriesSent, RowsAreCounted, RowsAreOfQuery
  <1>5. CASE FetchRow
    <2>1. /\ pc = <<"fetch", 1>> /\ m_pMysqlResult \in Nat /\ m_pMysqlResult > 0
          /\ m_pMysqlResult' = m_pMysqlResult - 1
          /\ given' = Append(given, current)
          /\ UNCHANGED <<params, pc, current, using, more, lost, executed, failed>>
      BY <1>5 DEF FetchRow, TypeOK
    <2>2. /\ current = <<"query", 1>>
          /\ Head(params.query) # Quiet
          /\ Head(params.query) \in Nat
          /\ Len(given) + m_pMysqlResult = Head(params.query)
      BY <2>1, <1>0, MysqlAssumption DEF RowsAreCounted
    <2>3. given' \in Seq({<<"query", 1>>}) /\ Len(given') = Len(given) + 1
      BY <2>1, <2>2, AppendProperties DEF TypeOK
    <2>4. Len(given) \in Nat /\ Len(given') + m_pMysqlResult' = Head(params.query)
      BY <2>1, <2>2, <2>3, LenProperties DEF TypeOK
    <2>5. RowsAreOfQuery'
      BY <2>1, <2>2, <2>3, <2>4 DEF RowsAreOfQuery
    <2> QED
      BY <2>1, <2>2, <2>4, <2>5 DEF RowsAreCounted
  <1>6. CASE EndOfRows
    <2>1. /\ pc[1] = "fetch" /\ pc' = <<"dismiss", 1>>
          /\ (m_pMysqlResult \in {NoResult, 0} \/ lost)
          /\ UNCHANGED <<params, lost, given, executed, failed>>
      BY <1>6 DEF EndOfRows
    <2>2. Settled'
      BY <2>1, <1>0, MysqlAssumption DEF Settled, RowsAreCounted, TypeOK
    <2> QED
      BY <2>1, <2>2, SettledSteps
  <1>7. CASE UnknownColumn
    <2>1. /\ pc' = <<"dismiss", 1>> /\ failed' = TRUE
          /\ UNCHANGED <<params, given>>
      BY <1>7 DEF UnknownColumn
    <2> QED
      BY <2>1, SettledSteps DEF Settled
  <1>8. CASE DismissResult \/ Dismissed \/ PostQueriesSent
    <2>1. /\ {pc[1], pc'[1]} \subseteq {"dismiss", "post", "closed"}
          /\ UNCHANGED <<params, lost, given, executed, failed>>
      BY <1>8 DEF DismissResult, Dismissed, PostQueriesSent
    <2> QED
      BY <2>1, SettledIsCounted, SettledSteps DEF Settled
  <1>9. CASE Lose
    BY <1>9, <1>0 DEF Lose, RowsAreCounted, RowsAreOfQuery
  <1>10. CASE UNCHANGED vars
    BY <1>10 DEF vars, RowsAreCounted, RowsAreOfQuery
  <1> QED
    BY <1>1, <1>2, <1>3, <1>4, <1>5, <1>6, <1>7, <1>8, <1>9, <1>10 DEF Next

LEMMA PostQueriesFollowInvariant ==
  TypeOK /\ DriverFollows /\ PostQueriesFollow /\ [Next]_vars => PostQueriesFollow'
  <1> SUFFICES ASSUME TypeOK, DriverFollows, PostQueriesFollow, [Next]_vars
               PROVE  PostQueriesFollow'
    OBVIOUS
  <1>0. /\ Count("post") = Len(params.post) /\ Len(params.post) \in Nat
        /\ Count("post")' = Len(params'.post)
    BY MysqlAssumption DEF TypeOK, Count
  <1>1. CASE SqlQuery
    <2>1. /\ Sending /\ executed' = Append(executed, pc)
          /\ m_pMysqlResult' = (IF Head(Results(pc)) = Quiet THEN NoResult
                                ELSE Head(Results(pc)))
          /\ pc' = After(TRUE)
          /\ UNCHANGED <<params, lost, given, failed>>
      BY <1>1 DEF SqlQuery
    <2>2. CASE pc[1] # "post"
      <3>1. pc'[1] \in {"pre", "fetch"}
        BY <2>1, <2>2 DEF After, Sending
      <3> QED
        BY <3>1 DEF PostQueriesFollow, PostQueriesRun
    <2>3. CASE pc[1] = "post"
      <3>0. PICK k \in 1..Len(params.post) : pc = <<"post", k>>
        BY <2>1, <2>3, SentIsStatement DEF TypeOK
      <3>1. /\ pc = <<"post", k>> /\ k \in 1..Len(params.post)
            /\ pc' = <<"post", k + 1>> /\ pc'[1] = "post" /\ pc'[2] = k + 1
            /\ Results(pc) = params.post[k]
        BY <2>1, <2>3, <3>0, SentIsStatement DEF After
      <3>2. ToSet(executed') = ToSet(executed) \cup {<<"post", k>>}
        BY <2>1, <3>1, SentIsStatement, ExecutedAppended
      <3>3. PostQueriesSentBefore(k)
        BY <3>1 DEF PostQueriesFollow
      <3>4. ASSUME Silent(k + 1)
            PROVE  Silent(k) /\ m_pMysqlResult' = NoResult
        <4>1. params.post[k] = <<Quiet>> /\ Silent(k)
          BY <3>1, <3>4, <1>0 DEF Silent
        <4>2. Head(<<Quiet>>) = Quiet
          OBVIOUS
        <4> QED
          BY <2>1, <3>1, <4>1, <4>2
      <3>5. ASSUME ~failed, ~lost, NEW i \in 1..Len(params.post), i < k + 1, Silent(i)
            PROVE  <<"post", i>> \in ToSet(executed')
        <4>1. CASE i = k
          BY <4>1, <3>2
        <4>2. CASE i < k
          BY <4>2, <3>2, <3>3, <3>5, <1>0 DEF PostQueriesSentBefore
        <4> QED
          BY <4>1, <4>2, <3>1, <3>5, <1>0
      <3>6. PostQueriesSentBefore(k + 1)'
        BY <2>1, <3>1, <3>4, <3>5, <1>0 DEF PostQueriesSentBefore, Silent
      <3> QED
        BY <3>1, <3>6 DEF PostQueriesFollow, PostQueriesRun
    <2> QED
      BY <2>2, <2>3
  <1>2. CASE SqlQueryFails
    <2>1. /\ Sending /\ failed' = (failed \/ ~OutOfSync) /\ pc' = After(FALSE)
          /\ UNCHANGED <<params, m_pMysqlResult, lost, executed>>
      BY <1>2 DEF SqlQueryFails, driver
    <2>2. CASE pc[1] # "post"
      <3>1. pc'[1] = "pre" \/ pc' = <<"dismiss", 1>>
        BY <2>1, <2>2 DEF After, Sending
      <3> QED
        BY <3>1 DEF PostQueriesFollow, PostQueriesRun
    <2>3. CASE pc[1] = "post"
      <3>0. PICK k \in 1..Len(params.post) : pc = <<"post", k>>
        BY <2>1, <2>3, SentIsStatement DEF TypeOK
      <3>1. /\ pc = <<"post", k>> /\ k \in 1..Len(params.post)
            /\ pc' = <<"post", k + 1>> /\ pc'[1] = "post" /\ pc'[2] = k + 1
        BY <2>1, <2>3, <3>0, SentIsStatement DEF After
      <3>3. PostQueriesSentBefore(k)
        BY <3>1 DEF PostQueriesFollow
      <3>4. ASSUME ~failed', ~lost
            PROVE  ~failed /\ ~Silent(k)
        <4>1. OutOfSync /\ ~failed
          BY <2>1, <3>4
        <4>2. m_pMysqlResult # NoResult
          BY <4>1, <3>4 DEF DriverFollows, OutOfSync
        <4> QED
          BY <4>1, <4>2, <3>1, <3>3, <3>4 DEF PostQueriesSentBefore
      <3>5. Silent(k + 1) => Silent(k)
        BY <3>1, <1>0 DEF Silent
      <3>6. ASSUME ~failed', ~lost, NEW i \in 1..Len(params.post), i < k + 1, Silent(i)
            PROVE  <<"post", i>> \in ToSet(executed)
        <4>1. i < k
          BY <3>1, <3>4, <3>6, <1>0
        <4> QED
          BY <4>1, <3>3, <3>4, <3>6, <1>0 DEF PostQueriesSentBefore
      <3>7. PostQueriesSentBefore(k + 1)'
        BY <2>1, <3>1, <3>4, <3>5, <3>6, <1>0 DEF PostQueriesSentBefore, Silent
      <3> QED
        BY <3>1, <3>7 DEF PostQueriesFollow, PostQueriesRun
    <2> QED
      BY <2>2, <2>3
  <1>3. CASE Dismissed
    <2>1. /\ m_pMysqlResult = NoResult /\ pc[1] = "dismiss"
          /\ pc' = (IF pc[2] = 1 THEN <<"post", 1>> ELSE <<"closed", 1>>)
          /\ UNCHANGED <<params, m_pMysqlResult, lost, executed, failed>>
      BY <1>3 DEF Dismissed, driver, history
    <2>2. CASE pc[2] = 1
      <3>1. pc' = <<"post", 1>> /\ pc'[1] = "post" /\ pc'[2] = 1
        BY <2>1, <2>2
      <3>2. PostQueriesSentBefore(1)'
        BY <2>1, <1>0 DEF PostQueriesSentBefore
      <3> QED
        BY <3>1, <3>2 DEF PostQueriesFollow, PostQueriesRun
    <2>3. CASE pc[2] # 1
      <3>1. pc = <<"dismiss", 2>> /\ pc'[1] = "closed"
        BY <2>1, <2>3 DEF TypeOK
      <3>2. PostQueriesSentBefore(Len(params.post) + 1)
        BY <3>1, <1>0 DEF PostQueriesFollow
      <3>3. PostQueriesRun'
        BY <2>1, <3>2, <1>0 DEF PostQueriesSentBefore, PostQueriesRun, Silent
      <3> QED
        BY <3>1, <3>3 DEF PostQueriesFollow
    <2> QED
      BY <2>2, <2>3
  <1>4. CASE PostQueriesSent
    <2>1. /\ pc[1] = "post" /\ pc[2] > Len(params.post) /\ pc' = <<"dismiss", 2>>
          /\ UNCHANGED <<params, lost, executed, failed>>
      BY <1>4, <1>0 DEF PostQueriesSent, history
    <2>2. pc[2] = Len(params.post) + 1
      BY <2>1, <1>0 DEF TypeOK
    <2>3. PostQueriesSentBefore(Len(params.post) + 1)
      BY <2>1, <2>2 DEF PostQueriesFollow
    <2>4. PostQueriesSentBefore(Len(params.post) + 1)'
      BY <2>1, <2>3, <1>0 DEF PostQueriesSentBefore, Silent
    <2> QED
      BY <2>1, <2>4, <1>0 DEF PostQueriesFollow, PostQueriesRun
  <1>5. CASE Connect \/ PreQueriesSent \/ EndOfRows \/ UnknownColumn
    <2>1. \/ pc'[1] \in {"pre", "query"}
          \/ pc' = <<"dismiss", 1>>
          \/ pc'[1] = "closed" /\ failed'
      BY <1>5 DEF Connect, PreQueriesSent, EndOfRows, UnknownColumn
    <2> QED
      BY <2>1 DEF PostQueriesFollow, PostQueriesRun
  <1>6. CASE FetchRow \/ DismissResult
    <2>1. pc' = pc /\ pc[1] \in {"fetch", "dismiss"}
          /\ UNCHANGED <<params, lost, executed, failed>>
      BY <1>6 DEF FetchRow, DismissResult, history
    <2> QED
      BY <2>1, <1>0 DEF PostQueriesFollow, PostQueriesRun, PostQueriesSentBefore, Silent
  <1>7. CASE Lose
    BY <1>7 DEF Lose, PostQueriesFollow, PostQueriesRun, PostQueriesSentBefore
  <1>8. CASE UNCHANGED vars
    BY <1>8 DEF vars, driver, history, PostQueriesFollow, PostQueriesRun,
                PostQueriesSentBefore, Silent, Count
  <1> QED
    BY <1>1, <1>2, <1>3, <1>4, <1>5, <1>6, <1>7, <1>8 DEF Next

-----------------------------------------------------------------------------
THEOREM Invariance == Spec => []Inv
  <1>1. Inv /\ [Next]_vars => Inv'
    BY TypeOKInvariant, DriverFollowsInvariant, RowsAreCountedInvariant,
       PostQueriesFollowInvariant DEF Inv
  <1> QED
    BY InitInv, <1>1, PTL DEF Spec

(* For every statement and every error, DoIndex and the wrapper keep to    *)
(* their states, and what was executed and indexed to its types.           *)
THEOREM TypeCorrect == Spec => []TypeOK
  <1>1. Inv => TypeOK
    BY DEF Inv
  <1> QED
    BY Invariance, <1>1, PTL

(* Only rows of the query's first result are indexed, whatever pre-queries *)
(* left unread, and all of them unless an error or a lost connection was   *)
(* in the way.                                                             *)
THEOREM OnlyRowsOfQuery == Spec => []RowsAreOfQuery
  <1>1. Inv => RowsAreOfQuery
    BY DEF Inv, RowsAreCounted
  <1> QED
    BY Invariance, <1>1, PTL

(* Before a run ends without an error the post-queries were sent, however  *)
(* many results the query had.                                             *)
THEOREM PostQueriesAreSent == Spec => []PostQueriesRun
  <1>1. Inv => PostQueriesRun
    BY DEF Inv, PostQueriesFollow
  <1> QED
    BY Invariance, <1>1, PTL
=============================================================================
