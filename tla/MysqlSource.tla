----------------------------- MODULE MysqlSource -----------------------------
(***************************************************************************)
(* MysqlWrapper as LookaIndexer::DoIndex uses it: connect and send the     *)
(* pre-queries, send the query, fetch its rows, and when the wrapper is    *)
(* deleted dismiss what is left, send the post-queries and close.          *)
(*                                                                         *)
(* The client library, external, takes a statement only when all results   *)
(* of the one before have been read ("commands out of sync"). A statement  *)
(* is the sequence of its results: numbers of rows, and Quiet for one      *)
(* without rows (SET, or the end of a CALL).                               *)
(***************************************************************************)
EXTENDS Integers, Sequences, SequencesExt

CONSTANTS
  Quiet,     (* a result without rows to fetch                              *)
  Query,     (* what sql_query may be                                       *)
  Queries,   (* what sql_query_pre and sql_query_post may be: sequences     *)
  NoResult   (* m_pMysqlResult = NULL                                       *)

(* What the server answers to one statement: a result without rows ends    *)
(* it. (A text of several statements would be taken if the bit of CLIENT_  *)
(* MULTI_STATEMENTS happened to be in m_iFlags, which nobody sets.)        *)
Statement(results) ==
  /\ results \in Seq(Nat \cup {Quiet}) /\ results # <<>>
  /\ \A i \in 1..(Len(results) - 1) : results[i] # Quiet

ASSUME MysqlAssumption ==
  /\ Quiet \notin Nat /\ NoResult \notin Nat
  /\ \A q \in Query : Statement(q)
  /\ \A qs \in Queries :
       Len(qs) \in Nat /\ \A i \in 1..Len(qs) : Statement(qs[i])

VARIABLES
  params,         (* [pre, query, post]                                     *)
  pc,             (* where DoIndex and the wrapper are                      *)
  m_pMysqlResult, (* rows left of the result it refers to, or NoResult      *)
  current,        (* the statement that result is of                        *)
  using,          (* the library is in the middle of a result               *)
  more,           (* results of the last statement not yet asked for        *)
  lost,           (* the connection is gone                                 *)
  given,          (* history: the statements of the rows that were indexed  *)
  executed,       (* history: the statements the server has run             *)
  failed          (* history: the server or the indexer reported an error   *)

driver  == <<m_pMysqlResult, current, using, more>>
history == <<given, executed, failed>>
vars    == <<params, pc, driver, lost, history>>

(* A statement by its place: <<"pre", i>>, <<"query", 1>>, <<"post", i>>.  *)
Results(at) == IF at[1] = "query" THEN params.query ELSE params[at[1]][at[2]]
Count(part) == IF part = "query" THEN 1 ELSE Len(params[part])
Done        == <<"none", 0>>

OutOfSync == using \/ more # <<>>

-----------------------------------------------------------------------------
Init ==
  /\ params \in [pre : Queries, query : Query, post : Queries]
  /\ pc = <<"connect", 1>>
  /\ m_pMysqlResult = NoResult /\ current = Done
  /\ using = FALSE /\ more = <<>>
  /\ lost = FALSE
  /\ given = <<>> /\ executed = <<>> /\ failed = FALSE

(* SqlConnect; if it fails, nothing is sent and nothing indexed.           *)
Connect ==
  /\ pc = <<"connect", 1>>
  /\ \/ pc' = <<"pre", 1>> /\ UNCHANGED failed
     \/ pc' = <<"closed", 1>> /\ failed' = TRUE
  /\ UNCHANGED <<params, driver, lost, given, executed>>

(* Mutant of After: nobody looks whether the query failed.                 *)
AfterUnchecked(ok) ==
  IF pc[1] = "query" THEN <<"fetch", 1>> ELSE <<pc[1], pc[2] + 1>>

(* Where DoIndex goes on after a statement: a query that failed has the    *)
(* wrapper deleted, the others' results are not looked at.                 *)
After(ok) ==
  IF pc[1] = "query" THEN (IF ok THEN <<"fetch", 1>> ELSE <<"dismiss", 1>>)
  ELSE <<pc[1], pc[2] + 1>>

Sending == pc[1] \in {"pre", "query", "post"} /\ pc[2] <= Count(pc[1])

(* SqlQuery: mysql_query and mysql_use_result.                             *)
SqlQuery ==
  /\ Sending /\ ~lost /\ ~OutOfSync
  /\ executed' = Append(executed, pc)
  /\ LET first == Head(Results(pc))
     IN  /\ m_pMysqlResult' = IF first = Quiet THEN NoResult ELSE first
         /\ using' = (first # Quiet)
  /\ current' = pc
  /\ more' = Tail(Results(pc))
  /\ pc' = After(TRUE)
  /\ UNCHANGED <<params, lost, given, failed>>

(* mysql_query fails: out of sync, an error of the server, or no server.   *)
SqlQueryFails ==
  /\ Sending
  /\ failed' = (failed \/ ~OutOfSync)
  /\ pc' = After(FALSE)
  /\ UNCHANGED <<params, driver, lost, given, executed>>

PreQueriesSent ==
  /\ pc[1] = "pre" /\ pc[2] > Count("pre")
  /\ pc' = <<"query", 1>>
  /\ UNCHANGED <<params, driver, lost, history>>

(* SqlFetchRow, and the row is processed.                                  *)
FetchRow ==
  /\ pc[1] = "fetch" /\ using
  /\ m_pMysqlResult # NoResult /\ m_pMysqlResult > 0
  /\ m_pMysqlResult' = m_pMysqlResult - 1
  /\ given' = Append(given, current)
  /\ UNCHANGED <<params, pc, current, using, more, lost, executed, failed>>

(* SqlFetchRow returns false: there is no result, or no row is left, or    *)
(* the connection is lost, which looks the same.                           *)
EndOfRows ==
  /\ pc[1] = "fetch" /\ (m_pMysqlResult \in {NoResult, 0} \/ lost)
  /\ using' = FALSE
  /\ pc' = <<"dismiss", 1>>
  /\ UNCHANGED <<params, m_pMysqlResult, current, more, lost, history>>

(* DoIndex breaks out of the loop at an unknown column.                    *)
UnknownColumn ==
  /\ pc[1] = "fetch" /\ given = <<>> /\ using
  /\ m_pMysqlResult # NoResult /\ m_pMysqlResult > 0
  /\ m_pMysqlResult' = m_pMysqlResult - 1
  /\ failed' = TRUE
  /\ pc' = <<"dismiss", 1>>
  /\ UNCHANGED <<params, current, using, more, lost, given, executed>>

(* Mutant of DismissResult: further results are not asked for.             *)
DismissFirst ==
  /\ pc[1] = "dismiss" /\ m_pMysqlResult # NoResult
  /\ using' = FALSE
  /\ m_pMysqlResult' = NoResult
  /\ UNCHANGED <<params, pc, current, more, lost, history>>

(* Mutant of DismissResult: the last result is not forgotten.              *)
DismissLastAgain ==
  /\ pc[1] = "dismiss" /\ m_pMysqlResult # NoResult
  /\ using' = FALSE /\ more' = <<>>
  /\ UNCHANGED <<params, pc, m_pMysqlResult, current, lost, history>>

(* One round of SqlDismissResult: the rows that are left are discarded and *)
(* the next result is asked for.                                           *)
DismissResult ==
  /\ pc[1] = "dismiss" /\ m_pMysqlResult # NoResult
  /\ IF more = <<>> \/ lost
     THEN m_pMysqlResult' = NoResult /\ using' = FALSE /\ UNCHANGED more
     ELSE /\ m_pMysqlResult' = IF Head(more) = Quiet THEN NoResult ELSE Head(more)
          /\ using' = (Head(more) # Quiet)
          /\ more' = Tail(more)
  /\ UNCHANGED <<params, pc, current, lost, history>>

(* SqlDisconnect dismisses before the post-queries, and again after them.  *)
Dismissed ==
  /\ pc[1] = "dismiss" /\ m_pMysqlResult = NoResult
  /\ pc' = IF pc[2] = 1 THEN <<"post", 1>> ELSE <<"closed", 1>>
  /\ UNCHANGED <<params, driver, lost, history>>

PostQueriesSent ==
  /\ pc[1] = "post" /\ pc[2] > Count("post")
  /\ pc' = <<"dismiss", 2>>
  /\ UNCHANGED <<params, driver, lost, history>>

(* The server or the network goes away.                                    *)
Lose ==
  /\ ~lost /\ pc[1] \notin {"connect", "closed"}
  /\ lost' = TRUE
  /\ UNCHANGED <<params, pc, driver, history>>

Next ==
  \/ Connect \/ SqlQuery \/ SqlQueryFails \/ PreQueriesSent
  \/ FetchRow \/ EndOfRows \/ UnknownColumn
  \/ DismissResult \/ Dismissed \/ PostQueriesSent \/ Lose

Spec == Init /\ [][Next]_vars
FairSpec == Spec /\ WF_vars(Next)

-----------------------------------------------------------------------------
(* Properties                                                              *)

(* Only rows of the query are indexed, in particular none that a pre-query *)
(* left unread; and if nobody reported an error and the connection stood,  *)
(* these are all rows of its first result.                                 *)
RowsAreOfQuery ==
  /\ \A i \in 1..Len(given) : given[i] = <<"query", 1>>
  /\ \/ Head(params.query) = Quiet /\ given = <<>>
     \/ Head(params.query) # Quiet /\ Len(given) <= Head(params.query)
  /\ pc[1] \in {"post", "closed"} /\ ~failed /\ ~lost =>
       \/ given = <<>> /\ \/ <<"query", 1>> \notin ToSet(executed)
                          \/ Head(params.query) = Quiet
       \/ Len(given) = Head(params.query)

(* Whatever the query and its fetching left behind, several results of a   *)
(* procedure included, the post-queries are sent, unless an earlier post-  *)
(* query has rows, which nobody reads.                                     *)
PostQueriesRun ==
  pc[1] = "closed" /\ ~failed /\ ~lost =>
    \A i \in 1..Count("post") :
      (\A j \in 1..(i - 1) : params.post[j] = <<Quiet>>)
        => <<"post", i>> \in ToSet(executed)

(* Every run comes to its end.                                             *)
RunEnds == <>(pc[1] = "closed")
=============================================================================
