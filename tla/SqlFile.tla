------------------------------- MODULE SqlFile -------------------------------
(***************************************************************************)
(* LookaConfigSource::AppendSqlFromFile (looka_config_source.cpp): the     *)
(* statements of the files that sql_query_pre_path and sql_query_post_path *)
(* name.  An author writes a file character by character.                  *)
(***************************************************************************)
EXTENDS TextLines

CONSTANTS
  Characters,  (* ";" and what isspace accepts among them                   *)
  MaxLength    (* bound: of a file                                          *)

VARIABLE sql   (* the file                                                  *)

IsSpace(c) == c \in {" ", "\t", "\r", "\n"}

-----------------------------------------------------------------------------
(* looka_string_utils                                                      *)

rtrim(s) == SubSeq(s, 1, Max({0} \cup {i \in 1..Len(s) : ~IsSpace(s[i])}))

(* The first character is never taken away.                                *)
rtrimc(s, c) == SubSeq(s, 1, Max({1} \cup {i \in 1..Len(s) : s[i] # c}))

-----------------------------------------------------------------------------
(* AppendSqlFromFile                                                       *)

(* Mutant of AppendLine: the statement that ended is not cleared.          *)
AppendLineOn(r, line) ==
  LET s == r.s \o line
  IN  IF ";" \notin ToSet(line) THEN [r EXCEPT !.s = s]
      ELSE [s |-> rtrimc(rtrim(s), ";"),
            sqls |-> Append(r.sqls, rtrimc(rtrim(s), ";"))]

(* A line is glued to those before it; one with a ";" ends the statement.  *)
AppendLine(r, line) ==
  LET s == r.s \o line
  IN  IF ";" \notin ToSet(line) THEN [r EXCEPT !.s = s]
      ELSE [s |-> <<>>, sqls |-> Append(r.sqls, rtrimc(rtrim(s), ";"))]

(* What no ";" has ended is forgotten.                                     *)
AppendSqlFromFile(s) ==
  LET lines == Lines(s)
      Glued[n \in 0..Len(lines)] ==
        IF n = 0 THEN [s |-> <<>>, sqls |-> <<>>]
        ELSE AppendLine(Glued[n - 1], lines[n])
  IN  Glued[Len(lines)].sqls

-----------------------------------------------------------------------------
(* The author                                                              *)

SqlInit == sql = <<>>

WriteCharacter(c) == Len(sql) < MaxLength /\ sql' = Append(sql, c)

SqlNext == \E c \in Characters : WriteCharacter(c)

SqlSpec == SqlInit /\ [][SqlNext]_sql

-----------------------------------------------------------------------------
(* Properties                                                              *)

(* A word ends before a blank, or where the text ends.                     *)
Words(s) ==
  LET IsEnd(i) == ~IsSpace(s[i]) /\ (i = Len(s) \/ IsSpace(s[i + 1]))
      Start(i) == Max({0} \cup {j \in 1..i : IsSpace(s[j])}) + 1
  IN  FlattenSeq([i \in 1..Len(s) |->
                    IF IsEnd(i) THEN <<SubSeq(s, Start(i), i)>> ELSE <<>>])

(* Nothing but blanks follows a ";" on its line.                           *)
EndsOfLines ==
  \A i \in Places(sql, ";") :
    \A j \in i..Len(sql) :
      (\A k \in i..j : sql[k] # "\n") => j = i \/ IsSpace(sql[j])

Unbroken(s) == Those(s, ToSet(s) \ {"\n"})

(* A broken line has a blank before or after the break.                    *)
WordsUnbroken(statement) == Words(Unbroken(statement)) = Words(statement)

(* Of a file in which every ";" ends its line and words are not joined by  *)
(* breaking one, each ";" gives the statement before it: its words, in     *)
(* order, whatever blank lines, blanks behind the ";", and text without    *)
(* ";" at the end there are.  (Two statements on a line are one.)          *)
StatementsAreRead ==
  LET meant == Ended(sql, ";")
      sqls  == AppendSqlFromFile(sql)
  IN  EndsOfLines
      /\ (\A i \in 1..Len(meant) : Words(meant[i]) # <<>> /\ WordsUnbroken(meant[i]))
      => /\ Len(sqls) = Len(meant)
         /\ \A i \in 1..Len(meant) : Words(sqls[i]) = Words(meant[i])
=============================================================================
