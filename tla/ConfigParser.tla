----------------------------- MODULE ConfigParser -----------------------------
(***************************************************************************)
(* LookaConfigParser (looka_config_parser.cpp): the configuration file is  *)
(* parsed one section after the other; a section may name a parent, whose  *)
(* text is appended to its own; items are looked up in that text.          *)
(*                                                                         *)
(* A section's text is a sequence of lines, each an item with its value or *)
(* Blank (empty, or only a comment). A section that is written on the      *)
(* lines of its braces begins or ends with a line that is not Blank.       *)
(***************************************************************************)
EXTENDS Integers, Sequences, SequencesExt

CONSTANTS
  Tags,          (* "source", "index", "searchd"                            *)
  Names, NoName, (* names of sections; no name, or no parent                *)
  Items,
  Sections,      (* what a file may contain                                 *)
  Malformed,     (* braces or a head that do not parse                      *)
  Blank, NoValue, (* a line without an item; the empty value                *)
  MaxSections    (* bound: sections of a file                               *)

(* A section is [tag, name, parent, lines, opens, closes]: lines are       *)
(* [item, value]; opens if the first one is that of "{", closes if the     *)
(* last one is that of "}". Without lines the braces share one line or     *)
(* stand on two.                                                           *)
ASSUME ConfigAssumption ==
  /\ MaxSections \in Nat /\ NoName \notin Names
  /\ \A sec \in Sections \ {Malformed} :
       /\ sec.tag \in Tags
       /\ sec.lines \in Seq(ToSet(sec.lines))
       /\ sec.lines = <<>> => sec.opens = sec.closes

VARIABLES
  m_sec_info, (* per tag the sections, with the conf they are looked up in  *)
  pc,         (* "parsing", "loaded", or "failed": the program exits        *)
  file        (* history: the sections parsed                               *)

vars == <<m_sec_info, pc, file>>

(* The text between the braces.                                            *)
Conf(sec) ==
  (IF sec.opens THEN <<>> ELSE <<Blank>>)
    \o sec.lines \o (IF sec.closes THEN <<>> ELSE <<Blank>>)

(* Where one text ends and the next begins there is no line break.         *)
Glue(line, next) ==
  IF line = Blank THEN next
  ELSE IF next = Blank THEN line
  ELSE [item |-> line.item, value |-> <<line.value, next.item, next.value>>]

(* "secInfo.conf + vInfo[i].conf"                                          *)
Join(conf, parents) ==
  Front(conf) \o <<Glue(Last(conf), Head(parents))>> \o Tail(parents)

Named(tag, name) ==
  {i \in 1..Len(m_sec_info[tag]) : m_sec_info[tag][i].name = name}

-----------------------------------------------------------------------------
Init ==
  /\ m_sec_info = [t \in Tags |-> <<>>]
  /\ pc = "parsing"
  /\ file = <<>>

Store(sec, conf) ==
  /\ m_sec_info' = [m_sec_info EXCEPT ![sec.tag] =
       Append(@, [name |-> sec.name, parent |-> sec.parent, conf |-> conf])]
  /\ file' = Append(file, sec)
  /\ UNCHANGED pc

(* The section has its braces, a head and a text.                          *)
Readable(sec) == sec # Malformed /\ Conf(sec) # <<>>

(* Mutant of Defined: the name need not be new.                            *)
DefinedNever(sec) == FALSE

Defined(sec) == Named(sec.tag, sec.name) # {}

(* The first section of its tag is stored as it is, with or without a      *)
(* parent.                                                                 *)
First(sec) == m_sec_info[sec.tag] = <<>>

ParseFirst(sec) ==
  /\ pc = "parsing" /\ Readable(sec) /\ First(sec)
  /\ Store(sec, Conf(sec))

ParseAlone(sec) ==
  /\ pc = "parsing" /\ Readable(sec) /\ ~First(sec) /\ ~Defined(sec)
  /\ sec.parent = NoName
  /\ Store(sec, Conf(sec))

(* Mutant of ParseChild: what the parent inherited is not handed on.       *)
ParseChildOfOne(sec) ==
  /\ pc = "parsing" /\ Readable(sec) /\ ~First(sec) /\ ~Defined(sec)
  /\ sec.parent # NoName
  /\ \E k \in 1..Len(file) :
       /\ file[k].tag = sec.tag /\ file[k].name = sec.parent
       /\ Store(sec, Join(Conf(sec), Conf(file[k])))

ParseChild(sec) ==
  /\ pc = "parsing" /\ Readable(sec) /\ ~First(sec) /\ ~Defined(sec)
  /\ sec.parent # NoName
  /\ \E i \in Named(sec.tag, sec.parent) :
       Store(sec, Join(Conf(sec), m_sec_info[sec.tag][i].conf))

(* A malformed section, one without text, a name defined before, or a      *)
(* parent not defined before: LoadConfig fails.                            *)
Reject(sec) ==
  /\ pc = "parsing"
  /\ \/ ~Readable(sec)
     \/ /\ Readable(sec) /\ ~First(sec)
        /\ \/ Defined(sec)
           \/ sec.parent # NoName /\ Named(sec.tag, sec.parent) = {}
  /\ pc' = "failed"
  /\ UNCHANGED <<m_sec_info, file>>

(* No "}" is left; text behind the last one is not looked at.              *)
Load ==
  /\ pc = "parsing"
  /\ pc' = "loaded"
  /\ UNCHANGED <<m_sec_info, file>>

Next ==
  \/ /\ Len(file) < MaxSections
     /\ \E sec \in Sections :
          ParseFirst(sec) \/ ParseAlone(sec) \/ ParseChild(sec) \/ Reject(sec)
  \/ Reject(Malformed)
  \/ Load

Spec == Init /\ [][Next]_vars

-----------------------------------------------------------------------------
(* Looking up                                                              *)

(* GetSectionConf: the first section of that name.                         *)
GetSectionConf(tag, name) ==
  LET i == CHOOSE i \in Named(tag, name) : \A j \in Named(tag, name) : i <= j
  IN  m_sec_info[tag][i].conf

(* AnalyseItem and the comparison of the items.                            *)
IfMatching(line, item) ==
  IF line # Blank /\ line.item = item THEN <<line>> ELSE <<>>

Matching(conf, item) ==
  LET found[n \in 0..Len(conf)] ==
        IF n = 0 THEN <<>> ELSE found[n - 1] \o IfMatching(conf[n], item)
  IN  found[Len(conf)]

(* The values of all lines, and that of the first.                         *)
ReadStringV(tag, name, item) ==
  LET lines == Matching(GetSectionConf(tag, name), item)
  IN  [i \in 1..Len(lines) |-> lines[i].value]

ReadString(tag, name, item) ==
  LET values == ReadStringV(tag, name, item)
  IN  IF values = <<>> THEN NoValue ELSE Head(values)

-----------------------------------------------------------------------------
(* Properties                                                              *)

(* The sections of a file that has been parsed so far, and their lineage:  *)
(* the section itself, its parent, the parent's parent, ...                *)
Parent(k) ==
  {j \in 1..(k - 1) : /\ file[k].parent # NoName
                      /\ file[j].tag = file[k].tag
                      /\ file[j].name = file[k].parent}

Lineage[k \in 1..Len(file)] ==
  IF Parent(k) = {} THEN <<k>>
  ELSE <<k>> \o Lineage[CHOOSE j \in Parent(k) : TRUE]

(* The lines of the lineage.                                               *)
Written[k \in 1..Len(file)] ==
  IF Parent(k) = {} THEN file[k].lines
  ELSE file[k].lines \o Written[CHOOSE j \in Parent(k) : TRUE]

(* No text of the lineage runs into the next one without a line break.     *)
Separate(lineage) ==
  \A n \in 1..(Len(lineage) - 1) :
    ~(file[lineage[n]].closes /\ file[lineage[n + 1]].opens)

(* An item with several values has those of the section and then those of  *)
(* its ancestors, each once per line, however long the lineage and however *)
(* often an item is written; an item with one value has the nearest one,   *)
(* and a value left empty hides the ancestors' values.                     *)
ValuesAccumulate ==
  \A k \in 1..Len(file), item \in Items :
    Separate(Lineage[k]) =>
      LET lines  == Matching(Written[k], item)
          values == [n \in 1..Len(lines) |-> lines[n].value]
      IN  /\ ReadStringV(file[k].tag, file[k].name, item) = values
          /\ ReadString(file[k].tag, file[k].name, item) =
               (IF values = <<>> THEN NoValue ELSE values[1])

(* In a file that is not refused a tag's names are its sections' alone,    *)
(* and a parent is a section of that tag further up. The first section of  *)
(* a tag is not asked for its parent.                                      *)
SectionsAreSound ==
  \A k \in 1..Len(file) :
    /\ \A j \in 1..(k - 1) : file[j].tag = file[k].tag =>
         /\ file[j].name # file[k].name
         /\ file[k].parent # NoName => Parent(k) # {}

(* "[cannot find parent section %s for %s in %s]"                          *)
(* (looka_config_parser.cpp:226): no section is kept whose parent is not   *)
(* there.                                                                  *)
ParentsDefined ==
  \A k \in 1..Len(file) : file[k].parent # NoName => Parent(k) # {}
=============================================================================
