----------------------------- MODULE MarcRecord -----------------------------
(***************************************************************************)
(* MARC records and the formats they are written in and read from          *)
(* (src/src/marcdisp.c, src/src/marc_read_*.c).  Text is a sequence of     *)
(* characters.  A record is a sequence of nodes: leaders, control fields,  *)
(* data fields and comments; a subfield is its code followed by its data.  *)
(* Of a leader only the lengths matter: the indicators, the identifiers,   *)
(* and the two numbers of a directory entry; -1 is a character that is no  *)
(* digit.  Character set conversion is left out: CharConv has it.          *)
(***************************************************************************)
EXTENDS YazTypes

IDFS == "1F"
FS == "1E"
RS == "1D"
MarcDigits == <<"0", "1", "2", "3", "4", "5", "6", "7", "8", "9">>
IsDigit(c) == \E i \in DOMAIN MarcDigits : MarcDigits[i] = c
Letters == {"a", "b", "x"}
IsAlnum(c) == IsDigit(c) \/ c \in Letters

LeaderNode(l) == [which |-> "leader", leader |-> l]
ControlField(tag, data) == [which |-> "control", tag |-> tag, data |-> data]
DataField(tag, ind, subs) == [which |-> "data", tag |-> tag, ind |-> ind, subs |-> subs]
Comment == [which |-> "comment"]
FakeLeader == [ind |-> 2, ident |-> 2, lde |-> 4, ls |-> 5]

IsField(n) == n.which \in {"control", "data"}
FieldsOf(nodes) == SelectSeq(nodes, IsField)

(* yaz_marc_set_leader: impossible lengths are replaced, each with a       *)
(* comment that comes before the leader.                                   *)
SetLeader(l) ==
  [ind |-> IF l.ind < 1 THEN 2 ELSE l.ind, ident |-> IF l.ident < 1 THEN 2 ELSE l.ident,
   lde |-> IF l.lde < 3 THEN 4 ELSE l.lde, ls |-> IF l.ls < 4 THEN 5 ELSE l.ls]
LeaderNodes(l) ==
  LET m == SetLeader(l) IN [i \in 1..Cardinality({f \in DOMAIN l : l[f] # m[f]}) |-> Comment] \o <<LeaderNode(m)>>

(* The leaders of a record: one writer goes by the last, others by the     *)
(* first.                                                                  *)
IsLeader(n) == n.which = "leader"
Leaders(nodes) == SelectSeq(nodes, IsLeader)
FirstLeader(nodes) == Leaders(nodes)[1].leader
LastLeader(nodes) == Last(Leaders(nodes)).leader
HasLeader(nodes) == Leaders(nodes) # <<>>

(* get_subfield_len                                                        *)
CodeLen(leader) == IF leader.ident > 2 THEN leader.ident - 1 ELSE 1
Code(leader, s) == SubSeq(s, 1, Least(CodeLen(leader), Len(s)))
Data(leader, s) == SubSeq(s, CodeLen(leader) + 1, Len(s))

(* A reader that adds to the last data field (yaz_marc_add_subfield).      *)
(* Subfields before any field are lost.                                    *)
AddSubfield(nodes, s) ==
  LET i == Highest({j \in DOMAIN nodes : nodes[j].which = "data"})
  IN IF i = 0 THEN nodes ELSE [nodes EXCEPT ![i].subs = Append(@, s)]

-----------------------------------------------------------------------------
(* ISO 2709.  What comes after the 24 bytes of the leader is bytes.        *)
RECURSIVE DigitsOf(_)
DigitsOf(n) == IF n < 10 THEN <<MarcDigits[n + 1]>> ELSE DigitsOf(n \div 10) \o <<MarcDigits[(n % 10) + 1]>>
Padded(n, w) == LET d == DigitsOf(n) IN [i \in 1..Most(w - Len(d), 0) |-> "0"] \o d
DigitValue(c) == (CHOOSE i \in DOMAIN MarcDigits : MarcDigits[i] = c) - 1
NumberOf(s) == FoldLeft(LAMBDA n, c : 10 * n + DigitValue(c), 0, s)

FieldBytes(n) ==
  IF n.which = "control" THEN n.data \o <<FS>>
  ELSE n.ind \o FlattenSeq([i \in DOMAIN n.subs |-> <<IDFS>> \o n.subs[i]]) \o <<FS>>

(* (mutant) The directory itself does not count.                           *)
DirStep_NoDir(st, n, leader, max) ==
  LET len == Len(FieldBytes(n))
  IN IF st.capped \/ 40 + Len(st.data) + len > max THEN [st EXCEPT !.capped = TRUE]
     ELSE [st EXCEPT !.dir = @ \o n.tag \o Padded(len, leader.lde) \o Padded(Len(st.data), leader.ls), !.data = @ \o FieldBytes(n)]

(* The directory, field by field, until the record would be too long: from *)
(* there on nothing is written.                                            *)
DirStep(st, n, leader, max) ==
  LET len == Len(FieldBytes(n))
  IN IF st.capped \/ Len(st.dir) + 40 + Len(st.data) + len > max THEN [st EXCEPT !.capped = TRUE]
     ELSE [st EXCEPT !.dir = @ \o SubSeq(n.tag, 1, 3) \o Padded(len, leader.lde) \o Padded(Len(st.data), leader.ls),
                     !.data = @ \o FieldBytes(n)]

(* yaz_marc_write_iso2709 of a record with a leader; max is 99999.         *)
WriteIso2709(nodes, max) ==
  LET leader == LastLeader(nodes)
      st == FoldLeft(LAMBDA s, n : DirStep(s, n, leader, max), [dir |-> <<>>, data |-> <<>>, capped |-> FALSE], FieldsOf(nodes))
      base == 24 + Len(st.dir) + 1
  IN [length |-> base + Len(st.data) + 1, leader |-> leader, base |-> base,
      bytes |-> st.dir \o <<FS>> \o st.data \o <<RS>>]

(* yaz_marc_read_iso2709: the end of the directory, 0 when it has none ... *)
RECURSIVE EndOfDirectory(_, _, _)
EndOfDirectory(r, width, p) ==
  IF r.bytes[p - 23] = FS THEN p
  ELSE IF p + width >= r.length THEN 0
  ELSE IF \A i \in 3..(width - 1) : IsDigit(r.bytes[p + i - 23]) THEN EndOfDirectory(r, width, p + width)
  ELSE p

(* ... the subfields between two places of it: a separator before a blank  *)
(* is data ...                                                             *)
SubfieldsAt(r, from, end) ==
  LET stop == Lowest({i \in from..(end - 1) : r.bytes[i - 23] \in {RS, FS}} \cup {end})
      starts == SetToSortSeq({i \in from..(stop - 1) : r.bytes[i - 23] = IDFS /\ i < end - 1 /\ r.bytes[i - 22] # " "}, <)
      ends(k) == IF k = Len(starts) THEN stop ELSE starts[k + 1]
      parts == [k \in DOMAIN starts |-> SubSeq(r.bytes, starts[k] - 22, ends(k) - 24)]
  IN SelectSeq(parts, LAMBDA s : s # <<>>)

(* ... and one field: a 00X field with a separator where a data field has  *)
(* it is a data field too (danMARC).                                       *)
IdentifierFlag(r, tag, i, ind) ==
  LET at(j) == j - 23 \in DOMAIN r.bytes /\ r.bytes[j - 23] = IDFS
  IN CASE SubSeq(tag, 1, 2) # <<"0", "0">> -> 1
       [] ind < 4 /\ at(i + ind) -> 1
       [] ind < 4 /\ at(i + ind + 1) -> 2
       [] OTHER -> 0

ReadField(r, leader, p) ==
  LET tag == SubSeq(r.bytes, p - 23, p - 21)
      len == NumberOf(SubSeq(r.bytes, p - 20, p - 21 + leader.lde))
      off == NumberOf(SubSeq(r.bytes, p - 20 + leader.lde, p - 21 + leader.lde + leader.ls))
      i == off + r.base
      end == i + len - 1
      flag == IdentifierFlag(r, tag, i, leader.ind)
      from == i + flag - 1
      stop == Lowest({j \in i..(end - 1) : r.bytes[j - 23] \in {RS, FS}} \cup {end})
  IN IF len <= 0 \/ end >= r.length THEN <<>>
     ELSE IF flag > 0 THEN <<DataField(tag, SubSeq(r.bytes, from - 23, from - 24 + leader.ind), SubfieldsAt(r, from + leader.ind, end))>>
     ELSE <<ControlField(tag, SubSeq(r.bytes, i - 23, stop - 24))>>

ReadIso2709(r) ==
  LET leader == SetLeader(r.leader)
      width == 3 + leader.lde + leader.ls
      end == EndOfDirectory(r, width, 24)
      n == (end - 24) \div width
      fields == [k \in 1..n |-> ReadField(r, leader, 24 + (k - 1) * width)]
      bad == Lowest({k \in 1..n : fields[k] = <<>>})
  IN IF r.length < 25 \/ r.length > 24 + Len(r.bytes) \/ end = 0 THEN [ok |-> FALSE, nodes |-> <<>>]
     ELSE [ok |-> TRUE, nodes |-> LeaderNodes(r.leader) \o FlattenSeq(IF bad = 0 THEN fields ELSE SubSeq(fields, 1, bad - 1))]

-----------------------------------------------------------------------------
(* Lines.  yaz_marc_write_line of fields, a line each; a comment is a line *)
(* in parentheses.  A leader is a line of its own.                         *)
LineOf(leader, n) ==
  CASE n.which = "data" ->
         n.tag \o <<" ">> \o n.ind
         \o FlattenSeq([i \in DOMAIN n.subs |-> <<" ", "$">> \o Code(leader, n.subs[i]) \o <<" ">> \o Data(leader, n.subs[i])])
    [] n.which = "control" -> n.tag \o <<" ">> \o n.data
    [] n.which = "comment" -> <<"(", ")">>
    [] OTHER -> <<"leader">> \o Padded(n.leader.ind, 1) \o Padded(n.leader.ident, 1) \o Padded(n.leader.lde, 1) \o Padded(n.leader.ls, 1)
WriteLine(nodes) == LET leader == FirstLeader(nodes) IN [i \in DOMAIN nodes |-> LineOf(leader, nodes[i])]

(* yaz_marc_read_line: the subfields that follow a marker.  When there is  *)
(* a blank after the first code, a marker needs a blank before it.         *)
IsMarker(line, j, marker, skip) ==
  j < Len(line) /\ line[j] = marker /\ IsAlnum(line[j + 1]) /\ (skip => line[j - 1] = " ")

LineSubfields(line, start, skip) ==
  LET marks == SetToSortSeq({start} \cup {j \in (start + 1)..Len(line) : IsMarker(line, j, line[start], skip)}, <)
      text(k) == IF k = Len(marks) THEN SubSeq(line, marks[k] + 1, Len(line))
                 ELSE SubSeq(line, marks[k] + 1, marks[k + 1] - (IF skip THEN 2 ELSE 1))
      sub(s) == IF skip /\ Len(s) > 1 /\ s[2] = " " THEN <<s[1]>> \o SubSeq(s, 3, Len(s)) ELSE s
  IN [k \in DOMAIN marks |-> sub(text(k))]

(* Where the subfields of a line start, 0 if it has none.                  *)
LineStart(line) ==
  LET s == IF line[7] = " " THEN 8 ELSE 7
  IN IF Len(line) < 8 \/ ~(s \in DOMAIN line /\ line[s] \in {"$", "_", "*"}) THEN 0 ELSE s

ReadFieldLine(line) ==
  LET tag == SubSeq(line, 1, 3)
      s == LineStart(line)
  IN IF s = 0 THEN ControlField(tag, SubSeq(line, 5, Len(line)))
     ELSE DataField(tag, SubSeq(line, 5, 6), LineSubfields(line, s, s + 2 \in DOMAIN line /\ line[s + 2] = " "))

LineLeader(line) ==
  [ind |-> DigitValue(line[2]), ident |-> DigitValue(line[3]), lde |-> DigitValue(line[4]), ls |-> DigitValue(line[5])]

(* The lines up to the end of the record: a $ or another leader once there *)
(* is one.  A record without a leader gets one at its first field.         *)
ReadLineStep(st, line) ==
  LET led == IF st.header THEN st.nodes ELSE Append(st.nodes, LeaderNode(FakeLeader))
  IN IF st.end THEN st
     ELSE CASE line = <<>> \/ line[1] = "$" -> [st EXCEPT !.end = st.header]
            [] line[1] = "(" -> st
            [] line[1] = "leader" -> IF st.header THEN [st EXCEPT !.end = TRUE]
                                     ELSE [st EXCEPT !.header = TRUE, !.nodes = @ \o LeaderNodes(LineLeader(line))]
            [] Len(line) > 4 /\ \A i \in 1..3 : line[i] # " " /\ line[4] = " " ->
                 [st EXCEPT !.nodes = Append(led, ReadFieldLine(line)), !.header = TRUE]
            [] OTHER -> [st EXCEPT !.nodes = Append(@, Comment)]
ReadLines(lines) ==
  LET st == FoldLeft(ReadLineStep, [nodes |-> <<>>, header |-> FALSE, end |-> FALSE], lines)
  IN [ok |-> st.header, nodes |-> st.nodes]
=============================================================================
