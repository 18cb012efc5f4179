------------------------------ MODULE WebProofs ------------------------------
(***************************************************************************)
(* Proofs about uploads, for any number of them, of any names, to any      *)
(* nodes, with any crashes: no name is taken twice, a file goes only with  *)
(* an upload that is undone, what was accepted is served, and a fetch ends *)
(* with the object that was asked for.                                     *)
(***************************************************************************)
EXTENDS Web, Induction, FiniteSetTheorems

Done == {"added", "200"}

\* A list keeps the whole name.
OneWord(name) == Word(name) = name

IsSeq(s) == \E S : s \in Seq(S)

WebTypes ==
    /\ plan \in Plan
    /\ DOMAIN job = Job /\ up \subseteq Node /\ crashed \in Nat
    /\ DOMAIN table = Node /\ DOMAIN disk = Node
    /\ \A n \in Node : IsSeq(table[n]) /\ IsSeq(disk[n])

\* A name that was added is in the list on disk and, while the node runs, in the
\* one in memory; without a crash also if the list on disk has a part of it only.
Listed ==
    /\ crashed = 0 => up = Node
    /\ \A j \in Job : job[j] \in Done =>
          LET n == Up(j).node
              name == Up(j).name
          IN  /\ OneWord(name) => \E i \in DOMAIN disk[n] : Loaded(disk[n][i])[1] = name
              /\ n \in up /\ (OneWord(name) \/ crashed = 0) => Has(table[n], name)

\* OneUploadWins, from the time the name is in the list.
OneIsAdded ==
    \A i, j \in Job : /\ i # j /\ job[i] \in Done /\ job[j] \in Done
                      /\ Up(i).node = Up(j).node
                      /\ OneWord(Up(i).name) \/ crashed = 0
                      => Up(i).name # Up(j).name

WebOK == WebTypes /\ Listed /\ OneIsAdded

-----------------------------------------------------------------------------
(* Names and lines.                                                        *)

\* Strtok: where a word begins and ends.
LEMMA StrtokWord ==
    ASSUME NEW line, Len(line) \in Nat, NEW from \in Nat, from >= 1,
           NEW first \in from..Len(line), NEW last \in Nat,
           first < last, last <= Len(line) + 1,
           \A i \in from..(first - 1) : line[i] = Space,
           \A i \in first..(last - 1) : line[i] # Space,
           last = Len(line) + 1 \/ line[last] = Space
    PROVE  /\ Strtok(line, from).word = SubSeq(line, first, last - 1)
           /\ Strtok(line, from).next = last
<1> DEFINE starts == {i \in from..Len(line) : line[i] # Space}
           ends == {i \in first..Len(line) + 1 : i = Len(line) + 1 \/ line[i] = Space}
<1>1. first \in starts /\ starts \subseteq Nat /\ \A i \in starts : first <= i
  OBVIOUS
<1>2. Min(starts) = first
  <2>1. Min(starts) \in starts /\ Min(starts) <= first
    BY <1>1, MinNat
  <2> QED
    BY <1>1, <2>1
<1>3. last \in ends /\ ends \subseteq Nat /\ \A i \in ends : last <= i
  OBVIOUS
<1>4. Min(ends) = last
  <2>1. Min(ends) \in ends /\ Min(ends) <= last
    BY <1>3, MinNat
  <2> QED
    BY <1>3, <2>1
<1> QED
  BY <1>1, <1>2, <1>4 DEF Strtok

\* A name without spaces is what is read from the line it was written to.
LEMMA OneWordLine ==
    ASSUME NEW name, IsSeq(name), name # <<>>, OneWord(name), NEW c
    PROVE  /\ Word(Line(name, <<c>>)) = name /\ Loaded(Line(name, <<c>>))[1] = name
           /\ c # Space => Loaded(Line(name, <<c>>))[2] = <<c>>
<1> DEFINE len == Len(name)
           starts == {i \in 1..len : name[i] # Space}
           first == Min(starts)
           ends == {i \in first..len + 1 : i = len + 1 \/ name[i] = Space}
           last == Min(ends)
<1>1. PICK S : name \in Seq(S)
  BY DEF IsSeq
<1>2. len \in Nat /\ len > 0
  BY <1>1
<1>3. starts # {}
  BY DEF OneWord, Word, Strtok
<1>4. first \in starts /\ first \in 1..len /\ name[first] # Space
  BY <1>3, MinNat
<1> HIDE DEF first
<1>5. len + 1 \in ends
  BY <1>2, <1>4
<1>6. last \in ends /\ \A y \in ends : last <= y
  <2>1. ends \subseteq Nat /\ ends # {}
    BY <1>2, <1>4, <1>5
  <2> QED
    BY <2>1, MinNat
<1>7. name = SubSeq(name, first, last - 1)
  BY <1>3 DEF OneWord, Word, Strtok, first
<1> HIDE DEF last
<1>8. last \in first..(len + 1) /\ last # first
  BY <1>2, <1>4, <1>6
<1>9. Len(SubSeq(name, first, last - 1)) = last - first
  BY <1>1, <1>2, <1>4, <1>8
<1>10. first = 1 /\ last = len + 1
  BY <1>2, <1>4, <1>7, <1>8, <1>9
<1>11. \A i \in 1..len : name[i] # Space
  <2> SUFFICES ASSUME NEW i \in 1..len, name[i] = Space PROVE FALSE
    OBVIOUS
  <2>1. i \in ends
    BY <1>2, <1>10
  <2> QED
    BY <1>2, <1>6, <1>10, <2>1
<1> DEFINE line == Line(name, <<c>>)
<1>12. /\ line \in Seq(S \cup {Space, c}) /\ Len(line) = len + 2
       /\ \A i \in 1..len : line[i] = name[i]
       /\ line[len + 1] = Space /\ line[len + 2] = c
  <2>1. /\ name \in Seq(S \cup {Space, c}) /\ <<Space>> \in Seq(S \cup {Space, c})
        /\ <<c>> \in Seq(S \cup {Space, c})
    BY <1>1
  <2> DEFINE front == name \o <<Space>>
  <2>2. /\ front \in Seq(S \cup {Space, c}) /\ Len(front) = len + 1
        /\ \A i \in 1..len : front[i] = name[i]
        /\ front[len + 1] = Space
    BY <1>2, <2>1
  <2> HIDE DEF front
  <2>3. line = front \o <<c>>
    BY DEF Line, front
  <2> HIDE DEF line
  <2> QED
    BY <1>2, <2>1, <2>2, <2>3
<1> HIDE DEF line
<1>13. Strtok(line, 1).word = SubSeq(line, 1, len) /\ Strtok(line, 1).next = len + 1
  <2>1. /\ Len(line) \in Nat /\ 1 \in 1..Len(line) /\ len + 1 \in Nat
        /\ 1 < len + 1 /\ len + 1 <= Len(line) + 1
        /\ \A i \in 1..(1 - 1) : line[i] = Space
        /\ \A i \in 1..((len + 1) - 1) : line[i] # Space
        /\ (len + 1) - 1 = len
    BY <1>2, <1>11, <1>12
  <2>2. /\ Strtok(line, 1).word = SubSeq(line, 1, (len + 1) - 1)
        /\ Strtok(line, 1).next = len + 1
    BY <1>12, <2>1, StrtokWord
  <2> QED
    BY <2>1, <2>2
<1>14. SubSeq(line, 1, len) = name
  <2>1. /\ SubSeq(line, 1, len) \in Seq(S \cup {Space, c}) /\ name \in Seq(S \cup {Space, c})
        /\ Len(SubSeq(line, 1, len)) = len
        /\ \A i \in 1..len : SubSeq(line, 1, len)[i] = line[i]
    BY <1>1, <1>2, <1>12
  <2> QED
    BY <1>12, <2>1
<1>15. ASSUME c # Space PROVE Strtok(line, len + 1).word = <<c>>
  <2>1. /\ Len(line) \in Nat /\ len + 1 \in Nat /\ len + 1 >= 1
        /\ len + 2 \in (len + 1)..Len(line) /\ len + 3 \in Nat
        /\ len + 2 < len + 3 /\ len + 3 <= Len(line) + 1
        /\ len + 3 = Len(line) + 1 /\ (len + 3) - 1 = len + 2
    BY <1>2, <1>12
  <2>2. \A i \in (len + 1)..((len + 2) - 1) : line[i] = Space
    BY <1>2, <1>12
  <2>3. \A i \in (len + 2)..((len + 3) - 1) : line[i] # Space
    BY <1>2, <1>12, <1>15
  <2>4. Strtok(line, len + 1).word = SubSeq(line, len + 2, (len + 3) - 1)
    BY <2>1, <2>2, <2>3, StrtokWord
  <2>5. SubSeq(line, len + 2, len + 2) = <<c>>
    <3> DEFINE w == SubSeq(line, len + 2, len + 2)
    <3>1. w \in Seq(S \cup {Space, c}) /\ Len(w) = 1 /\ w[1] = c
      BY <1>2, <1>12
    <3> HIDE DEF w
    <3>2. w = <<c>>
      BY <3>1
    <3> QED
      BY <3>2 DEF w
  <2> QED
    BY <2>1, <2>4, <2>5
<1>16. /\ Loaded(line)[1] = Strtok(line, 1).word /\ Word(line) = Strtok(line, 1).word
       /\ Loaded(line)[2] = Strtok(line, Strtok(line, 1).next).word
  BY DEF Loaded, Word
<1>17. Word(line) = name /\ Loaded(line)[1] = name /\ (c # Space => Loaded(line)[2] = <<c>>)
  BY <1>13, <1>14, <1>15, <1>16
<1> QED
  BY <1>17 DEF line

-----------------------------------------------------------------------------
(* Lists.                                                                  *)

LEMMA Appended ==
    ASSUME NEW s, IsSeq(s), NEW e
    PROVE  /\ IsSeq(Append(s, e)) /\ Len(s) + 1 \in DOMAIN Append(s, e)
           /\ Append(s, e)[Len(s) + 1] = e
           /\ \A i \in DOMAIN s : i \in DOMAIN Append(s, e) /\ Append(s, e)[i] = s[i]
<1>1. PICK S : s \in Seq(S)
  BY DEF IsSeq
<1>2. Append(s, e) \in Seq(S \cup {e}) /\ s \in Seq(S \cup {e})
  BY <1>1
<1> QED
  BY <1>2 DEF IsSeq

LEMMA Prepended ==
    ASSUME NEW s, IsSeq(s), NEW name, NEW path
    PROVE  LET t == <<<<name, path>>>> \o s
           IN  /\ IsSeq(t)
               /\ Has(t, name)
               /\ \A other : Has(s, other) => Has(t, other)
<1> DEFINE e == <<name, path>>
           t == <<e>> \o s
<1>1. PICK S : s \in Seq(S)
  BY DEF IsSeq
<1> HIDE DEF e
<1>2. s \in Seq(S \cup {e}) /\ <<e>> \in Seq(S \cup {e}) /\ Len(s) \in Nat
  BY <1>1
<1>3. /\ t \in Seq(S \cup {e}) /\ Len(t) = Len(s) + 1 /\ 1 \in DOMAIN t /\ t[1] = e
      /\ \A i \in DOMAIN s : i + 1 \in DOMAIN t /\ t[i + 1] = s[i]
  BY <1>2
<1> HIDE DEF t
<1>4. e \in Range(t) /\ Range(s) \subseteq Range(t)
  BY <1>3 DEF Range
<1>5. e[1] = name
  BY DEF e
<1>6. Has(t, name) /\ \A other : Has(s, other) => Has(t, other)
  BY <1>4, <1>5 DEF Has, Names
<1> QED
  BY <1>3, <1>6 DEF IsSeq, t, e

\* What a node reads at its start is a list, and has the name of every line.
LEMMA ReloadedSeq ==
    ASSUME NEW lines, IsSeq(lines)
    PROVE  IsSeq(Reverse([k \in DOMAIN lines |-> Loaded(lines[k])]))
<1> DEFINE s == [k \in DOMAIN lines |-> Loaded(lines[k])]
           len == Len(lines)
           t == Reverse(s)
<1>1. len \in Nat /\ DOMAIN lines = 1..len
  BY DEF IsSeq
<1>2. DOMAIN s = 1..len /\ Len(s) = len
  BY <1>1
<1> HIDE DEF s, len
<1>3. t = [k \in 1..len |-> s[(len - k) + 1]]
  BY <1>2 DEF Reverse
<1> HIDE DEF t
<1>4. \A k \in 1..len : t[k] \in Range(t)
  BY <1>3 DEF Range
<1>5. t \in Seq(Range(t))
  BY <1>1, <1>3, <1>4
<1> QED
  BY <1>5 DEF IsSeq, t, s

LEMMA Reloaded ==
    ASSUME NEW lines, IsSeq(lines), NEW i \in DOMAIN lines
    PROVE  Has(Reverse([k \in DOMAIN lines |-> Loaded(lines[k])]), Loaded(lines[i])[1])
<1> DEFINE s == [k \in DOMAIN lines |-> Loaded(lines[k])]
           len == Len(lines)
           t == Reverse(s)
<1>1. len \in Nat /\ DOMAIN lines = 1..len
  BY DEF IsSeq
<1>2. DOMAIN s = 1..len /\ Len(s) = len /\ s[i] = Loaded(lines[i])
  BY <1>1
<1> HIDE DEF s, len
<1>3. t = [k \in 1..len |-> s[(len - k) + 1]]
  BY <1>2 DEF Reverse
<1> HIDE DEF t
<1>4. (len - i) + 1 \in 1..len /\ (len - ((len - i) + 1)) + 1 = i
  BY <1>1
<1>5. (len - i) + 1 \in DOMAIN t /\ t[(len - i) + 1] = s[i]
  BY <1>3, <1>4
<1>6. s[i] \in Range(t)
  BY <1>5 DEF Range
<1> QED
  BY <1>2, <1>6 DEF Has, Names, t, s

-----------------------------------------------------------------------------
(* The lists of names.                                                     *)

\* What leaves the lists alone.
Quiet ==
    /\ UNCHANGED <<plan, up, table, disk, crashed>>
    /\ DOMAIN job' = Job
    /\ \A j \in Job : job'[j] \in Done => job[j] \in Done

LEMMA QuietStep == WebOK /\ Quiet => WebOK'
<1> SUFFICES ASSUME WebOK, Quiet PROVE WebOK'
  OBVIOUS
<1>1. WebTypes'
  BY DEF WebOK, WebTypes, Quiet
<1>2. Listed'
  BY DEF WebOK, Listed, Quiet, Up
<1>3. OneIsAdded'
  BY DEF WebOK, OneIsAdded, Quiet, Up
<1> QED
  BY <1>1, <1>2, <1>3 DEF WebOK

LEMMA QuietSteps ==
    ASSUME WebOK, NEW j \in Job,
           \/ Begin(j) \/ Check(j) \/ Save(j) \/ AddNoDaemon(j) \/ AddRefused(j) \/ Finish(j)
    PROVE  Quiet
<1>1. UNCHANGED <<plan, up, table, disk, crashed>>
  BY DEF Begin, Check, Save, AddNoDaemon, AddRefused, Finish, daemon
<1>2. \E from, to : /\ job[j] = from /\ job' = [job EXCEPT ![j] = to]
                    /\ to \in Done => from \in Done
  BY DEF Begin, Check, Save, AddNoDaemon, AddRefused, Finish, Step, Done
<1> QED
  BY <1>1, <1>2 DEF Quiet, WebOK, WebTypes

\* The daemon of a node crashes, and a line of an upload may be in its list on
\* disk without the thread being told so.
LEMMA CrashStep ==
    ASSUME WebOK, NEW n \in Node, NEW jobs, CrashOf(n, jobs), plan' = plan,
           DOMAIN disk' = Node, \A m \in Node : IsSeq(disk'[m]),
           \A m \in Node : \A i \in DOMAIN disk[m] :
               i \in DOMAIN disk'[m] /\ disk'[m][i] = disk[m][i],
           \A j \in Job : jobs[j] \in Done => job[j] \in Done
    PROVE  WebOK'
<1>0. DOMAIN job' = Job /\ \A j \in Job : job'[j] \in Done => job[j] \in Done
  BY DEF CrashOf, Done
<1>1. /\ crashed \in Nat /\ crashed' = crashed + 1 /\ crashed' # 0
      /\ up' = up \ {n} /\ up \subseteq Node
      /\ table' = [table EXCEPT ![n] = <<>>] /\ DOMAIN table = Node
  BY DEF CrashOf, WebOK, WebTypes
<1>2. IsSeq(<<>>)
  BY DEF IsSeq
<1>3. WebTypes'
  BY <1>0, <1>1, <1>2 DEF WebOK, WebTypes
<1>4. \A j \in Job : Up(j).node \in Node
  BY WebAssumption DEF WebOK, WebTypes, Up
<1>5. Listed'
  BY <1>0, <1>1, <1>4 DEF WebOK, Listed, Up
<1>6. OneIsAdded'
  BY <1>0, <1>1 DEF WebOK, OneIsAdded, Up
<1> QED
  BY <1>3, <1>5, <1>6 DEF WebOK

LEMMA RestartStep ==
    ASSUME WebOK, NEW n \in Node, Restart(n)
    PROVE  WebOK'
<1>1. /\ UNCHANGED <<plan, disk, job, crashed>> /\ n \notin up /\ up' = up \cup {n}
      /\ table' = [table EXCEPT ![n] = Reverse([i \in DOMAIN disk[n] |-> Loaded(disk[n][i])])]
      /\ DOMAIN table = Node
  BY DEF Restart, WebOK, WebTypes
<1>2. crashed # 0
  BY <1>1 DEF WebOK, Listed
<1>3. IsSeq(disk[n])
  BY DEF WebOK, WebTypes
<1>4. IsSeq(Reverse([i \in DOMAIN disk[n] |-> Loaded(disk[n][i])]))
  BY <1>3, ReloadedSeq
<1>5. WebTypes'
  BY <1>1, <1>4 DEF WebOK, WebTypes
<1>6. Listed'
  <2> SUFFICES ASSUME NEW j \in Job, job[j] \in Done, Up(j).node \in up', OneWord(Up(j).name)
               PROVE  Has(table'[Up(j).node], Up(j).name)
    BY <1>1, <1>2 DEF WebOK, Listed, Up
  <2>1. Up(j).node \in Node
    BY WebAssumption DEF WebOK, WebTypes, Up
  <2>2. CASE Up(j).node = n
    <3>1. PICK i \in DOMAIN disk[n] : Loaded(disk[n][i])[1] = Up(j).name
      BY <2>2 DEF WebOK, Listed
    <3> QED
      BY <1>1, <1>3, <2>2, <3>1, Reloaded
  <2>3. CASE Up(j).node # n
    BY <1>1, <2>1, <2>3 DEF WebOK, Listed
  <2> QED
    BY <2>2, <2>3
<1>7. OneIsAdded'
  BY <1>1 DEF WebOK, OneIsAdded, Up
<1> QED
  BY <1>5, <1>6, <1>7 DEF WebOK

LEMMA AddStep ==
    ASSUME WebOK, NEW j \in Job, AddDone(j)
    PROVE  WebOK'
<1> DEFINE n == Up(j).node
           name == Up(j).name
           line == Line(name, <<Up(j).content>>)
           t == <<<<name, <<Up(j).content>>>>>> \o table[n]
<1>1. /\ n \in Node /\ name # <<>> /\ IsSeq(name)
      /\ \A i \in Job : Up(i).node \in Node
  BY WebAssumption DEF WebOK, WebTypes, Up, IsSeq
<1>2. plan' = plan /\ n \in up /\ ~Has(table[n], name)
  BY DEF AddDone
<1>3. /\ disk' = [disk EXCEPT ![n] = Append(disk[n], line)]
      /\ DOMAIN disk = Node /\ \A m \in Node : IsSeq(disk[m])
  BY DEF AddDone, AppendLine, WebOK, WebTypes
<1> HIDE DEF line
<1>4. /\ DOMAIN disk' = Node /\ \A m \in Node : IsSeq(disk'[m])
      /\ \A m \in Node : \A i \in DOMAIN disk[m] :
            i \in DOMAIN disk'[m] /\ disk'[m][i] = disk[m][i]
      /\ \E i \in DOMAIN disk'[n] : disk'[n][i] = line
  BY <1>1, <1>3, Appended
<1>5. CASE CrashOf(n, [job EXCEPT ![j] = "noanswer"])
  <2>1. \A i \in Job : [job EXCEPT ![j] = "noanswer"][i] \in Done => job[i] \in Done
    BY DEF Done, WebOK, WebTypes
  <2> QED
    BY <1>1, <1>2, <1>4, <1>5, <2>1, CrashStep
<1>6. CASE Step(j, "add", "added") /\ table' = [table EXCEPT ![n] = t] /\ UNCHANGED <<up, crashed>>
  <2>1. /\ DOMAIN table = Node /\ IsSeq(t) /\ Has(t, name)
        /\ \A other : Has(table[n], other) => Has(t, other)
    BY <1>1, Prepended DEF WebOK, WebTypes
  <2>2. DOMAIN job' = Job /\ \A i \in Job : job'[i] \in Done => job[i] \in Done \/ i = j
    BY <1>6 DEF Step, Done, WebOK, WebTypes
  <2> HIDE DEF t
  <2>3. WebTypes'
    BY <1>1, <1>2, <1>4, <1>6, <2>1, <2>2 DEF WebOK, WebTypes
  <2>4. \A i \in Job : Up(i)' = Up(i)
    BY <1>2 DEF Up
  <2>5. Listed'
    <3>1. ASSUME NEW i \in Job, job'[i] \in Done, OneWord(Up(i).name)
          PROVE  \E k \in DOMAIN disk'[Up(i).node] : Loaded(disk'[Up(i).node][k])[1] = Up(i).name
      <4>1. CASE i = j
        <5>1. Loaded(line)[1] = name
          BY <1>1, <3>1, <4>1, OneWordLine DEF line
        <5> QED
          BY <1>4, <4>1, <5>1
      <4>2. CASE i # j
        <5>1. \E k \in DOMAIN disk[Up(i).node] : Loaded(disk[Up(i).node][k])[1] = Up(i).name
          BY <2>2, <3>1, <4>2 DEF WebOK, Listed
        <5> QED
          BY <1>1, <1>4, <5>1
      <4> QED
        BY <4>1, <4>2
    <3>2. ASSUME NEW i \in Job, job'[i] \in Done, Up(i).node \in up,
                 OneWord(Up(i).name) \/ crashed = 0
          PROVE  Has(table'[Up(i).node], Up(i).name)
      <4>1. CASE i = j
        BY <1>1, <1>6, <2>1, <4>1
      <4>2. CASE i # j
        <5>1. Has(table[Up(i).node], Up(i).name)
          BY <2>2, <3>2, <4>2 DEF WebOK, Listed
        <5> QED
          BY <1>1, <1>6, <2>1, <5>1
      <4> QED
        BY <4>1, <4>2
    <3>3. crashed = 0 => up = Node
      BY DEF WebOK, Listed
    <3> QED
      BY <1>6, <2>4, <3>1, <3>2, <3>3 DEF Listed
  <2>6. OneIsAdded'
    <3> SUFFICES ASSUME NEW i \in Job, NEW k \in Job, i # k,
                        job'[i] \in Done, job'[k] \in Done,
                        Up(i).node = Up(k).node, Up(i).name = Up(k).name,
                        OneWord(Up(i).name) \/ crashed = 0
                 PROVE  FALSE
      BY <1>6, <2>4 DEF OneIsAdded
    <3>1. CASE i # j /\ k # j
      BY <2>2, <3>1 DEF WebOK, OneIsAdded
    <3>2. CASE i = j \/ k = j
      <4>1. PICK other \in Job : /\ job[other] \in Done
                                 /\ Up(other).node = n /\ Up(other).name = name
        BY <2>2, <3>2
      <4>2. Has(table[n], name)
        BY <1>2, <3>2, <4>1 DEF WebOK, Listed
      <4> QED
        BY <1>2, <4>2
    <3> QED
      BY <3>1, <3>2
  <2> QED
    BY <2>3, <2>5, <2>6 DEF WebOK
<1> QED
  BY <1>5, <1>6 DEF AddDone

\* The daemon crashes and an upload goes on as one that was not accepted.
LEMMA UnhandledStep ==
    ASSUME WebOK, NEW j \in Job, AddUnhandled(j)
    PROVE  WebOK'
<1>1. PICK to \in {"noanswer", "500"} : CrashOf(Up(j).node, [job EXCEPT ![j] = to])
  BY DEF AddUnhandled
<1>2. Up(j).node \in Node
  BY WebAssumption DEF WebOK, WebTypes, Up
<1>3. plan' = plan /\ disk' = disk
  BY DEF AddUnhandled
<1>4. \A i \in Job : [job EXCEPT ![j] = to][i] \in Done => job[i] \in Done
  BY DEF Done, WebOK, WebTypes
<1>5. DOMAIN disk = Node /\ \A m \in Node : IsSeq(disk[m])
  BY DEF WebOK, WebTypes
<1> QED
  BY <1>1, <1>2, <1>3, <1>4, <1>5, CrashStep

LEMMA WebInvariance == Spec => []WebOK
<1>1. Init => WebOK
  <2> SUFFICES ASSUME Init PROVE WebOK
    OBVIOUS
  <2>1. WebTypes
    BY DEF Init, WebTypes, IsSeq
  <2>2. Listed /\ OneIsAdded
    BY DEF Init, Listed, OneIsAdded, Done
  <2> QED
    BY <2>1, <2>2 DEF WebOK
<1>2. WebOK /\ [Next]_vars => WebOK'
  <2> SUFFICES ASSUME WebOK, [Next]_vars PROVE WebOK'
    OBVIOUS
  <2>1. ASSUME NEW n \in Node, Crash(n) PROVE WebOK'
    <3>1. CrashOf(n, job) /\ UNCHANGED <<plan, disk>>
      BY <2>1 DEF Crash
    <3>2. DOMAIN disk = Node /\ \A m \in Node : IsSeq(disk[m])
      BY DEF WebOK, WebTypes
    <3> QED
      BY <3>1, <3>2, CrashStep
  <2>2. ASSUME NEW n \in Node, Restart(n) PROVE WebOK'
    BY <2>2, RestartStep
  <2>3. ASSUME NEW j \in Job, Upload(j) PROVE WebOK'
    BY <2>3, AddStep, UnhandledStep, QuietSteps, QuietStep DEF Upload
  <2>4. CASE \/ \E n, m \in Node : Learn(n, m)
             \/ \E n \in Node, name \in {a[2] : a \in plan.ask} : Ask(n, name)
             \/ Hop
    <3>1. UNCHANGED <<plan, up, table, disk, job, crashed>>
      BY <2>4 DEF Learn, Ask, Hop
    <3>2. Quiet
      BY <3>1 DEF Quiet, WebOK, WebTypes
    <3> QED
      BY <3>2, QuietStep
  <2>5. CASE UNCHANGED vars
    <3>1. Quiet
      BY <2>5 DEF vars, Quiet, WebOK, WebTypes
    <3> QED
      BY <3>1, QuietStep
  <2> QED
    BY <2>1, <2>2, <2>3, <2>4, <2>5 DEF Next
<1> QED
  BY <1>1, <1>2, PTL DEF Spec

\* Of two uploads of one name to a node only one is answered 200, although each
\* asks for the name in one request and adds it in another, and although the
\* daemon may crash and read its list again in between.
THEOREM OneUploadWinsInvariance == Spec => []OneUploadWins
<1>1. WebOK => OneUploadWins
  BY DEF WebOK, OneIsAdded, OneUploadWins, OneWord, Done
<1> QED
  BY <1>1, WebInvariance, PTL

-----------------------------------------------------------------------------
(* The files of objects.                                                   *)

\* Where a thread has saved its file and not removed it.
HasSaved == {"add", "added", "200", "refused", "noanswer"}

\* FileBehindObject, from the time the file is saved.
FilesOK ==
    \A j \in Job :
        job[j] \in HasSaved /\ Up(j).content \notin static[Up(j).node]
          => \E i \in Job \ {j} : /\ job[i] \in {"undone", "lost"}
                                  /\ Up(i).node = Up(j).node
                                  /\ Up(i).content = Up(j).content

FileTypes == plan \in Plan /\ DOMAIN job = Job /\ DOMAIN static = Node

FilesInv == FileTypes /\ FilesOK

\* An upload that ends badly takes its file with it; the others of that content
\* have an upload that was undone to point to.
LEMMA FinishFiles ==
    ASSUME FilesInv, NEW j \in Job, Finish(j)
    PROVE  FilesInv'
<1>1. /\ plan' = plan /\ \A i \in Job : Up(i)' = Up(i)
      /\ DOMAIN job = Job /\ DOMAIN static = Node
      /\ \A i \in Job : Up(i).node \in Node
  BY WebAssumption DEF Finish, daemon, FilesInv, FileTypes, Up
<1>2. CASE Step(j, "added", "200")
  <2>1. static' = [static EXCEPT ![Up(j).node] = static[Up(j).node]]
    BY <1>2 DEF Finish, Undo, Step
  <2>2. \A m \in Node : static'[m] = static[m]
    BY <1>1, <2>1
  <2>3. /\ job' = [job EXCEPT ![j] = "200"] /\ job[j] = "added"
        /\ \A i \in Job : job'[i] \in HasSaved <=> job[i] \in HasSaved
        /\ \A i \in Job : job[i] \in {"undone", "lost"} => job'[i] = job[i]
    BY <1>1, <1>2 DEF Step, HasSaved
  <2> QED
    BY <1>1, <2>1, <2>2, <2>3 DEF FilesInv, FileTypes, FilesOK
<1>3. CASE Step(j, "refused", "undone") \/ Step(j, "noanswer", "lost")
  <2>1. /\ job[j] # "added" /\ job'[j] \in {"undone", "lost"}
        /\ DOMAIN job' = Job
        /\ \A i \in Job \ {j} : job'[i] = job[i]
        /\ job[j] \notin {"undone", "lost"}
    BY <1>1, <1>3 DEF Step
  <2>2. static' = [static EXCEPT ![Up(j).node] = static[Up(j).node] \ {Up(j).content}]
    BY <2>1 DEF Finish, Undo
  <2>3. ASSUME NEW k \in Job, job'[k] \in HasSaved, Up(k).content \notin static'[Up(k).node]
        PROVE  \E i \in Job \ {k} : /\ job'[i] \in {"undone", "lost"}
                                    /\ Up(i).node = Up(k).node
                                    /\ Up(i).content = Up(k).content
    <3>1. k # j /\ job[k] \in HasSaved
      BY <2>1, <2>3 DEF HasSaved
    <3>2. CASE Up(k).content \notin static[Up(k).node]
      <4>1. PICK i \in Job \ {k} : /\ job[i] \in {"undone", "lost"}
                                   /\ Up(i).node = Up(k).node
                                   /\ Up(i).content = Up(k).content
        BY <3>1, <3>2 DEF FilesInv, FilesOK
      <4> QED
        BY <2>1, <4>1
    <3>3. CASE Up(k).content \in static[Up(k).node]
      <4>1. Up(k).node = Up(j).node /\ Up(k).content = Up(j).content
        BY <1>1, <2>2, <2>3, <3>3
      <4> QED
        BY <2>1, <3>1, <4>1
    <3> QED
      BY <3>2, <3>3
  <2> QED
    BY <1>1, <2>1, <2>2, <2>3 DEF FilesInv, FileTypes, FilesOK
<1> QED
  BY <1>2, <1>3 DEF Finish

\* A crash takes no file, and undoes no upload yet.
LEMMA CrashFiles ==
    ASSUME FilesInv, NEW n, NEW jobs, CrashOf(n, jobs), UNCHANGED <<plan, static>>,
           \A i \in Job : jobs[i] \in HasSaved => job[i] \in HasSaved,
           \A i \in Job : job[i] \in {"undone", "lost"} => jobs[i] = job[i]
    PROVE  FilesInv'
<1>1. /\ DOMAIN job' = Job
      /\ \A i \in Job : job'[i] = jobs[i] \/ (jobs[i] = "check" /\ job'[i] = "cut")
  BY DEF CrashOf
<1>2. /\ \A i \in Job : job'[i] \in HasSaved => job[i] \in HasSaved
      /\ \A i \in Job : job[i] \in {"undone", "lost"} => job'[i] = job[i]
  BY <1>1 DEF HasSaved
<1>3. \A i \in Job : Up(i)' = Up(i)
  BY DEF Up
<1> QED
  BY <1>1, <1>2, <1>3 DEF FilesInv, FileTypes, FilesOK

LEMMA UploadFiles ==
    ASSUME FilesInv, NEW j \in Job, Upload(j)
    PROVE  FilesInv'
<1>1. DOMAIN job = Job /\ DOMAIN static = Node /\ \A i \in Job : Up(i).node \in Node
  BY WebAssumption DEF FilesInv, FileTypes, Up
<1>2. CASE Save(j)
  <2>1. /\ plan' = plan /\ \A i \in Job : Up(i)' = Up(i)
        /\ static' = [static EXCEPT ![Up(j).node] = static[Up(j).node] \cup {Up(j).content}]
        /\ job[j] = "save" /\ job' = [job EXCEPT ![j] = "add"]
    BY <1>2 DEF Save, Step, daemon, Up
  <2>2. ASSUME NEW k \in Job, job'[k] \in HasSaved, Up(k).content \notin static'[Up(k).node]
        PROVE  \E i \in Job \ {k} : /\ job'[i] \in {"undone", "lost"}
                                    /\ Up(i).node = Up(k).node
                                    /\ Up(i).content = Up(k).content
    <3>1. k # j /\ job[k] \in HasSaved /\ Up(k).content \notin static[Up(k).node]
      BY <1>1, <2>1, <2>2
    <3>2. PICK i \in Job \ {k} : /\ job[i] \in {"undone", "lost"}
                                 /\ Up(i).node = Up(k).node
                                 /\ Up(i).content = Up(k).content
      BY <3>1 DEF FilesInv, FilesOK
    <3>3. job'[i] = job[i]
      BY <1>1, <2>1, <3>2
    <3> QED
      BY <3>2, <3>3
  <2> QED
    BY <1>1, <2>1, <2>2 DEF FilesInv, FileTypes, FilesOK
<1>3. CASE Finish(j)
  BY <1>3, FinishFiles
<1> DEFINE Made == job[j] = "add" /\ job' = [job EXCEPT ![j] = "added"]
<1>4. ASSUME NEW to \in {"noanswer", "500"}, job[j] = "add",
             CrashOf(Up(j).node, [job EXCEPT ![j] = to]), UNCHANGED <<plan, static>>
      PROVE  FilesInv'
  <2>1. /\ \A i \in Job : [job EXCEPT ![j] = to][i] \in HasSaved => job[i] \in HasSaved
        /\ \A i \in Job : job[i] \in {"undone", "lost"} => [job EXCEPT ![j] = to][i] = job[i]
    BY <1>1, <1>4 DEF HasSaved
  <2> QED
    BY <1>4, <2>1, CrashFiles
<1>5. AddUnhandled(j) => FilesInv'
  BY <1>4 DEF AddUnhandled
<1>6. AddDone(j) => FilesInv' \/ (Made /\ UNCHANGED <<plan, static>>)
  BY <1>4 DEF AddDone, Step
<1>7. CASE Begin(j) \/ Check(j) \/ AddNoDaemon(j) \/ AddRefused(j)
           \/ (Made /\ UNCHANGED <<plan, static>>)
  <2>1. /\ plan' = plan /\ \A i \in Job : Up(i)' = Up(i)
        /\ static' = static
    BY <1>7 DEF Begin, Check, AddNoDaemon, AddRefused, daemon, Up
  <2>2. PICK from, to : /\ job[j] = from /\ job' = [job EXCEPT ![j] = to]
                        /\ to \in HasSaved => from \in HasSaved
                        /\ from \notin {"undone", "lost"}
    BY <1>7 DEF Begin, Check, AddNoDaemon, AddRefused, Step, HasSaved
  <2>3. /\ DOMAIN job' = Job
        /\ \A i \in Job : job'[i] \in HasSaved => job[i] \in HasSaved
        /\ \A i \in Job : job[i] \in {"undone", "lost"} => job'[i] = job[i]
    BY <1>1, <2>2
  <2> QED
    BY <1>1, <2>1, <2>3 DEF FilesInv, FileTypes, FilesOK
<1> QED
  BY <1>2, <1>3, <1>5, <1>6, <1>7 DEF Upload

\* The file of an object that is in the list is there, unless another upload of
\* the same content was undone, or one of which the answer was lost in a crash.
THEOREM FileBehindObjectInvariance == Spec => []FileBehindObject
<1>1. Init => FilesInv
  BY DEF Init, FilesInv, FileTypes, FilesOK, HasSaved
<1>2. FilesInv /\ [Next]_vars => FilesInv'
  <2> SUFFICES ASSUME FilesInv, [Next]_vars PROVE FilesInv'
    OBVIOUS
  <2>1. ASSUME NEW j \in Job, Upload(j) PROVE FilesInv'
    BY <2>1, UploadFiles
  <2>2. ASSUME NEW n \in Node, Crash(n) PROVE FilesInv'
    BY <2>2, CrashFiles DEF Crash
  <2>3. CASE ~(\E j \in Job : Upload(j)) /\ ~(\E n \in Node : Crash(n))
    <3>1. UNCHANGED <<plan, job, static>>
      BY <2>3 DEF Next, Restart, Learn, Ask, Hop, vars
    <3> QED
      BY <3>1 DEF FilesInv, FileTypes, FilesOK, Up
  <2> QED
    BY <2>1, <2>2, <2>3
<1>3. FilesInv => FileBehindObject
  BY DEF FilesInv, FilesOK, FileBehindObject, HasSaved
<1> QED
  BY <1>1, <1>2, <1>3, PTL DEF Spec

-----------------------------------------------------------------------------
(* What the lists of a node are made of.                                   *)

\* The line of an upload, and its entry while the node that took it runs.
LineOf(j) == Line(Up(j).name, <<Up(j).content>>)
EntryOf(j) == <<Up(j).name, <<Up(j).content>>>>

\* Entry e is what node n has in memory for a line on disk.
FromLine(n, e, line) ==
    \/ crashed > 0 /\ e = Loaded(line)
    \/ \E j \in Job : Up(j).node = n /\ line = LineOf(j) /\ e = EntryOf(j)

\* Every upload that was added has its line, every line an upload, and every
\* entry in memory a line.
Backed ==
    /\ \A j \in Job : job[j] \in Done =>
          \E i \in DOMAIN disk[Up(j).node] : disk[Up(j).node][i] = LineOf(j)
    /\ \A n \in Node : \A i \in DOMAIN disk[n] :
          \E j \in Job : Up(j).node = n /\ disk[n][i] = LineOf(j)
    /\ \A n \in Node : \A k \in DOMAIN table[n] :
          \E i \in DOMAIN disk[n] : FromLine(n, table[n][k], disk[n][i])

\* What a step does to the lists: lines are only added, and each new line or
\* entry has an upload or a line behind it.
Extended ==
    /\ plan' = plan /\ (crashed > 0 => crashed' > 0)
    /\ \A n \in Node : \A i \in DOMAIN disk[n] :
          i \in DOMAIN disk'[n] /\ disk'[n][i] = disk[n][i]
    /\ \A n \in Node : \A i \in DOMAIN disk'[n] :
          \/ i \in DOMAIN disk[n]
          \/ \E j \in Job : Up(j).node = n /\ disk'[n][i] = LineOf(j)
    /\ \A n \in Node : \A k \in DOMAIN table'[n] :
          \/ \E l \in DOMAIN table[n] : table'[n][k] = table[n][l]
          \/ \E i \in DOMAIN disk'[n] : FromLine(n, table'[n][k], disk'[n][i])
    /\ \A j \in Job : job'[j] \in Done =>
          \/ job[j] \in Done
          \/ \E i \in DOMAIN disk'[Up(j).node] : disk'[Up(j).node][i] = LineOf(j)

LEMMA ExtendedStep ==
    ASSUME WebTypes, Backed, Extended
    PROVE  Backed'
<1>1. \A j \in Job : /\ Up(j)' = Up(j) /\ LineOf(j)' = LineOf(j)
                     /\ EntryOf(j)' = EntryOf(j) /\ Up(j).node \in Node
  BY WebAssumption DEF Extended, Up, LineOf, EntryOf, WebTypes
<1>3. ASSUME NEW j \in Job, job'[j] \in Done
      PROVE  \E i \in DOMAIN disk'[Up(j).node] : disk'[Up(j).node][i] = LineOf(j)
  <2>1. CASE job[j] \in Done
    <3>1. PICK i \in DOMAIN disk[Up(j).node] : disk[Up(j).node][i] = LineOf(j)
      BY <2>1 DEF Backed
    <3> QED
      BY <1>1, <3>1 DEF Extended
  <2> QED
    BY <1>3, <2>1 DEF Extended
<1>4. ASSUME NEW n \in Node, NEW i \in DOMAIN disk'[n]
      PROVE  \E j \in Job : Up(j).node = n /\ disk'[n][i] = LineOf(j)
  <2>1. CASE i \in DOMAIN disk[n]
    BY <1>4, <2>1 DEF Backed, Extended
  <2> QED
    BY <1>4, <2>1 DEF Extended
<1>5. ASSUME NEW n \in Node, NEW k \in DOMAIN table'[n]
      PROVE  \E i \in DOMAIN disk'[n] : FromLine(n, table'[n][k], disk'[n][i])
  <2>1. ASSUME NEW l \in DOMAIN table[n], table'[n][k] = table[n][l]
        PROVE  \E i \in DOMAIN disk'[n] : FromLine(n, table'[n][k], disk'[n][i])
    <3>1. PICK i \in DOMAIN disk[n] : FromLine(n, table[n][l], disk[n][i])
      BY <2>1 DEF Backed
    <3>2. i \in DOMAIN disk'[n] /\ disk'[n][i] = disk[n][i]
      BY <3>1 DEF Extended
    <3> QED
      BY <2>1, <3>1, <3>2
  <2> QED
    BY <1>5, <2>1 DEF Extended
<1>6. \A n \in Node : \A k \in DOMAIN table'[n] : \E i \in DOMAIN disk'[n] :
          \/ crashed' > 0 /\ table'[n][k] = Loaded(disk'[n][i])
          \/ \E j \in Job : /\ Up(j)'.node = n /\ disk'[n][i] = LineOf(j)'
                            /\ table'[n][k] = EntryOf(j)'
  <2> SUFFICES ASSUME NEW n \in Node, NEW k \in DOMAIN table'[n]
               PROVE  \E i \in DOMAIN disk'[n] :
                  \/ crashed' > 0 /\ table'[n][k] = Loaded(disk'[n][i])
                  \/ \E j \in Job : /\ Up(j)'.node = n /\ disk'[n][i] = LineOf(j)'
                                    /\ table'[n][k] = EntryOf(j)'
    OBVIOUS
  <2>1. PICK i \in DOMAIN disk'[n] : FromLine(n, table'[n][k], disk'[n][i])
    BY <1>5
  <2> QED
    BY <1>1, <2>1 DEF FromLine, Extended
<1>7. \A j \in Job : job'[j] \in Done =>
          \E i \in DOMAIN disk'[Up(j)'.node] : disk'[Up(j)'.node][i] = LineOf(j)'
  BY <1>1, <1>3
<1>8. \A n \in Node : \A i \in DOMAIN disk'[n] :
          \E j \in Job : Up(j)'.node = n /\ disk'[n][i] = LineOf(j)'
  BY <1>1, <1>4
<1> QED
  BY <1>6, <1>7, <1>8 DEF Backed, FromLine

LEMMA AppendedOnly ==
    ASSUME NEW s, IsSeq(s), NEW e
    PROVE  \A i \in DOMAIN Append(s, e) : i \in DOMAIN s \/ Append(s, e)[i] = e
<1>1. PICK S : s \in Seq(S)
  BY DEF IsSeq
<1>2. Append(s, e) \in Seq(S \cup {e}) /\ s \in Seq(S \cup {e})
  BY <1>1
<1> QED
  BY <1>2

LEMMA PrependedOnly ==
    ASSUME NEW s, IsSeq(s), NEW e
    PROVE  \A k \in DOMAIN (<<e>> \o s) :
               (<<e>> \o s)[k] = e \/ \E l \in DOMAIN s : (<<e>> \o s)[k] = s[l]
<1> DEFINE t == <<e>> \o s
<1>1. PICK S : s \in Seq(S)
  BY DEF IsSeq
<1>2. s \in Seq(S \cup {e}) /\ <<e>> \in Seq(S \cup {e}) /\ Len(s) \in Nat
  BY <1>1
<1>3. /\ DOMAIN t = 1..(Len(s) + 1) /\ t[1] = e /\ DOMAIN s = 1..Len(s)
      /\ \A k \in 2..(Len(s) + 1) : t[k] = s[k - 1]
  BY <1>2
<1> HIDE DEF t
<1>4. \A k \in DOMAIN t : t[k] = e \/ \E l \in DOMAIN s : t[k] = s[l]
  <2> SUFFICES ASSUME NEW k \in DOMAIN t, k # 1 PROVE \E l \in DOMAIN s : t[k] = s[l]
    BY <1>3
  <2>1. k \in 2..(Len(s) + 1) /\ k - 1 \in 1..Len(s)
    BY <1>2, <1>3
  <2> QED
    BY <1>3, <2>1
<1> QED
  BY <1>4 DEF t

LEMMA ReloadedOnly ==
    ASSUME NEW lines, IsSeq(lines)
    PROVE  LET t == Reverse([k \in DOMAIN lines |-> Loaded(lines[k])])
           IN  \A k \in DOMAIN t : \E i \in DOMAIN lines : t[k] = Loaded(lines[i])
<1> DEFINE s == [k \in DOMAIN lines |-> Loaded(lines[k])]
           len == Len(lines)
           t == Reverse(s)
<1>1. len \in Nat /\ DOMAIN lines = 1..len
  BY DEF IsSeq
<1>2. DOMAIN s = 1..len /\ Len(s) = len /\ \A i \in 1..len : s[i] = Loaded(lines[i])
  BY <1>1
<1> HIDE DEF s, len
<1>3. t = [k \in 1..len |-> s[(len - k) + 1]]
  BY <1>2 DEF Reverse
<1> HIDE DEF t
<1>4. \A k \in DOMAIN t : \E i \in DOMAIN lines : t[k] = Loaded(lines[i])
  <2> SUFFICES ASSUME NEW k \in 1..len
               PROVE  \E i \in DOMAIN lines : t[k] = Loaded(lines[i])
    BY <1>3
  <2>1. (len - k) + 1 \in 1..len
    BY <1>1
  <2>2. t[k] = Loaded(lines[(len - k) + 1])
    BY <1>2, <1>3, <2>1
  <2> QED
    BY <1>1, <2>1, <2>2
<1> QED
  BY <1>4 DEF t, s

LEMMA CrashExtends ==
    ASSUME WebOK, NEW n \in Node, NEW jobs, CrashOf(n, jobs), plan' = plan,
           \A m \in Node : \A i \in DOMAIN disk[m] :
               i \in DOMAIN disk'[m] /\ disk'[m][i] = disk[m][i],
           \A m \in Node : \A i \in DOMAIN disk'[m] :
               \/ i \in DOMAIN disk[m]
               \/ \E j \in Job : Up(j).node = m /\ disk'[m][i] = LineOf(j),
           \A j \in Job : jobs[j] \in Done => job[j] \in Done
    PROVE  Extended
<1>0. \A j \in Job : job'[j] \in Done => job[j] \in Done
  BY DEF CrashOf, Done
<1>1. crashed' > 0
  BY DEF CrashOf, WebOK, WebTypes
<1>2. \A m \in Node : \A k \in DOMAIN table'[m] :
          k \in DOMAIN table[m] /\ table'[m][k] = table[m][k]
  BY DEF CrashOf, WebOK, WebTypes
<1>3. \A m \in Node : \A k \in DOMAIN table'[m] :
          \E l \in DOMAIN table[m] : table'[m][k] = table[m][l]
  BY <1>2
<1> QED
  BY <1>0, <1>1, <1>3 DEF Extended

LEMMA RestartExtends ==
    ASSUME WebOK, NEW n \in Node, Restart(n)
    PROVE  Extended
<1> DEFINE t == Reverse([i \in DOMAIN disk[n] |-> Loaded(disk[n][i])])
<1>1. /\ UNCHANGED <<plan, disk, job, crashed>> /\ n \notin up
      /\ table' = [table EXCEPT ![n] = t] /\ DOMAIN table = Node
      /\ IsSeq(disk[n]) /\ crashed \in Nat /\ crashed # 0
  BY DEF Restart, WebOK, WebTypes, Listed
<1>2. \A k \in DOMAIN t : \E i \in DOMAIN disk[n] : t[k] = Loaded(disk[n][i])
  BY <1>1, ReloadedOnly
<1> HIDE DEF t
<1>3. ASSUME NEW m \in Node, NEW k \in DOMAIN table'[m]
      PROVE  \/ \E l \in DOMAIN table[m] : table'[m][k] = table[m][l]
             \/ \E i \in DOMAIN disk'[m] : FromLine(m, table'[m][k], disk'[m][i])
  <2>1. CASE m = n
    <3>1. table'[m] = t
      BY <1>1, <2>1
    <3>2. PICK i \in DOMAIN disk[n] : t[k] = Loaded(disk[n][i])
      BY <1>2, <1>3, <3>1
    <3>3. crashed > 0
      BY <1>1
    <3> QED
      BY <1>1, <2>1, <3>1, <3>2, <3>3 DEF FromLine
  <2>2. CASE m # n
    BY <1>1, <1>3, <2>2
  <2> QED
    BY <2>1, <2>2
<1> QED
  BY <1>1, <1>3 DEF Extended

LEMMA AddExtends ==
    ASSUME WebOK, NEW j \in Job, AddDone(j)
    PROVE  Extended
<1> DEFINE n == Up(j).node
           t == <<EntryOf(j)>> \o table[n]
<1>1. /\ plan' = plan /\ n \in Node
      /\ disk' = [disk EXCEPT ![n] = Append(disk[n], LineOf(j))]
      /\ DOMAIN disk = Node /\ \A m \in Node : IsSeq(disk[m])
      /\ DOMAIN table = Node /\ IsSeq(table[n]) /\ DOMAIN job = Job
  BY WebAssumption DEF AddDone, AppendLine, LineOf, WebOK, WebTypes, Up
<1>2. /\ Len(disk[n]) + 1 \in DOMAIN disk'[n] /\ disk'[n][Len(disk[n]) + 1] = LineOf(j)
      /\ \A i \in DOMAIN disk[n] : i \in DOMAIN disk'[n] /\ disk'[n][i] = disk[n][i]
      /\ \A i \in DOMAIN disk'[n] : i \in DOMAIN disk[n] \/ disk'[n][i] = LineOf(j)
  <2>1. disk'[n] = Append(disk[n], LineOf(j))
    BY <1>1
  <2> QED
    BY <1>1, <2>1, Appended, AppendedOnly
<1>3. /\ \A m \in Node : \A i \in DOMAIN disk[m] :
            i \in DOMAIN disk'[m] /\ disk'[m][i] = disk[m][i]
      /\ \A m \in Node : \A i \in DOMAIN disk'[m] :
            \/ i \in DOMAIN disk[m]
            \/ \E k \in Job : Up(k).node = m /\ disk'[m][i] = LineOf(k)
  BY <1>1, <1>2
<1>4. CASE CrashOf(n, [job EXCEPT ![j] = "noanswer"])
  <2>1. \A i \in Job : [job EXCEPT ![j] = "noanswer"][i] \in Done => job[i] \in Done
    BY <1>1 DEF Done
  <2> QED
    BY <1>1, <1>3, <1>4, <2>1, CrashExtends
<1>5. CASE Step(j, "add", "added") /\ table' = [table EXCEPT ![n] = t] /\ UNCHANGED crashed
  <2>1. \A i \in Job : job'[i] \in Done => job[i] \in Done \/ i = j
    BY <1>1, <1>5 DEF Step, Done
  <2>2. \A k \in DOMAIN t : t[k] = EntryOf(j) \/ \E l \in DOMAIN table[n] : t[k] = table[n][l]
    BY <1>1, PrependedOnly
  <2> HIDE DEF t
  <2>3. ASSUME NEW m \in Node, NEW k \in DOMAIN table'[m]
        PROVE  \/ \E l \in DOMAIN table[m] : table'[m][k] = table[m][l]
               \/ \E i \in DOMAIN disk'[m] : FromLine(m, table'[m][k], disk'[m][i])
    <3>1. CASE m = n
      <4>1. table'[m] = t
        BY <1>1, <1>5, <3>1
      <4>2. CASE t[k] = EntryOf(j)
        <5>1. FromLine(n, t[k], LineOf(j))
          BY <4>2 DEF FromLine
        <5> QED
          BY <1>2, <3>1, <4>1, <5>1
      <4> QED
        BY <2>2, <2>3, <3>1, <4>1, <4>2
    <3>2. CASE m # n
      BY <1>1, <1>5, <2>3, <3>2
    <3> QED
      BY <3>1, <3>2
  <2> QED
    BY <1>1, <1>2, <1>3, <1>5, <2>1, <2>3 DEF Extended
<1> QED
  BY <1>4, <1>5 DEF AddDone, EntryOf

LEMMA UnhandledExtends ==
    ASSUME WebOK, NEW j \in Job, AddUnhandled(j)
    PROVE  Extended
<1>1. PICK to \in {"noanswer", "500"} : CrashOf(Up(j).node, [job EXCEPT ![j] = to])
  BY DEF AddUnhandled
<1>2. Up(j).node \in Node /\ plan' = plan /\ disk' = disk
  BY WebAssumption DEF AddUnhandled, WebOK, WebTypes, Up
<1>3. \A i \in Job : [job EXCEPT ![j] = to][i] \in Done => job[i] \in Done
  BY DEF Done, WebOK, WebTypes
<1> QED
  BY <1>1, <1>2, <1>3, CrashExtends

\* What the other steps do to the lists.
LEMMA QuietExtends ==
    ASSUME WebOK, Quiet
    PROVE  Extended
<1>1. \A n \in Node : \A k \in DOMAIN table'[n] :
          \E l \in DOMAIN table[n] : table'[n][k] = table[n][l]
  BY DEF Quiet
<1> QED
  BY <1>1 DEF Quiet, Extended

LEMMA EveryStep ==
    ASSUME WebOK, [Next]_vars
    PROVE  Extended
<1>1. ASSUME NEW n \in Node, Crash(n) PROVE Extended
  BY <1>1, CrashExtends DEF Crash
<1>2. ASSUME NEW n \in Node, Restart(n) PROVE Extended
  BY <1>2, RestartExtends
<1>3. ASSUME NEW j \in Job, Upload(j) PROVE Extended
  BY <1>3, AddExtends, UnhandledExtends, QuietSteps, QuietExtends DEF Upload
<1>4. CASE \/ \E n, m \in Node : Learn(n, m)
           \/ \E n \in Node, name \in {a[2] : a \in plan.ask} : Ask(n, name)
           \/ Hop
  <2>1. UNCHANGED <<plan, up, table, disk, job, crashed>>
    BY <1>4 DEF Learn, Ask, Hop
  <2>2. Quiet
    BY <2>1 DEF Quiet, WebOK, WebTypes
  <2> QED
    BY <2>2, QuietExtends
<1>5. CASE UNCHANGED vars
  <2>1. Quiet
    BY <1>5 DEF vars, Quiet, WebOK, WebTypes
  <2> QED
    BY <2>1, QuietExtends
<1> QED
  BY <1>1, <1>2, <1>3, <1>4, <1>5 DEF Next

LEMMA BackedInvariance == Spec => []Backed
<1>1. Init => Backed
  BY DEF Init, Backed, Done
<1>2. WebOK /\ Backed /\ [Next]_vars => Backed'
  BY EveryStep, ExtendedStep DEF WebOK
<1> QED
  BY <1>1, <1>2, WebInvariance, PTL DEF Spec

-----------------------------------------------------------------------------
(* What was acknowledged is served.                                        *)

\* The line where an entry of a name is found first.
LEMMA FirstEntry ==
    ASSUME NEW t, IsSeq(t), NEW name, Has(t, name)
    PROVE  \E k \in DOMAIN t : t[k][1] = name /\ PathOf(t, name) = t[k][2]
<1> DEFINE S == {k \in DOMAIN t : t[k][1] = name}
<1>1. DOMAIN t \subseteq Nat
  BY DEF IsSeq
<1>2. S # {}
  BY DEF Has, Names, Range
<1>3. Min(S) \in S
  BY <1>1, <1>2, MinNat
<1> QED
  BY <1>3 DEF PathOf

\* Two lines are more than one.
LEMMA OneLine ==
    ASSUME NEW lines, IsSeq(lines), NEW name,
           Cardinality({i \in DOMAIN lines : Word(lines[i]) = name}) <= 1,
           NEW i \in DOMAIN lines, Word(lines[i]) = name,
           NEW k \in DOMAIN lines, Word(lines[k]) = name
    PROVE  i = k
<1> DEFINE S == {l \in DOMAIN lines : Word(lines[l]) = name}
<1> SUFFICES ASSUME i # k PROVE FALSE
  OBVIOUS
<1>1. DOMAIN lines = 1..Len(lines) /\ Len(lines) \in Nat
  BY DEF IsSeq
<1>2. IsFiniteSet(DOMAIN lines)
  BY <1>1, FS_Interval
<1>3. IsFiniteSet(S) /\ {i, k} \subseteq S
  BY <1>2, FS_Subset
<1> HIDE DEF S
<1>4. Cardinality({i, k}) <= Cardinality(S) /\ Cardinality(S) \in Nat
  BY <1>3, FS_Subset, FS_CardinalityType
<1>5. Cardinality({i, k}) = 2
  <2>1. IsFiniteSet({k}) /\ Cardinality({k}) = 1
    BY FS_Singleton
  <2>2. {k} \cup {i} = {i, k} /\ i \notin {k}
    OBVIOUS
  <2> QED
    BY <2>1, <2>2, FS_AddElement
<1> QED
  BY <1>4, <1>5 DEF S

\* An upload that was answered 200 is served by its node with its own path
\* while the node runs, also after crashes, if its name is one word and no other
\* line begins with it.
THEOREM AckedServedInvariance == Spec => []AckedServed
<1>1. WebOK /\ Backed => AckedServed
  <2> SUFFICES ASSUME WebOK, Backed, NEW j \in Job, job[j] = "200",
                      Up(j).node \in up, OneWord(Up(j).name),
                      Cardinality({i \in DOMAIN disk[Up(j).node] :
                                     Word(disk[Up(j).node][i]) = Up(j).name}) <= 1
               PROVE  /\ Has(table[Up(j).node], Up(j).name)
                      /\ PathOf(table[Up(j).node], Up(j).name) = <<Up(j).content>>
    BY DEF AckedServed, OneWord
  <2> DEFINE n == Up(j).node
             name == Up(j).name
             c == Up(j).content
  <2>1. /\ \A k \in Job : /\ Up(k).node \in Node /\ Up(k).content # Space
                          /\ IsSeq(Up(k).name) /\ Up(k).name # <<>>
        /\ job[j] \in Done /\ IsSeq(disk[n]) /\ IsSeq(table[n])
    <3>1. plan \in Plan
      BY DEF WebOK, WebTypes
    <3>2. \A k \in Job : /\ Up(k).node \in Node /\ Up(k).content # Space
                          /\ Up(k).name \in Seq(Range(Up(k).name)) /\ Up(k).name # <<>>
      BY <3>1, WebAssumption DEF Up
    <3>3. \A k \in Job : IsSeq(Up(k).name)
      BY <3>2 DEF IsSeq
    <3>4. job[j] \in Done
      BY DEF Done
    <3>5. \A m \in Node : IsSeq(disk[m]) /\ IsSeq(table[m])
      BY DEF WebOK, WebTypes
    <3>6. n \in Node
      BY <3>2
    <3>7. IsSeq(disk[n]) /\ IsSeq(table[n])
      BY <3>5, <3>6
    <3> HIDE DEF n
    <3> QED
      BY <3>2, <3>3, <3>4, <3>7
  <2>2. Has(table[n], name)
    BY <2>1 DEF WebOK, Listed
  <2>3. PICK i \in DOMAIN disk[n] : disk[n][i] = Line(name, <<c>>)
    BY <2>1 DEF Backed, LineOf
  <2>4. /\ Word(Line(name, <<c>>)) = name
        /\ Loaded(Line(name, <<c>>))[2] = <<c>>
    BY <2>1, OneWordLine
  <2>5. PICK k \in DOMAIN table[n] :
            table[n][k][1] = name /\ PathOf(table[n], name) = table[n][k][2]
    BY <2>1, <2>2, FirstEntry
  <2>6. PICK l \in DOMAIN disk[n] : FromLine(n, table[n][k], disk[n][l])
    BY <2>1, <2>5 DEF Backed
  <2>7. ASSUME Word(disk[n][l]) = name PROVE disk[n][l] = Line(name, <<c>>)
    <3> DEFINE lines == disk[n]
    <3>1. /\ IsSeq(lines) /\ i \in DOMAIN lines /\ l \in DOMAIN lines
          /\ Word(lines[i]) = name /\ Word(lines[l]) = name
          /\ Cardinality({m \in DOMAIN lines : Word(lines[m]) = name}) <= 1
      BY <2>1, <2>3, <2>4, <2>7
    <3> HIDE DEF lines, name
    <3>2. i = l
      BY <3>1, OneLine
    <3> QED
      BY <2>3, <3>2
  <2>8. CASE table[n][k] = Loaded(disk[n][l])
    <3>1. Word(disk[n][l]) = name
      BY <2>5, <2>8 DEF Loaded, Word
    <3>2. disk[n][l] = Line(name, <<c>>)
      BY <2>7, <3>1
    <3> QED
      BY <2>2, <2>4, <2>5, <2>8, <3>2
  <2>9. ASSUME NEW m \in Job, disk[n][l] = LineOf(m), table[n][k] = EntryOf(m)
        PROVE  PathOf(table[n], name) = <<c>>
    <3>1. Up(m).name = name /\ PathOf(table[n], name) = <<Up(m).content>>
      BY <2>5, <2>9 DEF EntryOf
    <3>2. Word(disk[n][l]) = name
      BY <2>1, <2>9, <3>1, OneWordLine DEF LineOf
    <3>3. Line(name, <<Up(m).content>>) = Line(name, <<c>>)
      BY <2>7, <2>9, <3>1, <3>2 DEF LineOf
    <3>4. Loaded(Line(name, <<Up(m).content>>))[2] = <<Up(m).content>>
      BY <2>1, OneWordLine
    <3> QED
      BY <2>4, <3>1, <3>3, <3>4
  <2> QED
    BY <2>2, <2>6, <2>8, <2>9 DEF FromLine
<1> QED
  BY <1>1, WebInvariance, BackedInvariance, PTL

-----------------------------------------------------------------------------
(* Fetches.                                                                *)

\* A token that a URL leaves alone.
Safe(tok) == tok \notin {"?", "#", Space} /\ tok \notin DOMAIN Quoted

LEMMA SafeInUrl ==
    ASSUME NEW S, NEW name \in Seq(S), \A i \in DOMAIN name : Safe(name[i])
    PROVE  InUrl(name) = name
<1> DEFINE len == Len(name)
           ends == {i \in DOMAIN name : \/ name[i] \in {"?", "#"}
                                         \/ \A k \in i..Len(name) : name[k] = Space}
           path == SubSeq(name, 1, len)
<1>1. len \in Nat /\ DOMAIN name = 1..len
  OBVIOUS
<1>2. ends = {}
  <2> SUFFICES ASSUME NEW i \in ends PROVE FALSE
    OBVIOUS
  <2>1. i \in 1..len /\ i \in i..Len(name) /\ Safe(name[i])
    BY <1>1
  <2> QED
    BY <2>1 DEF Safe
<1>3. Min(ends \cup {Len(name) + 1}) - 1 = len
  <2>2. {len + 1} \subseteq Nat /\ {len + 1} # {}
    BY <1>1
  <2>3. Min({len + 1}) \in {len + 1}
    BY <2>2, MinNat
  <2>4. ends \cup {Len(name) + 1} = {Len(name) + 1}
    BY <1>2
  <2>5. Min(ends \cup {Len(name) + 1}) = Len(name) + 1
    BY <2>3, <2>4
  <2> HIDE DEF ends
  <2> QED
    BY <1>1, <2>5
<1>4. path = name
  BY <1>1
<1>5. InUrl(name) = [i \in DOMAIN path |->
          IF path[i] \in DOMAIN Quoted THEN Quoted[path[i]] ELSE path[i]]
  <2> HIDE DEF len
  <2> QED
    BY <1>3 DEF InUrl, len
<1>6. InUrl(name) = [i \in DOMAIN name |-> name[i]]
  BY <1>4, <1>5 DEF Safe
<1> QED
  BY <1>1, <1>6

\* A clean name comes through a URL as it is, whether it begins with "/" or not.
LEMMA CleanName ==
    ASSUME NEW name, name \in Seq(Range(name)), Len(name) >= 1, Clean(name)
    PROVE  Routed(InUrl(Escape(name))) /\ Unescape(InUrl(Escape(name))) = name
<1>1. /\ Head(name) # "\\"
      /\ \A i \in DOMAIN name : Safe(name[i])
  BY DEF Clean, Range, Safe
<1>2. CASE Head(name) # "/"
  <2>1. Escape(name) = name
    BY <1>2 DEF Escape
  <2>3. InUrl(name) = name
    BY <1>1, SafeInUrl
  <2>4. Unescape(name) = name /\ Routed(name)
    BY <1>1, <1>2 DEF Unescape, Routed
  <2> QED
    BY <2>1, <2>3, <2>4
<1>3. CASE Head(name) = "/"
  <2> DEFINE S == Range(name) \cup {"\\", "/"}
             e == <<"\\", "\\">> \o Tail(name)
  <2>1. Escape(name) = e
    BY <1>3 DEF Escape
  <2>2. /\ name \in Seq(S) /\ Len(name) \in Nat /\ Tail(name) \in Seq(S)
        /\ Len(Tail(name)) = Len(name) - 1 /\ name[1] = "/"
        /\ \A i \in 1..(Len(name) - 1) : Tail(name)[i] = name[i + 1]
    BY <1>3
  <2>3. /\ e \in Seq(S) /\ Len(e) = Len(name) + 1 /\ e[1] = "\\" /\ e[2] = "\\"
        /\ \A i \in 3..(Len(name) + 1) : e[i] = name[i - 1]
    BY <2>2
  <2> HIDE DEF e
  <2>4. \A i \in DOMAIN e : Safe(e[i])
    <3> SUFFICES ASSUME NEW i \in 1..(Len(name) + 1) PROVE Safe(e[i])
      BY <2>3
    <3>1. CASE i \in {1, 2}
      <4>1. Safe("\\")
        BY WebAssumption DEF Safe, Space
      <4> QED
        BY <2>3, <3>1, <4>1
    <3>2. CASE i \notin {1, 2}
      <4>1. i \in 3..(Len(name) + 1) /\ i - 1 \in DOMAIN name
        BY <2>2, <3>2
      <4> QED
        BY <1>1, <2>3, <4>1
    <3> QED
      BY <3>1, <3>2
  <2>5. InUrl(e) = e
    BY <2>2, <2>3, <2>4, SafeInUrl
  <2>6. Routed(e) /\ Head(e) = "\\"
    BY <2>2, <2>3 DEF Routed
  <2>7. Unescape(e) = <<"/">> \o SubSeq(e, 3, Len(e))
    BY <2>6 DEF Unescape
  <2> DEFINE w == SubSeq(e, 3, Len(e))
             r == <<"/">> \o w
  <2>8. w \in Seq(S) /\ Len(w) = Len(name) - 1 /\ \A i \in 1..(Len(name) - 1) : w[i] = name[i + 1]
    BY <2>2, <2>3
  <2> HIDE DEF w
  <2>9. r \in Seq(S) /\ Len(r) = Len(name) /\ r[1] = "/"
        /\ \A i \in 2..Len(name) : r[i] = name[i]
    <3>1. <<"/">> \in Seq(S) /\ Len(<<"/">>) = 1 /\ <<"/">>[1] = "/"
      OBVIOUS
    <3>2. r \in Seq(S) /\ Len(r) = Len(name) /\ r[1] = "/"
      <4> HIDE DEF S
      <4>1. r \in Seq(S)
        BY <2>8, <3>1
      <4>2. Len(r) = Len(name)
        <5>1. w \in Seq(S) /\ Len(w) = Len(name) - 1 /\ Len(name) \in Nat
          BY <2>2, <2>8
        <5>2. Len(r) = Len(<<"/">>) + Len(w)
          BY <3>1, <5>1
        <5> QED
          BY <3>1, <5>1, <5>2
      <4>3. r[1] = "/"
        BY <2>2, <2>8, <3>1
      <4> QED
        BY <4>1, <4>2, <4>3
    <3>3. ASSUME NEW i \in 2..Len(name) PROVE r[i] = name[i]
      <4>1. i - 1 \in 1..(Len(name) - 1) /\ (i - 1) + 1 = i
        BY <2>2
      <4>2. r[i] = w[i - 1]
        BY <2>2, <2>8, <3>1, <4>1
      <4> QED
        BY <2>8, <4>1, <4>2
    <3> QED
      BY <3>2, <3>3
  <2> HIDE DEF r
  <2>10. \A i \in 1..Len(name) : r[i] = name[i]
    BY <2>2, <2>9
  <2>11. r = name
    BY <2>2, <2>9, <2>10
  <2> QED
    BY <2>1, <2>5, <2>6, <2>7, <2>11 DEF r, w
<1> QED
  BY <1>2, <1>3

\* Of some nodes, one is nearest.
LEMMA SomeNearest ==
    ASSUME NEW n \in Node, NEW S \in SUBSET Node, S # {}
    PROVE  Nearest(n, S) # {}
<1> DEFINE D == {Dist[n][m] : m \in S}
<1>1. D \subseteq Nat /\ D # {}
  BY WebAssumption
<1>2. PICK m \in S : Dist[n][m] = Min(D)
  BY <1>1, MinNat
<1>3. m \in Nearest(n, S)
  BY <1>1, <1>2, MinNat DEF Nearest
<1> QED
  BY <1>3

\* Node n finds the name if it knows some node that has it.
Finds(n, name) == Len(name) \in 1..MaxName /\ \E m \in Node : name \in known[n][m]

LEMMA LookupFinds ==
    ASSUME NEW n \in Node, NEW name
    PROVE  /\ Lookup(n, name) # {} <=> Finds(n, name)
           /\ \A m \in Lookup(n, name) : m \in Node /\ name \in known[n][m]
                                         /\ Len(name) \in 1..MaxName
<1> DEFINE S == {m \in Node : name \in known[n][m]}
<1>1. Nearest(n, S) \subseteq S
  BY DEF Nearest
<1>2. S # {} => Nearest(n, S) # {}
  BY SomeNearest
<1> QED
  BY <1>1, <1>2 DEF Lookup, Finds

FetchTypes ==
    /\ fetch = [at |-> fetch.at, node |-> fetch.node, name |-> fetch.name,
                asked |-> fetch.asked, file |-> fetch.file, sure |-> fetch.sure]
    /\ DOMAIN known = Node /\ \A n \in Node : DOMAIN known[n] = Node

\* A node knows of its own objects what is in its list.
KnowsOwn == \A n \in Node : known[n][n] \subseteq Names(table[n])

\* A fetch of a clean name carries it from node to node.  While it is sure, all
\* nodes run and find the name.
FetchOK ==
    fetch.at # "none" /\ Clean(fetch.asked) =>
        /\ fetch.asked \in Seq(Range(fetch.asked))
        /\ fetch.at = "lookup" => fetch.node \in Node /\ fetch.name = fetch.asked
        /\ fetch.at = "file" => \E j \in Job : /\ Up(j).node = fetch.node
                                               /\ <<fetch.asked, fetch.file>> \in Entries(j)
        /\ fetch.sure => fetch.at \in {"lookup", "file", "nofile"}
        /\ fetch.sure /\ fetch.at = "lookup" =>
              up = Node /\ \A n \in Node : Finds(n, fetch.asked)

FetchInv == FetchTypes /\ KnowsOwn /\ FetchOK

\* What a step that is not the fetch's leaves of it.
Onward ==
    /\ fetch'.at = fetch.at /\ fetch'.node = fetch.node /\ fetch'.name = fetch.name
    /\ fetch'.asked = fetch.asked /\ fetch'.file = fetch.file
    /\ fetch'.sure => fetch.sure
    /\ FetchTypes' /\ KnowsOwn'
    /\ plan' = plan /\ (crashed > 0 => crashed' > 0)
    /\ fetch'.sure /\ up = Node =>
          up' = Node /\ \A n, m \in Node : known[n][m] \subseteq known'[n][m]

LEMMA OnwardStep ==
    ASSUME FetchInv, Onward
    PROVE  FetchInv'
<1>1. \A j \in Job : Up(j)' = Up(j) /\ \A e \in Entries(j) : e \in Entries(j)'
  BY DEF Onward, Up, Entries
<1>2. ASSUME fetch'.sure, up = Node, NEW n \in Node, Finds(n, fetch.asked)
      PROVE  Finds(n, fetch.asked)'
  BY <1>2 DEF Onward, Finds
<1>3. FetchOK'
  <2> SUFFICES ASSUME fetch.at # "none", Clean(fetch.asked)
               PROVE  /\ fetch.asked \in Seq(Range(fetch.asked))
                      /\ fetch.at = "lookup" => fetch.node \in Node /\ fetch.name = fetch.asked
                      /\ fetch.at = "file" => \E j \in Job :
                            /\ Up(j)'.node = fetch.node
                            /\ <<fetch.asked, fetch.file>> \in Entries(j)'
                      /\ fetch'.sure => fetch.at \in {"lookup", "file", "nofile"}
                      /\ fetch'.sure /\ fetch.at = "lookup" =>
                            up' = Node /\ \A n \in Node : Finds(n, fetch.asked)'
    BY DEF Onward, FetchOK
  <2>1. /\ fetch.asked \in Seq(Range(fetch.asked))
        /\ fetch.at = "lookup" => fetch.node \in Node /\ fetch.name = fetch.asked
        /\ fetch'.sure => fetch.at \in {"lookup", "file", "nofile"}
    BY DEF FetchInv, FetchOK, Onward
  <2>2. ASSUME fetch.at = "file"
        PROVE  \E j \in Job : /\ Up(j)'.node = fetch.node
                              /\ <<fetch.asked, fetch.file>> \in Entries(j)'
    BY <1>1, <2>2 DEF FetchInv, FetchOK
  <2>3. ASSUME fetch'.sure, fetch.at = "lookup"
        PROVE  up' = Node /\ \A n \in Node : Finds(n, fetch.asked)'
    <3>1. up = Node /\ \A n \in Node : Finds(n, fetch.asked)
      BY <2>3 DEF FetchInv, FetchOK, Onward
    <3> QED
      BY <1>2, <2>3, <3>1 DEF Onward
  <2> QED
    BY <2>1, <2>2, <2>3
<1> QED
  BY <1>3 DEF FetchInv, Onward

LEMMA CrashOnward ==
    ASSUME WebTypes, FetchInv, NEW n \in Node, NEW jobs, CrashOf(n, jobs), plan' = plan
    PROVE  Onward
<1>1. /\ fetch' = [fetch EXCEPT !.sure = FALSE] /\ crashed' = crashed + 1 /\ crashed \in Nat
      /\ table' = [table EXCEPT ![n] = <<>>] /\ DOMAIN table = Node
      /\ known' = [known EXCEPT ![n] = [m \in Node |-> {}]]
  BY DEF CrashOf, WebTypes
<1>2. /\ fetch = [at |-> fetch.at, node |-> fetch.node, name |-> fetch.name,
                  asked |-> fetch.asked, file |-> fetch.file, sure |-> fetch.sure]
      /\ DOMAIN known = Node /\ \A m \in Node : DOMAIN known[m] = Node
  BY DEF FetchInv, FetchTypes
<1>3. fetch' = [at |-> fetch.at, node |-> fetch.node, name |-> fetch.name,
                asked |-> fetch.asked, file |-> fetch.file, sure |-> FALSE]
  BY <1>1, <1>2
<1>4. FetchTypes'
  BY <1>1, <1>2, <1>3 DEF FetchTypes
<1>5. KnowsOwn'
  BY <1>1, <1>2 DEF FetchInv, KnowsOwn
<1> QED
  BY <1>1, <1>3, <1>4, <1>5 DEF Onward

LEMMA RestartOnward ==
    ASSUME WebTypes, FetchInv, NEW n \in Node, Restart(n)
    PROVE  Onward
<1>1. /\ UNCHANGED <<plan, fetch, crashed>> /\ n \notin up /\ DOMAIN table = Node
      /\ known' = [known EXCEPT ![n][n] = Names(table'[n])]
      /\ \A m \in Node : m # n => table'[m] = table[m]
  BY DEF Restart, WebTypes
<1>2. FetchTypes'
  BY <1>1 DEF FetchInv, FetchTypes
<1>3. KnowsOwn'
  BY <1>1 DEF FetchInv, FetchTypes, KnowsOwn
<1> QED
  BY <1>1, <1>2, <1>3 DEF Onward

LEMMA LearnOnward ==
    ASSUME FetchInv, NEW n \in Node, NEW m \in Node, Learn(n, m)
    PROVE  Onward
<1>1. /\ UNCHANGED <<plan, fetch, crashed, up, table>> /\ n # m
      /\ known' = [known EXCEPT ![n][m] = known[n][m] \cup Names(table[m])]
  BY DEF Learn
<1>2. FetchTypes'
  BY <1>1 DEF FetchInv, FetchTypes
<1>3. KnowsOwn' /\ \A k, l \in Node : known[k][l] \subseteq known'[k][l]
  BY <1>1 DEF FetchInv, FetchTypes, KnowsOwn
<1> QED
  BY <1>1, <1>2, <1>3 DEF Onward

LEMMA AddOnward ==
    ASSUME WebTypes, FetchInv, NEW j \in Job, AddDone(j)
    PROVE  Onward
<1> DEFINE n == Up(j).node
           t == <<<<Up(j).name, <<Up(j).content>>>>>> \o table[n]
<1>1. plan' = plan /\ n \in Node
  BY WebAssumption DEF AddDone, WebTypes, Up
<1>2. CASE CrashOf(n, [job EXCEPT ![j] = "noanswer"])
  BY <1>1, <1>2, CrashOnward
<1>3. CASE /\ table' = [table EXCEPT ![n] = t]
           /\ known' = [known EXCEPT ![n][n] = known[n][n] \cup Names(t)]
           /\ UNCHANGED <<up, fetch, crashed>>
  <2>1. DOMAIN table = Node /\ IsSeq(table[n])
    BY <1>1 DEF WebTypes
  <2>2. Names(table[n]) \subseteq Names(t)
    BY <2>1, Prepended DEF Has
  <2> HIDE DEF n, t
  <2>3. FetchTypes'
    BY <1>1, <1>3 DEF FetchInv, FetchTypes
  <2>4. KnowsOwn' /\ \A k, l \in Node : known[k][l] \subseteq known'[k][l]
    BY <1>1, <1>3, <2>1, <2>2 DEF FetchInv, FetchTypes, KnowsOwn
  <2> QED
    BY <1>1, <1>3, <2>3, <2>4 DEF Onward
<1> QED
  BY <1>2, <1>3 DEF AddDone

LEMMA SameOnward ==
    ASSUME FetchInv, UNCHANGED <<plan, fetch, crashed, up, table, known>>
    PROVE  Onward
<1>1. FetchTypes' /\ KnowsOwn'
  BY DEF FetchInv, FetchTypes, KnowsOwn
<1> QED
  BY <1>1 DEF Onward

LEMMA AskStep ==
    ASSUME WebTypes, FetchInv, NEW n \in Node, NEW name, Ask(n, name)
    PROVE  FetchInv'
<1>1. /\ <<n, name>> \in plan.ask /\ plan \in Plan
      /\ fetch' = [NoFetch EXCEPT !.at = "lookup", !.node = n, !.name = name,
                    !.asked = name, !.sure = KnownEverywhere(name)]
      /\ UNCHANGED <<plan, up, table, known, crashed>>
  BY DEF Ask, WebTypes
<1>2. fetch' = [at |-> "lookup", node |-> n, name |-> name, asked |-> name,
                file |-> <<>>, sure |-> KnownEverywhere(name)]
  BY <1>1 DEF NoFetch
<1>3. name \in Seq(Range(name))
  BY <1>1, WebAssumption
<1>4. FetchTypes' /\ KnowsOwn'
  BY <1>1, <1>2 DEF FetchInv, FetchTypes, KnowsOwn
<1>5. ASSUME KnownEverywhere(name)
      PROVE  up = Node /\ \A m \in Node : Finds(m, name)
  BY <1>5, LookupFinds DEF KnownEverywhere
<1>6. FetchOK'
  BY <1>1, <1>2, <1>3, <1>5 DEF FetchOK, Finds
<1> QED
  BY <1>4, <1>6 DEF FetchInv

LEMMA HopStep ==
    ASSUME WebTypes, Backed, FetchInv, Hop
    PROVE  FetchInv'
<1> DEFINE n == fetch.node
           name == fetch.name
           path == PathOf(table[n], name)
<1>1. fetch.at = "lookup" /\ UNCHANGED <<plan, up, table, known, crashed>>
  BY DEF Hop
<1>2. fetch = [at |-> fetch.at, node |-> fetch.node, name |-> fetch.name,
               asked |-> fetch.asked, file |-> fetch.file, sure |-> fetch.sure]
  BY DEF FetchInv, FetchTypes
<1>3. \A at, file : Ends(at, file) =>
          fetch' = [at |-> at, node |-> n, name |-> name, asked |-> fetch.asked,
                    file |-> file, sure |-> fetch.sure]
  BY <1>2 DEF Ends
<1>4. \A h, other : fetch' = [fetch EXCEPT !.node = h, !.name = other] =>
          fetch' = [at |-> fetch.at, node |-> h, name |-> other, asked |-> fetch.asked,
                    file |-> fetch.file, sure |-> fetch.sure]
  BY <1>2
<1>5. /\ fetch' = [at |-> fetch'.at, node |-> fetch'.node, name |-> fetch'.name,
                   asked |-> fetch'.asked, file |-> fetch'.file, sure |-> fetch'.sure]
      /\ fetch'.asked = fetch.asked /\ fetch'.sure = fetch.sure
  <2>1. CASE \E at, file : Ends(at, file)
    BY <1>3, <2>1
  <2>2. CASE \E h, other : fetch' = [fetch EXCEPT !.node = h, !.name = other]
    BY <1>4, <2>2
  <2>3. (\E at, file : Ends(at, file))
        \/ \E h, other : fetch' = [fetch EXCEPT !.node = h, !.name = other]
    BY DEF Hop
  <2> QED
    BY <2>1, <2>2, <2>3
<1>6. FetchTypes' /\ KnowsOwn'
  BY <1>1, <1>5 DEF FetchInv, FetchTypes, KnowsOwn
<1>7. ASSUME Clean(fetch.asked) PROVE FetchOK'
  <2>1. /\ n \in Node /\ name = fetch.asked /\ name \in Seq(Range(name)) /\ Clean(name)
        /\ fetch.sure => up = Node /\ \A m \in Node : Finds(m, name)
    BY <1>1, <1>7 DEF FetchInv, FetchOK
  <2>2. CASE n \notin up /\ \E at \in {"500", "404"} : Ends(at, <<>>)
    <3>1. fetch'.at \in {"500", "404"} /\ ~fetch.sure
      BY <1>3, <2>1, <2>2
    <3> QED
      BY <1>5, <2>1, <3>1 DEF FetchOK
  <2>3. CASE Lookup(n, name) = {} /\ Ends("404", <<>>)
    <3>1. ~fetch.sure
      <4>1. ~Finds(n, name)
        BY <2>1, <2>3, LookupFinds
      <4> QED
        BY <2>1, <4>1
    <3>2. fetch' = [at |-> "404", node |-> n, name |-> name, asked |-> fetch.asked,
                    file |-> <<>>, sure |-> fetch.sure]
      BY <1>3, <2>3
    <3> QED
      BY <1>5, <2>1, <3>1, <3>2 DEF FetchOK
  <2>4. CASE n \in Lookup(n, name) /\ (Ends("file", path) \/ Ends("nofile", path))
    <3>1. name \in known[n][n]
      BY <2>1, <2>4, LookupFinds
    <3>2. Has(table[n], name) /\ IsSeq(table[n])
      BY <2>1, <3>1 DEF Has, FetchInv, KnowsOwn, WebTypes
    <3>3. PICK k \in DOMAIN table[n] : table[n][k][1] = name /\ path = table[n][k][2]
      BY <3>2, FirstEntry
    <3>4. PICK i \in DOMAIN disk[n] : FromLine(n, table[n][k], disk[n][i])
      BY <2>1, <3>3 DEF Backed
    <3>5. \E j \in Job : Up(j).node = n /\ table[n][k] \in Entries(j)
      <4>1. CASE crashed > 0 /\ table[n][k] = Loaded(disk[n][i])
        <5>1. PICK j \in Job : Up(j).node = n /\ disk[n][i] = LineOf(j)
          BY <2>1, <3>4 DEF Backed
        <5> QED
          BY <4>1, <5>1 DEF Entries, LineOf
      <4> QED
        BY <3>4, <4>1 DEF FromLine, Entries, EntryOf
    <3>6. table[n][k] = <<name, path>>
      <4>1. \E x, y : table[n][k] = <<x, y>>
        BY <3>4 DEF FromLine, Loaded, EntryOf
      <4> QED
        BY <3>3, <4>1
    <3>7. \E j \in Job : Up(j)'.node = n /\ <<name, path>> \in Entries(j)'
      BY <1>1, <3>5, <3>6 DEF Up, Entries
    <3>8. /\ fetch'.at \in {"file", "nofile"} /\ fetch'.node = n
          /\ fetch'.asked = name /\ fetch'.file = path
      BY <1>3, <2>1, <2>4
    <3> HIDE DEF path, n, name
    <3> QED
      BY <2>1, <3>7, <3>8 DEF FetchOK
  <2>5. ASSUME NEW m \in Lookup(n, name) \ {n}, NEW h \in NextHops(n, m),
               IF Routed(InUrl(Escape(name)))
               THEN fetch' = [fetch EXCEPT !.node = h, !.name = Unescape(InUrl(Escape(name)))]
               ELSE Ends("404", <<>>)
        PROVE  FetchOK'
    <3>1. Len(name) >= 1
      BY <2>1, <2>5, LookupFinds
    <3>2. Routed(InUrl(Escape(name))) /\ Unescape(InUrl(Escape(name))) = name
      BY <2>1, <3>1, CleanName
    <3>3. /\ fetch'.at = "lookup" /\ fetch'.node = h /\ fetch'.name = name /\ h \in Node
          /\ fetch'.asked = name /\ fetch'.sure = fetch.sure
      BY <1>1, <1>4, <1>5, <2>1, <2>5, <3>2 DEF NextHops
    <3>4. \A k \in Node : Finds(k, name)' <=> Finds(k, name)
      BY <1>1, <3>3 DEF Finds
    <3> QED
      BY <1>1, <2>1, <3>3 DEF FetchOK, Finds
  <2> QED
    BY <2>2, <2>3, <2>4, <2>5 DEF Hop
<1>8. ASSUME ~Clean(fetch.asked) PROVE FetchOK'
  BY <1>5, <1>8 DEF FetchOK
<1> QED
  BY <1>6, <1>7, <1>8 DEF FetchInv

LEMMA FetchInvariance == Spec => []FetchInv
<1>1. Init => FetchInv
  <2> SUFFICES ASSUME Init PROVE FetchInv
    OBVIOUS
  <2>1. fetch = NoFetch /\ fetch.at = "none"
    BY DEF Init, NoFetch
  <2>2. FetchTypes /\ KnowsOwn
    BY <2>1 DEF Init, FetchTypes, KnowsOwn, NoFetch
  <2> QED
    BY <2>1, <2>2 DEF FetchInv, FetchOK
<1>2. WebTypes /\ Backed /\ FetchInv /\ [Next]_vars => FetchInv'
  <2> SUFFICES ASSUME WebTypes, Backed, FetchInv, [Next]_vars PROVE FetchInv'
    OBVIOUS
  <2>1. ASSUME NEW n \in Node, Crash(n) PROVE FetchInv'
    BY <2>1, CrashOnward, OnwardStep DEF Crash
  <2>2. ASSUME NEW n \in Node, Restart(n) PROVE FetchInv'
    BY <2>2, RestartOnward, OnwardStep
  <2>3. ASSUME NEW n \in Node, NEW m \in Node, Learn(n, m) PROVE FetchInv'
    BY <2>3, LearnOnward, OnwardStep
  <2>4. ASSUME NEW j \in Job, Upload(j) PROVE FetchInv'
    <3>1. CASE AddDone(j)
      BY <3>1, AddOnward, OnwardStep
    <3>2. CASE AddUnhandled(j)
      <4>1. Up(j).node \in Node /\ plan' = plan
        BY <3>2, WebAssumption DEF AddUnhandled, WebTypes, Up
      <4>2. PICK to \in {"noanswer", "500"} : CrashOf(Up(j).node, [job EXCEPT ![j] = to])
        BY <3>2 DEF AddUnhandled
      <4> QED
        BY <4>1, <4>2, CrashOnward, OnwardStep
    <3>3. CASE Begin(j) \/ Check(j) \/ Save(j) \/ AddNoDaemon(j) \/ AddRefused(j) \/ Finish(j)
      <4>1. UNCHANGED <<plan, fetch, crashed, up, table, known>>
        BY <3>3 DEF Begin, Check, Save, AddNoDaemon, AddRefused, Finish, daemon
      <4> QED
        BY <4>1, SameOnward, OnwardStep
    <3> QED
      BY <2>4, <3>1, <3>2, <3>3 DEF Upload
  <2>5. ASSUME NEW n \in Node, NEW name, Ask(n, name) PROVE FetchInv'
    BY <2>5, AskStep
  <2>6. CASE Hop
    BY <2>6, HopStep
  <2>7. CASE UNCHANGED vars
    <3>1. UNCHANGED <<plan, fetch, crashed, up, table, known>>
      BY <2>7 DEF vars
    <3> QED
      BY <3>1, SameOnward, OnwardStep
  <2> QED
    BY <2>1, <2>2, <2>3, <2>4, <2>5, <2>6, <2>7 DEF Next
<1> QED
  BY <1>1, <1>2, WebInvariance, BackedInvariance, PTL DEF Spec, WebOK

\* A fetch of a clean name ends with a file only where an upload to that node has
\* it under that name, whichever way it was relayed; and if all nodes ran and
\* knew an owner when it began, it fails for want of one only after a crash.
THEOREM FetchIsRightInvariance == Spec => []FetchIsRight
<1>1. FetchInv => FetchIsRight
  BY DEF FetchInv, FetchOK, FetchIsRight
<1> QED
  BY <1>1, FetchInvariance, PTL
=============================================================================
