------------------------- MODULE VersionChain_proofs -------------------------
(***************************************************************************)
(* What one replacement preserves in a table of versions.                  *)
(***************************************************************************)
EXTENDS VersionChain, TLAPS

Table == [RecordId -> VersionRow \cup {None}]

\* A replacement keeps the type of the table and adds exactly its new row.
LEMMA ReplacedType ==
    ASSUME NEW t \in Table, NEW new \in RecordId \ Rows(t),
           NEW old \in RecordId \cup {None}, NEW gone \in SUBSET Rows(t)
    PROVE  /\ Replaced(t, new, old, gone) \in Table
           /\ Rows(Replaced(t, new, old, gone)) = Rows(t) \cup {new}
           /\ ActiveIn(Replaced(t, new, old, gone)) = (ActiveIn(t) \ gone) \cup {new}
<1> DEFINE u == Replaced(t, new, old, gone)
<1>1. ASSUME NEW a \in RecordId
      PROVE  /\ u[a] \in VersionRow \cup {None}
             /\ u[a] # None <=> a \in Rows(t) \cup {new}
             /\ (u[a] # None /\ u[a].active) <=> a \in (ActiveIn(t) \ gone) \cup {new}
  <2>1. CASE a = new
    <3>1. u[a] = NewVersion(old)
      BY <2>1 DEF Replaced
    <3>2. NewVersion(old) \in VersionRow /\ NewVersion(old).active
      BY DEF NewVersion, VersionRow
    <3> HIDE DEF u
    <3> QED  BY <2>1, <3>1, <3>2, NoneAssumption
  <2>2. CASE a # new /\ a \in gone
    <3>1. u[a] = Retired(t[a], new)
      BY <2>2 DEF Replaced
    <3>2. t[a] \in VersionRow /\ a \in Rows(t)
      BY <2>2 DEF Rows, Table
    <3>3. u[a] \in VersionRow /\ ~u[a].active
      BY <3>1, <3>2 DEF Retired, VersionRow
    <3> QED  BY <2>2, <3>2, <3>3, NoneAssumption
  <2>3. CASE a # new /\ a \notin gone
    <3>1. u[a] = t[a]
      BY <2>3 DEF Replaced
    <3> QED  BY <2>3, <3>1 DEF Rows, ActiveIn, Table
  <2> QED  BY <2>1, <2>2, <2>3
<1>2. u \in Table
  BY <1>1 DEF Table, Replaced
<1> QED  BY <1>1, <1>2 DEF Rows, ActiveIn

\* Whatever rows it retires, a replacement leaves every version with a way to an
\* active one: the rows it retires now lead to the row it inserts.
LEMMA ReplacedLeadsToActive ==
    ASSUME NEW t \in Table, NEW new \in RecordId \ Rows(t),
           NEW old \in RecordId \cup {None}, NEW gone \in SUBSET Rows(t),
           EveryVersionLeadsToActive(t)
    PROVE  EveryVersionLeadsToActive(Replaced(t, new, old, gone))
<1> DEFINE u == Replaced(t, new, old, gone)
<1>1. /\ u \in Table
      /\ Rows(u) = Rows(t) \cup {new}
      /\ ActiveIn(u) = (ActiveIn(t) \ gone) \cup {new}
  BY ReplacedType
<1>2. ASSUME NEW a \in Rows(t), a \notin gone
      PROVE  u[a] = t[a]
  BY <1>2 DEF Replaced, Rows
<1>3. ASSUME NEW a \in gone
      PROVE  ~u[a].active /\ u[a].supersededBy = new
  <2>1. a \in RecordId /\ a # new /\ t[a] \in VersionRow
    BY DEF Rows, Table
  <2>2. u[a] = Retired(t[a], new)
    BY <2>1 DEF Replaced
  <2> QED  BY <2>1, <2>2 DEF Retired, VersionRow
<1>4. u[new].active /\ u[new].supersededBy = None
  BY DEF Replaced, NewVersion
<1>5. ForwardLinks(u)
  <2> SUFFICES ASSUME NEW a \in Rows(u)
               PROVE  /\ u[a].active <=> u[a].supersededBy = None
                      /\ ~u[a].active => u[a].supersededBy \in Rows(u)
    BY DEF ForwardLinks
  <2>1. CASE a = new
    BY <2>1, <1>4
  <2>2. CASE a \in gone
    BY <2>2, <1>1, <1>3, NoneAssumption
  <2>3. CASE a # new /\ a \notin gone
    <3>1. a \in Rows(t) /\ u[a] = t[a]
      BY <2>3, <1>1, <1>2
    <3> QED  BY <3>1, <1>1 DEF EveryVersionLeadsToActive, ForwardLinks
  <2> QED  BY <2>1, <2>2, <2>3
<1>6. NoLoops(u)
  <2> SUFFICES ASSUME NEW S \in SUBSET (Rows(u) \ ActiveIn(u)), S # {}
               PROVE  \E a \in S : u[a].supersededBy \notin S
    BY DEF NoLoops
  <2>1. new \notin S /\ S \subseteq Rows(t)
    BY <1>1
  <2>2. CASE S \cap gone # {}
    BY <2>1, <2>2, <1>3
  <2>3. CASE S \cap gone = {}
    <3>1. S \in SUBSET (Rows(t) \ ActiveIn(t))
      BY <2>1, <2>3, <1>1
    <3>2. PICK a \in S : t[a].supersededBy \notin S
      BY <3>1 DEF EveryVersionLeadsToActive, NoLoops
    <3> QED  BY <2>1, <2>3, <3>2, <1>2
  <2> QED  BY <2>2, <2>3
<1> QED  BY <1>5, <1>6 DEF EveryVersionLeadsToActive

\* A table whose rows are all active and unlinked has nothing to lead anywhere.
LEMMA FreshLeadsToActive ==
    ASSUME NEW S \in SUBSET RecordId
    PROVE  LET t == [a \in RecordId |-> IF a \in S THEN NewVersion(None) ELSE None]
           IN  t \in Table /\ Rows(t) = S /\ ActiveIn(t) = S /\ EveryVersionLeadsToActive(t)
<1> DEFINE t == [a \in RecordId |-> IF a \in S THEN NewVersion(None) ELSE None]
<1>1. NewVersion(None) \in VersionRow /\ NewVersion(None).active
        /\ NewVersion(None).supersededBy = None
  BY DEF NewVersion, VersionRow
<1>2. t \in Table /\ Rows(t) = S /\ ActiveIn(t) = S
  BY <1>1, NoneAssumption DEF Table, Rows, ActiveIn
<1>3. ForwardLinks(t)
  BY <1>1, <1>2 DEF ForwardLinks
<1>4. NoLoops(t)
  BY <1>2 DEF NoLoops
<1> QED  BY <1>2, <1>3, <1>4 DEF EveryVersionLeadsToActive

\* The rows that versions say they replace exist.
BackLinksExist(t) == \A a \in Rows(t) : t[a].supersedes \in Rows(t) \cup {None}

\* A replacement of an existing row keeps the back links inside the table.
LEMMA ReplacedBackLinks ==
    ASSUME NEW t \in Table, NEW new \in RecordId \ Rows(t),
           NEW old \in Rows(t) \cup {None}, NEW gone \in SUBSET Rows(t),
           BackLinksExist(t)
    PROVE  BackLinksExist(Replaced(t, new, old, gone))
<1> DEFINE u == Replaced(t, new, old, gone)
<1>1. u \in Table /\ Rows(u) = Rows(t) \cup {new}
  <2>1. old \in RecordId \cup {None}
    BY DEF Rows
  <2> QED  BY <2>1, ReplacedType
<1>2. ASSUME NEW a \in Rows(t) PROVE u[a].supersedes = t[a].supersedes
  <2>1. a \in RecordId /\ a # new /\ t[a] \in VersionRow
    BY DEF Rows, Table
  <2>2. u[a] = IF a \in gone THEN Retired(t[a], new) ELSE t[a]
    BY <2>1 DEF Replaced
  <2> QED  BY <2>1, <2>2 DEF Retired, VersionRow
<1>3. u[new].supersedes = old
  BY DEF Replaced, NewVersion
<1> HIDE DEF u
<1>4. BackLinksExist(u)
  BY <1>1, <1>2, <1>3 DEF BackLinksExist
<1> QED  BY <1>4 DEF u

\* When the row that is replaced is active and the only one retired, both ends of
\* every link still agree.
LEMMA ReplacedLinksAgree ==
    ASSUME NEW t \in Table, NEW new \in RecordId \ Rows(t),
           NEW old \in ActiveIn(t) \cup {None},
           ForwardLinks(t), BackLinksExist(t), LinksAgree(t)
    PROVE  LinksAgree(Replaced(t, new, old, {old} \cap Rows(t)))
<1> DEFINE gone == {old} \cap Rows(t)
           u == Replaced(t, new, old, gone)
<1>1. u \in Table /\ Rows(u) = Rows(t) \cup {new}
  <2>1. old \in RecordId \cup {None} /\ gone \in SUBSET Rows(t)
    BY DEF ActiveIn, Rows
  <2> QED  BY <2>1, ReplacedType
<1>2. u[new].supersedes = old /\ u[new].supersededBy = None
  BY DEF Replaced, NewVersion
<1>3. ASSUME NEW a \in Rows(t)
      PROVE  /\ a \in RecordId /\ a # new /\ a # None
             /\ u[a].supersedes = t[a].supersedes
             /\ u[a].supersededBy = IF a = old THEN new ELSE t[a].supersededBy
  <2>1. a \in RecordId /\ a # new /\ t[a] \in VersionRow
    BY DEF Rows, Table
  <2>2. u[a] = IF a = old THEN Retired(t[a], new) ELSE t[a]
    BY <2>1 DEF Replaced
  <2> QED  BY <2>1, <2>2, NoneAssumption DEF Retired, VersionRow
<1>4. old # None => old \in Rows(t) /\ t[old].supersededBy = None
  BY DEF ActiveIn, ForwardLinks
<1>5. new # None /\ new \notin Rows(t)
  BY NoneAssumption
<1> HIDE DEF u
<1>6. ASSUME NEW a \in Rows(u), NEW b \in Rows(u), u[b].supersedes = a
      PROVE  u[a].supersededBy = b
  <2>1. CASE b = new
    <3>1. a = old /\ a \in Rows(t)
      BY <1>1, <1>2, <1>4, <1>6, <2>1, <1>5, NoneAssumption DEF Rows
    <3> QED  BY <1>3, <2>1, <3>1
  <2>2. CASE b # new
    <3>1. b \in Rows(t) /\ t[b].supersedes = a
      BY <1>1, <1>3, <1>6, <2>2
    <3>2. a \in Rows(t)
      BY <1>1, <3>1, <1>5 DEF BackLinksExist
    <3>3. t[a].supersededBy = b
      BY <3>1, <3>2 DEF LinksAgree
    <3>4. a # old
      BY <1>3, <1>4, <3>1, <3>2, <3>3
    <3> QED  BY <1>3, <3>2, <3>3, <3>4
  <2> QED  BY <2>1, <2>2
<1>7. ASSUME NEW a \in Rows(u), NEW b \in Rows(u), u[a].supersededBy = b
      PROVE  u[b].supersedes = a
  <2>0. b # None
    BY <1>7, NoneAssumption DEF Rows
  <2>1. a \in Rows(t)
    BY <1>1, <1>2, <1>7, <2>0
  <2>2. CASE a = old
    BY <1>2, <1>3, <1>7, <2>1, <2>2
  <2>3. CASE a # old
    <3>1. t[a].supersededBy = b
      BY <1>3, <1>7, <2>1, <2>3
    <3>2. b \in Rows(t)
      BY <2>0, <2>1, <3>1 DEF ForwardLinks
    <3> QED  BY <1>3, <2>1, <3>1, <3>2 DEF LinksAgree
  <2> QED  BY <2>2, <2>3
<1>8. LinksAgree(u)
  BY <1>6, <1>7 DEF LinksAgree
<1> QED  BY <1>8 DEF u
=============================================================================
