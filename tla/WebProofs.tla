------------------------------ MODULE WebProofs --------------------------------
(***************************************************************************)
(* For any records, boxes, values and number of events: a panel at rest    *)
(* that disagrees with the address bar has a cause, an empty page of       *)
(* records has an explanation, a reload restores the filters, and what the *)
(* administrator was told is done is no longer offered.  That the pages    *)
(* come to rest is left to TLC.                                            *)
(***************************************************************************)
EXTENDS WebPages, FiniteSetTheorems, SequenceTheorems, TLAPS

AllValues == (UNION {Values[b] : b \in AllBoxes}) \cup {None}

Filters == [Boxes -> AllValues]

PanelCalls == [ask : Filters, unapplied : BOOLEAN, passed : BOOLEAN]

PageChoices == [no : Nat \ {0}, offer : Nat, odd : BOOLEAN]

Listings == [rows : SUBSET Recs, total : Nat, page : Nat \ {0}, pages : Nat]

ListAsks == [filter : Filters, per : Nat \ {0}]

ListCalls ==
    [ask : ListAsks, pg : PageChoices, unapplied : BOOLEAN, passed : BOOLEAN,
     answer : Listings \cup {Nothing}]

\* What WebTypeOK leaves open of the dashboard.
PanelsTypeOK ==
    /\ input \in [AllBoxes -> AllValues] /\ url \in [AllBoxes -> AllValues]
    /\ cards \in [hidden : BOOLEAN, unapplied : BOOLEAN]
    /\ calls \in [Panels -> Seq(PanelCalls)]
    /\ shown \in [Panels -> [ask : Filters \cup {Nothing}, cause : SUBSET Causes]]

ListTypeOK ==
    /\ page \in PageChoices
    /\ lists \in Seq(ListCalls)
    /\ table \in [error : BOOLEAN, ask : ListAsks \cup {Nothing}, listing : Listings,
                  pg : PageChoices, cause : SUBSET Causes]

-----------------------------------------------------------------------------
(* The invariant of the dashboard *)

\* The call made last for a panel, or else what it shows, is for the address
\* bar, or it is known why not.
UpToDate(p) ==
    IF calls[p] = << >>
    THEN shown[p].ask = FilterOf(url) \/ shown[p].cause # {}
    ELSE LET c == calls[p][Len(calls[p])]
         IN  c.ask = FilterOf(url) \/ c.unapplied \/ c.passed

UrlAsk == [filter |-> FilterOf(url), per |-> PerOf(url)]

ListUpToDate ==
    IF lists = << >>
    THEN table.ask = UrlAsk \/ table.cause # {}
    ELSE LET c == lists[Len(lists)]
         IN  c.ask = UrlAsk \/ c.unapplied \/ c.passed

\* The other panels wait for the overview.
PanelsFollow ==
    boot = "ready" =>
        /\ UpToDate("overview")
        /\ calls["overview"] = << >> => ListUpToDate /\ \A p \in Charts : UpToDate(p)
        /\ cards.hidden = (\E b \in Boxes : url[b] # None) \/ cards.unapplied

\* The page was within the list that offered it.
Offerable(pg, per) == pg.no = 1 \/ pg.odd \/ (pg.no - 1) * per < pg.offer

\* The list l is the page pg of as many records as it says.
Right(l, pg, per) ==
    /\ l.page = pg.no
    /\ l.rows = {} /\ l.total > 0 => l.total <= (pg.no - 1) * per
    /\ \A p \in 1..l.pages : (p - 1) * per < l.total

PagesFollow ==
    /\ Offerable(page, PerOf(url))
    /\ \A i \in DOMAIN lists :
        /\ ~lists[i].unapplied => Offerable(lists[i].pg, lists[i].ask.per)
        /\ lists[i].answer # Nothing => Right(lists[i].answer, lists[i].pg, lists[i].ask.per)
    /\ Right(table.listing, table.pg, table.ask.per)
    /\ table.cause = {} => Offerable(table.pg, table.ask.per)

\* The options for clients lack none that is still there.
OptionsComplete ==
    boot = "aliases" /\ faults = 0 => Offered("client") \subseteq options["client"]

-----------------------------------------------------------------------------
(* The invariant of the admin page *)

AdminCalls == [pg : PageChoices, passed : BOOLEAN, served : BOOLEAN, answer : Listings]

AdminListTypeOK ==
    /\ adminPage \in PageChoices
    /\ adminLists \in Seq(AdminCalls)
    /\ adminTable \in [error : BOOLEAN, listing : Listings, pg : PageChoices,
                       cause : SUBSET {"overtaken", "failed"}]

AdminPagesFollow ==
    /\ Offerable(adminPage, AdminPer)
    /\ \A i \in DOMAIN adminLists :
        /\ Offerable(adminLists[i].pg, AdminPer)
        /\ adminLists[i].served => Right(adminLists[i].answer, adminLists[i].pg, AdminPer)
    /\ Right(adminTable.listing, adminTable.pg, AdminPer)
    /\ Offerable(adminTable.pg, AdminPer)

\* What an operation that worked has made of its record stays so.
Over(op, r) == IF op = "delete" THEN status[r] = "deleted" ELSE status[r] # "active"

\* The record is not on the screen, nor in the answer awaited last.
Gone(r) ==
    IF adminLists = << >>
    THEN r \notin adminTable.listing.rows \/ adminTable.cause # {}
    ELSE LET c == adminLists[Len(adminLists)]
         IN  c.passed \/ ~c.served \/ r \notin c.answer.rows

ToldRight ==
    /\ \A o \in ops : o.stage = "done" => Over(o.op, o.rec)
    /\ \A t \in told :
        /\ Over(t[1], t[2])
        /\ IF t[1] = "delete" THEN Gone(t[2]) ELSE t[2] \notin orphans

-----------------------------------------------------------------------------
(* Listings *)

\* Every place from the first to the last is some record's.
LEMMA Places ==
    ASSUME NEW S \in SUBSET Nat, IsFiniteSet(S)
    PROVE  /\ Cardinality(S) \in Nat
           /\ \A i \in 1..Cardinality(S) : \E r \in S : Cardinality({q \in S : q > r}) = i - 1
  <1> DEFINE n == Cardinality(S)
             newer(r) == {q \in S : q > r}
             F == [r \in S |-> Cardinality(newer(r))]
             T == 0..(n - 1)
  <1>1. n \in Nat
    BY FS_CardinalityType
  <1>2. \A r \in S : newer(r) \in SUBSET S /\ r \notin newer(r)
    OBVIOUS
  <1>3. \A r \in S : IsFiniteSet(newer(r)) /\ Cardinality(newer(r)) \in Nat
    BY <1>2, FS_Subset, FS_CardinalityType
  <1>4. \A r \in S : Cardinality(newer(r)) < n
    <2> SUFFICES ASSUME NEW r \in S PROVE Cardinality(newer(r)) < n
      OBVIOUS
    <2>1. Cardinality(newer(r)) <= n /\ Cardinality(newer(r)) # n
      BY <1>2, FS_Subset
    <2> HIDE DEF n, newer
    <2> QED
      BY <1>1, <1>3, <2>1
  <1>5. ASSUME NEW r \in S, NEW s \in S, r < s
        PROVE  F[r] # F[s]
    <2>1. newer(s) \in SUBSET newer(r) /\ s \in newer(r) /\ s \notin newer(s)
      <3>1. r \in Nat /\ s \in Nat
        OBVIOUS
      <3>2. \A q \in S : q > s => q > r
        BY <1>5, <3>1
      <3> QED
        BY <1>2, <1>5, <3>1, <3>2
    <2>2. Cardinality(newer(r)) # Cardinality(newer(s))
      BY <1>3, <2>1, FS_Subset
    <2> QED
      BY <2>2
  <1>6. F \in Injection(S, T)
    <2>1. F \in [S -> T]
      <3> SUFFICES ASSUME NEW r \in S PROVE Cardinality(newer(r)) \in T
        OBVIOUS
      <3>1. Cardinality(newer(r)) \in Nat /\ Cardinality(newer(r)) < n
        BY <1>3, <1>4
      <3> HIDE DEF n, newer
      <3> QED
        BY <1>1, <3>1
    <2> HIDE DEF F
    <2>2. \A r, s \in S : F[r] = F[s] => r = s
      <3> SUFFICES ASSUME NEW r \in S, NEW s \in S, F[r] = F[s] PROVE r = s
        OBVIOUS
      <3>1. ~(r < s) /\ ~(s < r)
        BY <1>5
      <3> QED
        BY <3>1
    <2> HIDE DEF T
    <2> QED
      BY <2>1, <2>2 DEF Injection, IsInjective
  <1>7. IsFiniteSet(T) /\ Cardinality(T) = n
    <2>1. 0 \in Int /\ n - 1 \in Int
      BY <1>1
    <2>2. IsFiniteSet(T) /\ Cardinality(T) = IF 0 > n - 1 THEN 0 ELSE (n - 1) - 0 + 1
      BY <2>1, FS_Interval
    <2> HIDE DEF T, n
    <2> QED
      BY <1>1, <2>2
  <1>8. F \in Surjection(S, T)
    BY <1>6, <1>7, FS_Injection
  <1>9. \A t \in T : \E r \in S : F[r] = t
    BY <1>8 DEF Surjection
  <1>10. ASSUME NEW i \in 1..n
         PROVE  \E r \in S : Cardinality(newer(r)) = i - 1
    <2>1. i - 1 \in T
      BY <1>1
    <2> QED
      BY <1>9, <2>1
  <1> QED
    BY <1>1, <1>10

LEMMA NewestFirstAll ==
    ASSUME NEW S \in SUBSET Nat, IsFiniteSet(S)
    PROVE  /\ NewestFirst(S) \in Seq(S) /\ Len(NewestFirst(S)) = Cardinality(S)
           /\ \A i \in DOMAIN NewestFirst(S) : NewestFirst(S)[i] \in S
  <1> DEFINE n == Cardinality(S)
             at(i) == CHOOSE r \in S : Cardinality({q \in S : q > r}) = i - 1
             f == [i \in 1..n |-> at(i)]
  <1>1. n \in Nat /\ \A i \in 1..n : at(i) \in S
    BY Places
  <1>2. NewestFirst(S) = f
    BY DEF NewestFirst
  <1> HIDE DEF n, at
  <1>3. f \in [1..n -> S]
    BY <1>1
  <1>4. f \in Seq(S) /\ Len(f) = n /\ \A i \in DOMAIN f : f[i] \in S
    BY <1>1, <1>3
  <1> QED
    BY <1>2, <1>4 DEF n

LEMMA LastPage ==
    ASSUME NEW total \in Nat, NEW per \in Nat \ {0}, NEW p \in Nat,
           1 <= p, p <= (total + per - 1) \div per
    PROVE  (p - 1) * per < total
  <1> DEFINE pages == (total + per - 1) \div per
  <1>1. pages \in Nat /\ pages * per <= total + per - 1
    OBVIOUS
  <1> HIDE DEF pages
  <1>2. p * per <= pages * per
    BY <1>1 DEF pages
  <1>3. (p - 1) * per = p * per - per
    OBVIOUS
  <1>4. p * per \in Int /\ pages * per \in Int
    BY <1>1
  <1> QED
    BY <1>1, <1>2, <1>3, <1>4

LEMMA ListingRight ==
    ASSUME NEW f, NEW pg \in PageChoices, NEW per \in Nat \ {0}
    PROVE  /\ Listing(f, pg.no, per) \in Listings
           /\ Listing(f, pg.no, per).rows \subseteq Selected(f)
           /\ Right(Listing(f, pg.no, per), pg, per)
  <1> DEFINE S == Selected(f)
             all == NewestFirst(S)
             no == pg.no
             window == ((no - 1) * per + 1)..(no * per)
             l == Listing(f, no, per)
  <1>1. S \in SUBSET Nat /\ S \subseteq Recs /\ IsFiniteSet(S)
    <2>1. S \in SUBSET Recs
      BY DEF Selected
    <2> HIDE DEF S
    <2> QED
      BY <2>1, FS_Subset, WebServerAssumption
  <1> HIDE DEF S
  <1>2. /\ all \in Seq(S) /\ Len(all) \in Nat /\ DOMAIN all = 1..Len(all)
        /\ \A i \in DOMAIN all : all[i] \in S
    BY <1>1, NewestFirstAll, FS_CardinalityType
  <1>3. no \in Nat \ {0}
    BY DEF PageChoices
  <1>4. /\ l.rows = {all[i] : i \in DOMAIN all \cap window} /\ l.total = Len(all)
        /\ l.page = no /\ l.pages = (Len(all) + per - 1) \div per
        /\ l = [rows |-> l.rows, total |-> l.total, page |-> l.page, pages |-> l.pages]
    BY DEF Listing, S
  <1> HIDE DEF all, l
  <1>5. l.rows \subseteq S
    BY <1>2, <1>4
  <1>6. l.pages \in Nat
    BY <1>2, <1>4
  <1>7. l \in Listings
    BY <1>1, <1>2, <1>3, <1>4, <1>5, <1>6 DEF Listings
  <1>8. ASSUME l.rows = {}, l.total > 0
        PROVE  l.total <= (no - 1) * per
    <2> DEFINE i == (no - 1) * per + 1
    <2>1. i \in Nat /\ i >= 1 /\ i <= no * per /\ no * per \in Nat
      <3>1. (no - 1) * per \in Nat /\ no * per \in Nat
        BY <1>3
      <3>2. (no - 1) * per = no * per - per
        BY <1>3
      <3> QED
        BY <3>1, <3>2
    <2>2. i \in window
      BY <2>1
    <2>3. i \notin DOMAIN all
      BY <1>4, <1>8, <2>2
    <2>4. ~(i <= Len(all))
      BY <1>2, <2>1, <2>3
    <2>5. (no - 1) * per \in Nat
      BY <1>3
    <2> QED
      BY <1>2, <1>4, <2>4, <2>5
  <1>9. \A p \in 1..l.pages : (p - 1) * per < l.total
    BY <1>2, <1>4, <1>6, LastPage
  <1>10. Right(l, pg, per)
    BY <1>4, <1>8, <1>9 DEF Right
  <1> QED
    BY <1>5, <1>7, <1>10 DEF l, S

-----------------------------------------------------------------------------
(* Calls in flight *)

LEMMA Appended ==
    ASSUME NEW S, NEW q \in Seq(S), NEW c \in S
    PROVE  /\ Append(q, c) \in Seq(S) /\ Append(q, c) # << >>
           /\ Append(q, c)[Len(Append(q, c))] = c
           /\ \A i \in DOMAIN Append(q, c) :
                \/ Append(q, c)[i] = c
                \/ i \in DOMAIN q /\ Append(q, c)[i] = q[i]
  <1> DEFINE a == Append(q, c)
  <1>1. /\ a \in Seq(S) /\ Len(a) = Len(q) + 1 /\ a[Len(q) + 1] = c
        /\ \A i \in 1..Len(q) : a[i] = q[i]
    BY AppendProperties
  <1>2. Len(q) \in Nat /\ DOMAIN q = 1..Len(q)
    OBVIOUS
  <1> HIDE DEF a
  <1>3. DOMAIN a = 1..(Len(q) + 1)
    BY <1>1, <1>2
  <1>4. a # << >>
    <2>1. Len(a) # 0
      BY <1>1, <1>2
    <2> QED
      BY <2>1
  <1>5. \A i \in DOMAIN a : a[i] = c \/ (i \in DOMAIN q /\ a[i] = q[i])
    <2> SUFFICES ASSUME NEW i \in DOMAIN a PROVE a[i] = c \/ (i \in DOMAIN q /\ a[i] = q[i])
      OBVIOUS
    <2>1. i = Len(q) + 1 \/ i \in 1..Len(q)
      BY <1>2, <1>3
    <2>2. CASE i = Len(q) + 1
      BY <1>1, <2>2
    <2>3. CASE i \in 1..Len(q)
      BY <1>1, <1>2, <2>3
    <2> QED
      BY <2>1, <2>2, <2>3
  <1> QED
    BY <1>1, <1>4, <1>5 DEF a

\* The calls of a panel once one is answered: it is gone, and if it was the last
\* the new last one has been passed.
LEMMA WithoutOne ==
    ASSUME NEW S, NEW q \in Seq(S), NEW k \in DOMAIN q,
           \A c \in S : Late(c) \in S
    PROVE  /\ WithoutCall(q, k) \in Seq(S)
           /\ \A i \in DOMAIN WithoutCall(q, k) : \E j \in DOMAIN q :
                WithoutCall(q, k)[i] = q[j] \/ WithoutCall(q, k)[i] = Late(q[j])
           /\ WithoutCall(q, k) = << >> => k = Len(q)
           /\ WithoutCall(q, k) # << >> =>
                \E i \in DOMAIN q : WithoutCall(q, k)[Len(WithoutCall(q, k))] =
                    IF k = Len(q) THEN Late(q[i]) ELSE q[Len(q)]
  <1> DEFINE w == WithoutCall(q, k)
             n == Len(q) - 1
             at(j) == IF j < k THEN Late(q[j]) ELSE q[j + 1]
  <1>1. /\ Len(q) \in Nat /\ DOMAIN q = 1..Len(q) /\ k \in 1..Len(q) /\ n \in Nat
        /\ \A j \in 1..Len(q) : q[j] \in S
    OBVIOUS
  <1>2. w = [j \in 1..n |-> at(j)]
    BY DEF WithoutCall
  <1>3. \A j \in 1..n : /\ j \in 1..Len(q) /\ j + 1 \in 1..Len(q)
                        /\ at(j) \in S
    BY <1>1
  <1> HIDE DEF w
  <1>4. w \in [1..n -> S] /\ w \in Seq(S) /\ Len(w) = n /\ DOMAIN w = 1..n
    <2>1. w \in [1..n -> S]
      <3> HIDE DEF at
      <3> QED
        BY <1>2, <1>3
    <2>2. n \in Nat
      BY <1>1
    <2> HIDE DEF n
    <2> QED
      BY <2>1, <2>2
  <1>5. \A i \in DOMAIN w : \E j \in DOMAIN q :
            w[i] = q[j] \/ w[i] = Late(q[j])
    <2> SUFFICES ASSUME NEW i \in 1..n
                 PROVE  \E j \in DOMAIN q : w[i] = q[j] \/ w[i] = Late(q[j])
      BY <1>4
    <2>1. w[i] = at(i)
      BY <1>2
    <2> QED
      BY <1>1, <1>3, <2>1
  <1>6. w = << >> => k = Len(q)
    BY <1>1, <1>4
  <1>7. ASSUME w # << >>
        PROVE  \E i \in DOMAIN q : w[Len(w)] =
                    IF k = Len(q) THEN Late(q[i]) ELSE q[Len(q)]
    <2>1. n \in 1..n
      BY <1>1, <1>4, <1>7
    <2>2. w[Len(w)] = at(n)
      BY <1>2, <1>4, <2>1
    <2>3. n \in DOMAIN q /\ n + 1 = Len(q) /\ (n < k <=> k = Len(q))
      BY <1>1, <2>1
    <2> HIDE DEF n
    <2> QED
      BY <2>2, <2>3
  <1> QED
    BY <1>4, <1>5, <1>6, <1>7 DEF w

\* All calls of a queue are passed.
LEMMA AllPassed ==
    ASSUME NEW S, NEW q \in Seq(S),
           \A c \in S : Late(c) \in S
    PROVE  /\ Passed(q) \in Seq(S) /\ Len(Passed(q)) = Len(q) /\ DOMAIN Passed(q) = DOMAIN q
           /\ \A i \in DOMAIN q : Passed(q)[i] = Late(q[i])
  BY DEF Passed

LEMMA PanelCallPassed ==
    ASSUME NEW c \in PanelCalls
    PROVE  /\ Late(c) \in PanelCalls
           /\ Late(c).passed = TRUE
  BY DEF PanelCalls, Late

LEMMA ListCallPassed ==
    ASSUME NEW c \in ListCalls
    PROVE  /\ Late(c) \in ListCalls
           /\ Late(c).passed = TRUE
           /\ Late(c).ask = c.ask
           /\ Late(c).pg = c.pg
           /\ Late(c).unapplied = c.unapplied
           /\ Late(c).answer = c.answer
  BY DEF ListCalls, Late

LEMMA AdminCallPassed ==
    ASSUME NEW c \in AdminCalls
    PROVE  /\ Late(c) \in AdminCalls
           /\ Late(c).passed = TRUE
           /\ Late(c).pg = c.pg
           /\ Late(c).served = c.served
           /\ Late(c).answer = c.answer
  BY DEF AdminCalls, Late

LEMMA PanelCallTypes ==
    ASSUME NEW i \in [AllBoxes -> AllValues], NEW u
    PROVE  PanelCall(i, u) \in PanelCalls
  BY DEF PanelCall, PanelCalls, FilterOf, Filters, AllBoxes

LEMMA ListCallTypes ==
    ASSUME input \in [AllBoxes -> AllValues], input["per"] \in Values["per"] \cup {None},
           NEW pg \in PageChoices
    PROVE  ListCall(pg) \in ListCalls /\ ListAsk \in ListAsks
  <1>1. FilterOf(input) \in Filters
    BY DEF FilterOf, Filters, AllBoxes
  <1>2. PerOf(input) \in Nat \ {0}
    BY DashboardAssumption DEF PerOf
  <1>3. ListAsk \in ListAsks
    BY <1>1, <1>2 DEF ListAsk, ListAsks
  <1>4. (input # url) \in BOOLEAN /\ FALSE \in BOOLEAN
    OBVIOUS
  <1> QED
    BY <1>3, <1>4 DEF ListCall, ListCalls

-----------------------------------------------------------------------------
(* Types of the dashboard *)

DTypeOK == DashboardTypeOK /\ PanelsTypeOK /\ ListTypeOK

LEMMA OverviewIsPanel == "overview" \in Panels /\ Charts \subseteq Panels /\ DepthChart \in Panels
                         /\ DepthChart # "overview"
  BY DashboardAssumption DEF Panels

LEMMA Loads ==
    ASSUME DTypeOK, NEW i \in [AllBoxes -> AllValues], NEW u, LoadAll(i, u)
    PROVE  /\ calls' \in [Panels -> Seq(PanelCalls)]
           /\ shown' \in [Panels -> [ask : Filters \cup {Nothing}, cause : SUBSET Causes]]
           /\ cards' \in [hidden : BOOLEAN, unapplied : BOOLEAN]
           /\ calls'["overview"] # << >>
           /\ calls'["overview"][Len(calls'["overview"])] = PanelCall(i, u)
           /\ \A p \in Charts : calls'[p] = calls[p] /\ shown'[p] = shown[p]
           /\ cards'.hidden <=> \E b \in Boxes : i[b] # None
           /\ cards'.unapplied <=> i # u
  <1> DEFINE q == calls["overview"]
             c == PanelCall(i, u)
  <1>1. q \in Seq(PanelCalls) /\ c \in PanelCalls
    BY OverviewIsPanel, PanelCallTypes DEF DTypeOK, PanelsTypeOK
  <1>2. /\ Append(q, c) \in Seq(PanelCalls) /\ Append(q, c) # << >>
        /\ Append(q, c)[Len(Append(q, c))] = c
    BY <1>1, Appended
  <1>3. calls' = [calls EXCEPT !["overview"] = Append(q, c)]
    BY DEF LoadAll
  <1> HIDE DEF c
  <1>4. calls'["overview"] = Append(q, c)
    BY <1>3, OverviewIsPanel DEF DTypeOK, PanelsTypeOK
  <1>5. calls' \in [Panels -> Seq(PanelCalls)]
    BY <1>2, <1>3, OverviewIsPanel DEF DTypeOK, PanelsTypeOK
  <1>6. BlankPanel \in [ask : Filters \cup {Nothing}, cause : SUBSET Causes]
    BY DEF BlankPanel
  <1>7. shown' \in [Panels -> [ask : Filters \cup {Nothing}, cause : SUBSET Causes]]
    BY <1>6, OverviewIsPanel DEF LoadAll, DTypeOK, PanelsTypeOK
  <1>8. \A p \in Charts : calls'[p] = calls[p] /\ shown'[p] = shown[p]
    BY <1>3, OverviewIsPanel, DashboardAssumption DEF LoadAll, DTypeOK, PanelsTypeOK
  <1>9. /\ cards' = [hidden |-> \E b \in Boxes : i[b] # None, unapplied |-> i # u]
    BY DEF LoadAll
  <1>10. (\E b \in Boxes : i[b] # None) \in BOOLEAN /\ (i # u) \in BOOLEAN
    OBVIOUS
  <1>11. cards' \in [hidden : BOOLEAN, unapplied : BOOLEAN]
    BY <1>9, <1>10
  <1>12. (cards'.hidden <=> \E b \in Boxes : i[b] # None) /\ (cards'.unapplied <=> i # u)
    BY <1>9
  <1> QED
    BY <1>2, <1>4, <1>5, <1>7, <1>8, <1>11, <1>12 DEF c

LEMMA BootBoxesTypes ==
    ASSUME DTypeOK, NEW opts
    PROVE  /\ BootBoxes(opts) \in [AllBoxes -> AllValues]
           /\ \A b \in AllBoxes : BootBoxes(opts)[b] \in Values[b] \cup {None}
  <1>1. \A b \in AllBoxes : BootBoxes(opts)[b] \in {input[b], url[b], None}
    BY DEF BootBoxes
  <1>2. None \in AllValues
    BY DEF AllValues
  <1>3. \A b \in AllBoxes : BootBoxes(opts)[b] \in AllValues
    BY <1>1, <1>2 DEF DTypeOK, PanelsTypeOK
  <1>4. BootBoxes(opts) = [b \in AllBoxes |-> BootBoxes(opts)[b]]
    BY DEF BootBoxes
  <1>5. BootBoxes(opts) \in [AllBoxes -> AllValues]
    BY <1>3, <1>4
  <1> QED
    BY <1>1, <1>5 DEF DTypeOK, DashboardTypeOK

LEMMA FirstPageTypes == FirstPage \in PageChoices /\ NoListing \in Listings
  BY DEF FirstPage, PageChoices, NoListing, Listings

LEMMA BlankTypes ==
    /\ Blank \in [Panels -> [ask : Filters \cup {Nothing}, cause : SUBSET Causes]]
    /\ NoCalls \in [Panels -> Seq(PanelCalls)]
    /\ BlankTable \in [error : BOOLEAN, ask : ListAsks \cup {Nothing}, listing : Listings,
                       pg : PageChoices, cause : SUBSET Causes]
    /\ CardsShown \in [hidden : BOOLEAN, unapplied : BOOLEAN]
    /\ Empty \in [AllBoxes -> AllValues]
    /\ \A b \in AllBoxes : Empty[b] = None
    /\ DOMAIN NoOptions = Selects
  BY FirstPageTypes
  DEF Blank, BlankPanel, NoCalls, BlankTable, CardsShown, Empty, AllValues, NoOptions

\* Types follow from those of the variables one by one.
LEMMA DTypes ==
    ASSUME boot' \in {"clients", "aliases", "ready", "dead"}, DOMAIN options' = Selects,
           \A b \in AllBoxes : {input'[b], url'[b]} \subseteq Values[b] \cup {None},
           PanelsTypeOK', ListTypeOK'
    PROVE  DTypeOK'
  BY DEF DTypeOK, DashboardTypeOK, PanelsTypeOK, ListTypeOK, PageChoices

LEMMA ChosenPageTypes ==
    ASSUME NEW t, t.listing \in Listings, NEW other \in BOOLEAN, NEW p \in Buttons(t.listing)
    PROVE  ChosenPage(p, t, other) \in PageChoices
  <1>1. p \in Nat \ {0} /\ t.listing.total \in Nat
    BY DEF Buttons, Listings
  <1>2. (other \/ t.cause # {} \/ t.listing.page > t.listing.pages) \in BOOLEAN
    OBVIOUS
  <1> QED
    BY <1>1, <1>2 DEF ChosenPage, PageChoices

LEMMA ListTypesUntouched ==
    ASSUME ListTypeOK, UNCHANGED <<page, lists, table>>
    PROVE  ListTypeOK'
  BY DEF ListTypeOK

LEMMA PanelTypesUntouched ==
    ASSUME PanelsTypeOK, UNCHANGED <<input, url, cards, calls, shown>>
    PROVE  PanelsTypeOK'
  BY DEF PanelsTypeOK

LEMMA BootTypes ==
    ASSUME DTypeOK, BootClients \/ BootAliases \/ BootDies
    PROVE  DTypeOK'
  <1>1. ListTypeOK' /\ UNCHANGED <<page, url>>
    BY ListTypesUntouched DEF BootClients, BootAliases, BootDies, DTypeOK
  <1>2. boot' \in {"clients", "aliases", "ready", "dead"}
    BY DEF BootClients, BootAliases, BootDies
  <1>3. DOMAIN options' = Selects
    BY DEF BootClients, BootAliases, BootDies, Fetched, DTypeOK, DashboardTypeOK
  <1>4. /\ PanelsTypeOK'
        /\ \A b \in AllBoxes : {input'[b], url'[b]} \subseteq Values[b] \cup {None}
    <2>1. CASE BootClients \/ BootDies
      BY <2>1, PanelTypesUntouched DEF BootClients, BootDies, DTypeOK, DashboardTypeOK
    <2>2. CASE BootAliases
      <3>1. input' = BootBoxes(options') /\ LoadAll(input', url) /\ UNCHANGED url
        BY <2>2 DEF BootAliases
      <3>2. input' \in [AllBoxes -> AllValues] /\ \A b \in AllBoxes : input'[b] \in Values[b] \cup {None}
        BY <3>1, BootBoxesTypes
      <3>3. PanelsTypeOK'
        BY <3>1, <3>2, Loads DEF PanelsTypeOK, DTypeOK
      <3> QED
        BY <3>1, <3>2, <3>3 DEF DTypeOK, DashboardTypeOK
    <2> QED
      BY <2>1, <2>2
  <1> QED
    BY <1>1, <1>2, <1>3, <1>4, DTypes DEF DTypeOK, DashboardTypeOK

LEMMA EditTypes ==
    ASSUME DTypeOK, NEW b \in AllBoxes, NEW v \in Values[b] \cup {None}, Edit(b, v)
    PROVE  DTypeOK'
  <1>1. /\ input' = [input EXCEPT ![b] = v]
        /\ UNCHANGED <<boot, options, url, page, cards, calls, shown, lists, table>>
    BY DEF Edit
  <1>2. v \in AllValues
    BY DEF AllValues
  <1>3. input' \in [AllBoxes -> AllValues] /\ \A x \in AllBoxes : input'[x] \in Values[x] \cup {None}
    BY <1>1, <1>2 DEF DTypeOK, PanelsTypeOK, DashboardTypeOK
  <1>4. PanelsTypeOK' /\ ListTypeOK'
    BY <1>1, <1>3 DEF DTypeOK, PanelsTypeOK, ListTypeOK
  <1> QED
    BY <1>1, <1>3, <1>4, DTypes DEF DTypeOK, DashboardTypeOK

LEMMA LoadTypes ==
    ASSUME DTypeOK, Search \/ Recolour \/ ChangeDepth
    PROVE  DTypeOK'
  <1>1. /\ page' \in PageChoices /\ UNCHANGED <<boot, options, input, lists, table>>
        /\ url' \in {url, input}
    BY FirstPageTypes DEF Search, SearchedPage, Recolour, ChangeDepth, DTypeOK, ListTypeOK
  <1>2. url' \in [AllBoxes -> AllValues] /\ \A b \in AllBoxes : url'[b] \in Values[b] \cup {None}
    BY <1>1 DEF DTypeOK, PanelsTypeOK, DashboardTypeOK
  <1>3. PanelsTypeOK'
    <2>1. CASE ChangeDepth
      <3> DEFINE q == calls[DepthChart]
                 c == PanelCall(input, url)
      <3>1. Append(q, c) \in Seq(PanelCalls)
        BY OverviewIsPanel, PanelCallTypes, Appended DEF DTypeOK, PanelsTypeOK
      <3>2. calls' = [calls EXCEPT ![DepthChart] = Append(q, c)] /\ UNCHANGED <<cards, shown>>
        BY <2>1 DEF ChangeDepth
      <3> HIDE DEF q, c
      <3> QED
        BY <1>1, <1>2, <3>1, <3>2 DEF PanelsTypeOK, DTypeOK
    <2>2. CASE Search \/ Recolour
      <3>1. LoadAll(input, input) \/ LoadAll(input, url)
        BY <2>2 DEF Search, Recolour
      <3> QED
        BY <1>1, <1>2, <3>1, Loads DEF PanelsTypeOK, DTypeOK
    <2> QED
      BY <2>1, <2>2
  <1>4. ListTypeOK'
    BY <1>1 DEF DTypeOK, ListTypeOK
  <1> QED
    BY <1>1, <1>2, <1>3, <1>4, DTypes DEF DTypeOK, DashboardTypeOK

LEMMA GoPageTypes ==
    ASSUME DTypeOK, NEW p \in Buttons(table.listing), GoPage(p)
    PROVE  DTypeOK'
  <1>1. /\ page' = ChosenPage(p, table, table.ask # ListAsk \/ input # url)
        /\ lists' = Append(lists, ListCall(page'))
        /\ UNCHANGED <<boot, options, input, url, cards, calls, shown, table>>
    BY DEF GoPage
  <1>2. page' \in PageChoices
    <2>1. (table.ask # ListAsk \/ input # url) \in BOOLEAN /\ table.listing \in Listings
      BY DEF DTypeOK, ListTypeOK
    <2> QED
      BY <1>1, <2>1, ChosenPageTypes
  <1>3. ListCall(page') \in ListCalls
    BY <1>2, ListCallTypes DEF DTypeOK, PanelsTypeOK, DashboardTypeOK, AllBoxes
  <1>4. lists' \in Seq(ListCalls)
    BY <1>1, <1>3, Appended DEF DTypeOK, ListTypeOK
  <1>5. ListTypeOK' /\ PanelsTypeOK'
    BY <1>1, <1>2, <1>4, PanelTypesUntouched DEF ListTypeOK, DTypeOK
  <1> QED
    BY <1>1, <1>5, DTypes DEF DTypeOK, DashboardTypeOK

LEMMA ReloadTypes ==
    ASSUME DTypeOK, ReloadDashboard
    PROVE  DTypeOK'
  <1>1. PanelsTypeOK' /\ ListTypeOK' /\ DOMAIN options' = Selects /\ boot' = "clients" /\ url' = url
        /\ input' = Empty
    BY BlankTypes, FirstPageTypes DEF ReloadDashboard, PanelsTypeOK, ListTypeOK, DTypeOK
  <1>2. \A b \in AllBoxes : {input'[b], url'[b]} \subseteq Values[b] \cup {None}
    BY <1>1, BlankTypes DEF DTypeOK, DashboardTypeOK
  <1> QED
    BY <1>1, <1>2, DTypes

LEMMA ShownTypes ==
    ASSUME PanelsTypeOK, NEW p \in Panels, NEW c \in PanelCalls
    PROVE  /\ [ask |-> c.ask, cause |-> CausesOf(c)] \in [ask : Filters \cup {Nothing}, cause : SUBSET Causes]
           /\ Failed(shown[p]) \in [ask : Filters \cup {Nothing}, cause : SUBSET Causes]
           /\ Failed(shown[p]).cause # {}
  <1>1. c.ask \in Filters /\ CausesOf(c) \in SUBSET Causes
    BY DEF PanelCalls, CausesOf, Causes
  <1>2. shown[p] \in [ask : Filters \cup {Nothing}, cause : SUBSET Causes]
    BY DEF PanelsTypeOK
  <1>3. Failed(shown[p]) = [shown[p] EXCEPT !.cause = @ \cup {"failed"}]
    BY DEF Failed
  <1> QED
    BY <1>1, <1>2, <1>3 DEF Causes

LEMMA TableFails ==
    ASSUME ListTypeOK
    PROVE  /\ Failed(table) \in [error : BOOLEAN, ask : ListAsks \cup {Nothing}, listing : Listings,
                                 pg : PageChoices, cause : SUBSET Causes]
           /\ Failed(table).cause # {} /\ Failed(table).ask = table.ask
           /\ Failed(table).listing = table.listing /\ Failed(table).pg = table.pg
  BY DEF Failed, ListTypeOK, Causes

LEMMA PanelAnswered ==
    ASSUME PanelsTypeOK, NEW p \in Panels, NEW k \in DOMAIN calls[p]
    PROVE  /\ calls[p] \in Seq(PanelCalls) /\ calls[p][k] \in PanelCalls
           /\ WithoutCall(calls[p], k) \in Seq(PanelCalls)
           /\ WithoutCall(calls[p], k) = << >> => k = Len(calls[p])
           /\ WithoutCall(calls[p], k) # << >> =>
                \/ WithoutCall(calls[p], k)[Len(WithoutCall(calls[p], k))].passed
                \/ WithoutCall(calls[p], k)[Len(WithoutCall(calls[p], k))] = calls[p][Len(calls[p])]
  <1> DEFINE q == calls[p]
             w == WithoutCall(q, k)
  <1>1. q \in Seq(PanelCalls) /\ q[k] \in PanelCalls /\ \A i \in DOMAIN q : q[i] \in PanelCalls
    BY DEF PanelsTypeOK
  <1>2. \A c \in PanelCalls : Late(c) \in PanelCalls
    BY PanelCallPassed
  <1>3. /\ w \in Seq(PanelCalls) /\ (w = << >> => k = Len(q))
        /\ w # << >> => \E i \in DOMAIN q :
                w[Len(w)] = IF k = Len(q) THEN Late(q[i]) ELSE q[Len(q)]
    <2> HIDE DEF q
    <2>1. /\ WithoutCall(q, k) \in Seq(PanelCalls) /\ (WithoutCall(q, k) = << >> => k = Len(q))
          /\ WithoutCall(q, k) # << >> => \E i \in DOMAIN q : WithoutCall(q, k)[Len(WithoutCall(q, k))] =
                    IF k = Len(q) THEN Late(q[i]) ELSE q[Len(q)]
      <3>1. q \in Seq(PanelCalls) /\ k \in DOMAIN q
        BY <1>1 DEF q
      <3> QED
        BY <1>2, <3>1, WithoutOne
    <2> QED
      BY <2>1
  <1> HIDE DEF w, q
  <1>4. w # << >> => w[Len(w)].passed \/ w[Len(w)] = q[Len(q)]
    <2> SUFFICES ASSUME w # << >> PROVE w[Len(w)].passed \/ w[Len(w)] = q[Len(q)]
      OBVIOUS
    <2>1. PICK i \in DOMAIN q : w[Len(w)] = IF k = Len(q) THEN Late(q[i]) ELSE q[Len(q)]
      BY <1>3
    <2>2. Late(q[i]).passed
      BY <1>1, PanelCallPassed
    <2> QED
      BY <2>1, <2>2
  <1> QED
    BY <1>1, <1>3, <1>4 DEF w, q

LEMMA ListAnswered ==
    ASSUME ListTypeOK, NEW k \in DOMAIN lists
    PROVE  /\ lists[k] \in ListCalls
           /\ WithoutCall(lists, k) \in Seq(ListCalls)
           /\ WithoutCall(lists, k) = << >> => k = Len(lists)
           /\ WithoutCall(lists, k) # << >> =>
                \/ WithoutCall(lists, k)[Len(WithoutCall(lists, k))].passed
                \/ WithoutCall(lists, k)[Len(WithoutCall(lists, k))] = lists[Len(lists)]
           /\ \A i \in DOMAIN WithoutCall(lists, k) : \E j \in DOMAIN lists :
                /\ WithoutCall(lists, k)[i].ask = lists[j].ask
                /\ WithoutCall(lists, k)[i].pg = lists[j].pg
                /\ WithoutCall(lists, k)[i].unapplied = lists[j].unapplied
                /\ WithoutCall(lists, k)[i].answer = lists[j].answer
  <1> DEFINE w == WithoutCall(lists, k)
  <1>1. lists \in Seq(ListCalls) /\ \A i \in DOMAIN lists : lists[i] \in ListCalls
    BY DEF ListTypeOK
  <1>2. \A c \in ListCalls : Late(c) \in ListCalls
    BY ListCallPassed
  <1>3. /\ w \in Seq(ListCalls) /\ (w = << >> => k = Len(lists))
        /\ w # << >> => \E i \in DOMAIN lists :
                w[Len(w)] = IF k = Len(lists) THEN Late(lists[i]) ELSE lists[Len(lists)]
        /\ \A i \in DOMAIN w : \E j \in DOMAIN lists :
                w[i] = lists[j] \/ w[i] = Late(lists[j])
    <2> DEFINE q == lists
    <2> HIDE DEF q
    <2>1. q \in Seq(ListCalls) /\ k \in DOMAIN q
      BY <1>1 DEF q
    <2>2. /\ WithoutCall(q, k) \in Seq(ListCalls) /\ (WithoutCall(q, k) = << >> => k = Len(q))
          /\ WithoutCall(q, k) # << >> => \E i \in DOMAIN q : WithoutCall(q, k)[Len(WithoutCall(q, k))] =
                    IF k = Len(q) THEN Late(q[i]) ELSE q[Len(q)]
          /\ \A i \in DOMAIN WithoutCall(q, k) : \E j \in DOMAIN q :
                WithoutCall(q, k)[i] = q[j] \/ WithoutCall(q, k)[i] = Late(q[j])
      BY <1>2, <2>1, WithoutOne
    <2> QED
      BY <2>2 DEF q
  <1> HIDE DEF w
  <1>4. w # << >> => w[Len(w)].passed \/ w[Len(w)] = lists[Len(lists)]
    <2> SUFFICES ASSUME w # << >> PROVE w[Len(w)].passed \/ w[Len(w)] = lists[Len(lists)]
      OBVIOUS
    <2>1. PICK i \in DOMAIN lists :
            w[Len(w)] = IF k = Len(lists) THEN Late(lists[i]) ELSE lists[Len(lists)]
      BY <1>3
    <2>2. Late(lists[i]).passed
      BY <1>1, ListCallPassed
    <2> QED
      BY <2>1, <2>2
  <1>5. \A i \in DOMAIN w : \E j \in DOMAIN lists :
            w[i].ask = lists[j].ask /\ w[i].pg = lists[j].pg
            /\ w[i].unapplied = lists[j].unapplied /\ w[i].answer = lists[j].answer
    <2> SUFFICES ASSUME NEW i \in DOMAIN w
                 PROVE  \E j \in DOMAIN lists :
                            w[i].ask = lists[j].ask /\ w[i].pg = lists[j].pg
                            /\ w[i].unapplied = lists[j].unapplied /\ w[i].answer = lists[j].answer
      OBVIOUS
    <2>1. PICK j \in DOMAIN lists : w[i] = lists[j] \/ w[i] = Late(lists[j])
      BY <1>3
    <2>2. lists[j] \in ListCalls
      BY <1>1
    <2>3. /\ w[i].ask = lists[j].ask /\ w[i].pg = lists[j].pg
          /\ w[i].unapplied = lists[j].unapplied /\ w[i].answer = lists[j].answer
      BY <2>1, <2>2, ListCallPassed
    <2> QED
      BY <2>3
  <1> QED
    BY <1>1, <1>3, <1>4, <1>5 DEF w

LEMMA AnswerOverviewTypes ==
    ASSUME DTypeOK, NEW k \in DOMAIN calls["overview"], AnswerOverview(k)
    PROVE  DTypeOK'
  <1> DEFINE c == calls["overview"][k]
  <1>1. /\ \/ shown' = [shown EXCEPT !["overview"] = [ask |-> c.ask, cause |-> CausesOf(c)]]
           \/ shown' = [shown EXCEPT !["overview"] = Failed(shown["overview"])]
        /\ calls' = [p \in Panels |-> IF p = "overview" THEN WithoutCall(calls[p], k)
                                      ELSE Append(calls[p], PanelCall(input, url))]
        /\ lists' = Append(lists, ListCall(page))
        /\ UNCHANGED <<boot, options, input, url, page, cards, table>>
    BY DEF AnswerOverview, RestCall
  <1>2. c \in PanelCalls /\ WithoutCall(calls["overview"], k) \in Seq(PanelCalls)
    BY OverviewIsPanel, PanelAnswered DEF DTypeOK
  <1>3. \A p \in Panels : Append(calls[p], PanelCall(input, url)) \in Seq(PanelCalls)
    BY PanelCallTypes, Appended DEF DTypeOK, PanelsTypeOK
  <1>4. calls' \in [Panels -> Seq(PanelCalls)]
    BY <1>1, <1>2, <1>3
  <1>5. shown' \in [Panels -> [ask : Filters \cup {Nothing}, cause : SUBSET Causes]]
    <2>1. [ask |-> c.ask, cause |-> CausesOf(c)] \in [ask : Filters \cup {Nothing}, cause : SUBSET Causes]
          /\ Failed(shown["overview"]) \in [ask : Filters \cup {Nothing}, cause : SUBSET Causes]
      BY <1>2, ShownTypes, OverviewIsPanel DEF DTypeOK
    <2> HIDE DEF c
    <2> QED
      BY <1>1, <2>1 DEF DTypeOK, PanelsTypeOK
  <1>6. lists' \in Seq(ListCalls)
    <2>1. ListCall(page) \in ListCalls
      BY ListCallTypes DEF DTypeOK, PanelsTypeOK, DashboardTypeOK, ListTypeOK, AllBoxes
    <2> QED
      BY <1>1, <2>1, Appended DEF DTypeOK, ListTypeOK
  <1>7. PanelsTypeOK' /\ ListTypeOK'
    BY <1>1, <1>4, <1>5, <1>6 DEF PanelsTypeOK, ListTypeOK, DTypeOK
  <1> QED
    BY <1>1, <1>7, DTypes DEF DTypeOK, DashboardTypeOK

LEMMA PassedTypes ==
    ASSUME DTypeOK
    PROVE  /\ Passed(lists) \in Seq(ListCalls) /\ \A p \in Panels : Passed(calls[p]) \in Seq(PanelCalls)
           /\ lists = << >> <=> Passed(lists) = << >>
           /\ lists # << >> => Passed(lists)[Len(Passed(lists))].passed
           /\ \A p \in Panels : /\ calls[p] = << >> <=> Passed(calls[p]) = << >>
                                /\ calls[p] # << >> => Passed(calls[p])[Len(Passed(calls[p]))].passed
           /\ \A i \in DOMAIN Passed(lists) :
                /\ i \in DOMAIN lists
                /\ Passed(lists)[i].ask = lists[i].ask
                /\ Passed(lists)[i].pg = lists[i].pg
                /\ Passed(lists)[i].unapplied = lists[i].unapplied
                /\ Passed(lists)[i].answer = lists[i].answer
  <1>1. lists \in Seq(ListCalls) /\ \A i \in DOMAIN lists : lists[i] \in ListCalls
    BY DEF DTypeOK, ListTypeOK
  <1>2. /\ Passed(lists) \in Seq(ListCalls) /\ Len(Passed(lists)) = Len(lists)
        /\ DOMAIN Passed(lists) = DOMAIN lists
        /\ \A i \in DOMAIN lists : Passed(lists)[i] = Late(lists[i])
    BY <1>1, AllPassed, ListCallPassed
  <1>3. lists # << >> => Len(lists) \in DOMAIN lists
    BY <1>1
  <1>4. lists # << >> => Passed(lists)[Len(Passed(lists))].passed
    <2> SUFFICES ASSUME lists # << >> PROVE Passed(lists)[Len(Passed(lists))].passed
      OBVIOUS
    <2> DEFINE c == lists[Len(lists)]
    <2>1. c \in ListCalls /\ Passed(lists)[Len(Passed(lists))] = Late(c)
      BY <1>1, <1>2, <1>3
    <2> HIDE DEF c
    <2> QED
      BY <2>1, ListCallPassed
  <1>5. lists = << >> <=> Passed(lists) = << >>
    BY <1>1, <1>2
  <1>6. ASSUME NEW p \in Panels
        PROVE  /\ Passed(calls[p]) \in Seq(PanelCalls)
               /\ calls[p] = << >> <=> Passed(calls[p]) = << >>
               /\ calls[p] # << >> => Passed(calls[p])[Len(Passed(calls[p]))].passed
    <2> DEFINE q == calls[p]
    <2>1. q \in Seq(PanelCalls) /\ \A i \in DOMAIN q : q[i] \in PanelCalls
      BY DEF DTypeOK, PanelsTypeOK
    <2> HIDE DEF q
    <2>2. /\ Passed(q) \in Seq(PanelCalls) /\ Len(Passed(q)) = Len(q)
          /\ \A i \in DOMAIN q : Passed(q)[i] = Late(q[i])
      BY <2>1, AllPassed, PanelCallPassed
    <2>3. q # << >> => Len(q) \in DOMAIN q
      BY <2>1
    <2>4. q # << >> => Passed(q)[Len(Passed(q))].passed
      BY <2>1, <2>2, <2>3, PanelCallPassed
    <2>5. q = << >> <=> Passed(q) = << >>
      BY <2>1, <2>2
    <2> QED
      BY <2>2, <2>4, <2>5 DEF q
  <1>7. \A i \in DOMAIN Passed(lists) :
            /\ i \in DOMAIN lists
            /\ Passed(lists)[i].ask = lists[i].ask
            /\ Passed(lists)[i].pg = lists[i].pg
            /\ Passed(lists)[i].unapplied = lists[i].unapplied
            /\ Passed(lists)[i].answer = lists[i].answer
    BY <1>1, <1>2, ListCallPassed
  <1> QED
    BY <1>2, <1>4, <1>5, <1>6, <1>7

LEMMA OverviewRejectedTypes ==
    ASSUME DTypeOK, NEW k \in DOMAIN calls["overview"], OverviewRejected(k)
    PROVE  DTypeOK'
  <1>1. /\ calls' = [p \in Panels |-> IF p = "overview" THEN WithoutCall(calls[p], k) ELSE Passed(calls[p])]
        /\ lists' = Passed(lists) /\ shown' = [p \in Panels |-> Failed(shown[p])] /\ table' = Failed(table)
        /\ UNCHANGED <<boot, options, input, url, page, cards>>
    BY DEF OverviewRejected
  <1>2. WithoutCall(calls["overview"], k) \in Seq(PanelCalls)
    BY OverviewIsPanel, PanelAnswered DEF DTypeOK
  <1>3. calls' \in [Panels -> Seq(PanelCalls)]
    BY <1>1, <1>2, PassedTypes
  <1>4. \A p \in Panels : Failed(shown[p]) \in [ask : Filters \cup {Nothing}, cause : SUBSET Causes]
    <2>1. PICK c : c \in PanelCalls
      BY OverviewIsPanel, PanelAnswered DEF DTypeOK
    <2> QED
      BY <2>1, ShownTypes DEF DTypeOK
  <1>5. shown' \in [Panels -> [ask : Filters \cup {Nothing}, cause : SUBSET Causes]]
    BY <1>1, <1>4
  <1>6. PanelsTypeOK' /\ ListTypeOK'
    BY <1>1, <1>3, <1>5, PassedTypes, TableFails DEF PanelsTypeOK, ListTypeOK, DTypeOK
  <1> QED
    BY <1>1, <1>6, DTypes DEF DTypeOK, DashboardTypeOK

LEMMA AnswerChartTypes ==
    ASSUME DTypeOK, NEW p \in Charts, NEW k \in DOMAIN calls[p], AnswerChart(p, k)
    PROVE  DTypeOK'
  <1> DEFINE c == calls[p][k]
             w == WithoutCall(calls[p], k)
  <1>1. /\ calls' = [calls EXCEPT ![p] = w]
        /\ \/ shown' = [shown EXCEPT ![p] = [ask |-> c.ask, cause |-> CausesOf(c)]]
           \/ shown' = [shown EXCEPT ![p] = Failed(shown[p])]
        /\ UNCHANGED <<boot, options, input, url, page, cards, lists, table>>
    BY DEF AnswerChart
  <1>2. p \in Panels /\ w \in Seq(PanelCalls) /\ c \in PanelCalls
    BY OverviewIsPanel, PanelAnswered DEF DTypeOK
  <1>3. /\ [ask |-> c.ask, cause |-> CausesOf(c)] \in [ask : Filters \cup {Nothing}, cause : SUBSET Causes]
        /\ Failed(shown[p]) \in [ask : Filters \cup {Nothing}, cause : SUBSET Causes]
    BY <1>2, ShownTypes DEF DTypeOK
  <1> HIDE DEF c, w
  <1>4. PanelsTypeOK'
    BY <1>1, <1>2, <1>3 DEF PanelsTypeOK, DTypeOK
  <1>5. ListTypeOK'
    BY <1>1, ListTypesUntouched DEF DTypeOK
  <1> QED
    BY <1>1, <1>4, <1>5, DTypes DEF DTypeOK, DashboardTypeOK

\* What the server reads is the list asked for.
LEMMA Served ==
    ASSUME DTypeOK, NEW k \in DOMAIN lists, ServeList(k)
    PROVE  /\ lists' \in Seq(ListCalls) /\ DOMAIN lists' = DOMAIN lists /\ Len(lists') = Len(lists)
           /\ \A i \in DOMAIN lists :
                /\ lists'[i].ask = lists[i].ask /\ lists'[i].pg = lists[i].pg
                /\ lists'[i].unapplied = lists[i].unapplied
                /\ lists'[i].passed = lists[i].passed
                /\ i # k => lists'[i].answer = lists[i].answer
           /\ Right(lists'[k].answer, lists[k].pg, lists[k].ask.per)
  <1> DEFINE c == lists[k]
             l == Listing(c.ask.filter, c.pg.no, c.ask.per)
             a == [c EXCEPT !.answer = l]
  <1>1. lists \in Seq(ListCalls) /\ DOMAIN lists = 1..Len(lists) /\ \A i \in DOMAIN lists : lists[i] \in ListCalls
    BY DEF DTypeOK, ListTypeOK
  <1>2. c \in ListCalls /\ c.pg \in PageChoices /\ c.ask.per \in Nat \ {0}
    BY <1>1 DEF ListCalls, ListAsks
  <1>3. l \in Listings /\ Right(l, c.pg, c.ask.per)
    BY <1>2, ListingRight
  <1>4. lists' = [lists EXCEPT ![k] = a]
    BY DEF ServeList
  <1> HIDE DEF c, l
  <1>5. /\ a \in ListCalls /\ a.ask = c.ask /\ a.pg = c.pg
        /\ a.unapplied = c.unapplied /\ a.passed = c.passed /\ a.answer = l
    BY <1>2, <1>3 DEF ListCalls
  <1> HIDE DEF a
  <1>6. /\ lists' \in Seq(ListCalls) /\ DOMAIN lists' = DOMAIN lists /\ Len(lists') = Len(lists)
        /\ lists'[k] = a /\ \A i \in DOMAIN lists : i # k => lists'[i] = lists[i]
    BY <1>1, <1>4, <1>5
  <1>7. \A i \in DOMAIN lists :
            /\ lists'[i].ask = lists[i].ask /\ lists'[i].pg = lists[i].pg
            /\ lists'[i].unapplied = lists[i].unapplied
            /\ lists'[i].passed = lists[i].passed
            /\ i # k => lists'[i].answer = lists[i].answer
    BY <1>5, <1>6 DEF c
  <1>8. Right(lists'[k].answer, lists[k].pg, lists[k].ask.per)
    BY <1>3, <1>5, <1>6 DEF c
  <1> QED
    BY <1>6, <1>7, <1>8

LEMMA ServeListTypes ==
    ASSUME DTypeOK, NEW k \in DOMAIN lists, ServeList(k)
    PROVE  DTypeOK'
  <1>1. UNCHANGED <<boot, options, input, url, page, cards, calls, shown, table>>
    BY DEF ServeList
  <1>2. ListTypeOK' /\ PanelsTypeOK'
    BY <1>1, Served, PanelTypesUntouched DEF ListTypeOK, DTypeOK
  <1> QED
    BY <1>1, <1>2, DTypes DEF DTypeOK, DashboardTypeOK

LEMMA ReceiveListTypes ==
    ASSUME DTypeOK, NEW k \in DOMAIN lists, ReceiveList(k)
    PROVE  DTypeOK'
  <1> DEFINE c == lists[k]
  <1>1. /\ lists' = WithoutCall(lists, k)
        /\ \/ /\ c.answer # Nothing
              /\ table' = [error |-> FALSE, ask |-> c.ask, listing |-> c.answer, pg |-> c.pg,
                           cause |-> CausesOf(c)]
           \/ \E e \in {TRUE, table.error} : table' = [Failed(table) EXCEPT !.error = e]
        /\ UNCHANGED <<boot, options, input, url, page, cards, calls, shown>>
    BY DEF ReceiveList, Listed
  <1>2. c \in ListCalls /\ lists' \in Seq(ListCalls)
    BY <1>1, ListAnswered DEF DTypeOK
  <1>3. table' \in [error : BOOLEAN, ask : ListAsks \cup {Nothing}, listing : Listings,
                    pg : PageChoices, cause : SUBSET Causes]
    <2>1. CASE /\ c.answer # Nothing
               /\ table' = [error |-> FALSE, ask |-> c.ask, listing |-> c.answer, pg |-> c.pg,
                            cause |-> CausesOf(c)]
      <3>1. c.ask \in ListAsks /\ c.answer \in Listings /\ c.pg \in PageChoices
        BY <1>2, <2>1 DEF ListCalls
      <3>2. CausesOf(c) \in SUBSET Causes
        BY DEF CausesOf, Causes
      <3> QED
        BY <2>1, <3>1, <3>2
    <2>2. CASE \E e \in {TRUE, table.error} : table' = [Failed(table) EXCEPT !.error = e]
      <3>1. PICK e \in {TRUE, table.error} : table' = [Failed(table) EXCEPT !.error = e]
        BY <2>2
      <3>2. e \in BOOLEAN
        BY <3>1 DEF DTypeOK, ListTypeOK
      <3> QED
        BY <3>1, <3>2, TableFails DEF DTypeOK
    <2> QED
      BY <1>1, <2>1, <2>2
  <1>4. ListTypeOK' /\ PanelsTypeOK'
    BY <1>1, <1>2, <1>3, PanelTypesUntouched DEF ListTypeOK, DTypeOK
  <1> QED
    BY <1>1, <1>4, DTypes DEF DTypeOK, DashboardTypeOK

\* The types of the dashboard are kept by all of its steps.
LEMMA DTypesKept ==
    ASSUME DTypeOK, DashboardNext \/ UNCHANGED dashVars
    PROVE  DTypeOK'
  <1>1. CASE UNCHANGED dashVars
    BY <1>1, DTypes, ListTypesUntouched, PanelTypesUntouched DEF dashVars, DTypeOK, DashboardTypeOK
  <1>2. CASE DashboardNext
    BY <1>2, BootTypes, EditTypes, LoadTypes, GoPageTypes, ReloadTypes, AnswerOverviewTypes,
       OverviewRejectedTypes, AnswerChartTypes, ServeListTypes, ReceiveListTypes
    DEF DashboardNext, DashboardAnswers
  <1> QED
    BY <1>1, <1>2

LEMMA DTypesInitially == DashboardInit => DTypeOK
  <1> SUFFICES ASSUME DashboardInit PROVE DTypeOK
    OBVIOUS
  <1>1. PanelsTypeOK
    BY BlankTypes, DashboardAssumption DEF DashboardInit, PanelsTypeOK, AllValues
  <1>2. ListTypeOK
    BY BlankTypes, FirstPageTypes DEF DashboardInit, ListTypeOK
  <1>3. \A b \in AllBoxes : {input[b], url[b]} \subseteq Values[b] \cup {None}
    BY BlankTypes, DashboardAssumption DEF DashboardInit
  <1> QED
    BY <1>1, <1>2, <1>3, BlankTypes DEF DashboardInit, DTypeOK, DashboardTypeOK, PanelsTypeOK,
       ListTypeOK, PageChoices

-----------------------------------------------------------------------------
(* Panels *)

LEMMA Caused ==
    ASSUME NEW c, c.unapplied \/ c.passed
    PROVE  CausesOf(c) # {}
  <1>1. CASE c.unapplied
    <2>1. "unapplied" \in CausesOf(c)
      BY <1>1 DEF CausesOf
    <2> QED
      BY <2>1
  <1>2. CASE c.passed
    <2>1. "overtaken" \in CausesOf(c)
      BY <1>2 DEF CausesOf
    <2> QED
      BY <2>1
  <1> QED
    BY <1>1, <1>2

\* A call that has just been made is for the address bar, or the boxes are not.
LEMMA SentIsUpToDate ==
    ASSUME NEW p \in Panels, NEW i, calls'[p] # << >>,
           calls'[p][Len(calls'[p])] = PanelCall(i, url')
    PROVE  UpToDate(p)'
  <1>1. CASE i = url'
    BY <1>1 DEF UpToDate, PanelCall
  <1>2. CASE i # url'
    <2>1. PanelCall(i, url').unapplied
      BY <1>2 DEF PanelCall
    <2> QED
      BY <2>1 DEF UpToDate
  <1> QED
    BY <1>1, <1>2

LEMMA AnswerKeepsUpToDate ==
    ASSUME DTypeOK, NEW p \in Panels, UpToDate(p), NEW k \in DOMAIN calls[p],
           calls'[p] = WithoutCall(calls[p], k), url' = url,
           \/ shown'[p] = [ask |-> calls[p][k].ask, cause |-> CausesOf(calls[p][k])]
           \/ shown'[p] = Failed(shown[p])
    PROVE  UpToDate(p)'
  <1> DEFINE q == calls[p]
             w == calls'[p]
  <1>1. /\ q \in Seq(PanelCalls) /\ q[k] \in PanelCalls /\ w \in Seq(PanelCalls)
        /\ w = << >> => k = Len(q)
        /\ w # << >> => w[Len(w)].passed \/ w[Len(w)] = q[Len(q)]
    BY PanelAnswered DEF DTypeOK
  <1>2. q # << >>
    BY <1>1
  <1>3. LET c == q[Len(q)] IN c.ask = FilterOf(url) \/ c.unapplied \/ c.passed
    BY <1>2 DEF UpToDate
  <1>4. CASE w = << >>
    <2>1. CASE shown'[p] = [ask |-> q[k].ask, cause |-> CausesOf(q[k])]
      <3>1. q[k].ask = FilterOf(url) \/ CausesOf(q[k]) # {}
        BY <1>1, <1>3, <1>4, Caused
      <3>2. shown'[p].ask = FilterOf(url) \/ shown'[p].cause # {}
        BY <2>1, <3>1
      <3> QED
        BY <1>4, <3>2 DEF UpToDate
    <2>2. CASE shown'[p] = Failed(shown[p])
      <3>1. shown'[p].cause # {}
        BY <1>1, <2>2, ShownTypes DEF DTypeOK
      <3> QED
        BY <1>4, <3>1 DEF UpToDate
    <2> QED
      BY <2>1, <2>2
  <1>5. CASE w # << >>
    <2>1. LET c == w[Len(w)] IN c.ask = FilterOf(url) \/ c.unapplied \/ c.passed
      BY <1>1, <1>3, <1>5
    <2> QED
      BY <1>5, <2>1 DEF UpToDate
  <1> QED
    BY <1>4, <1>5

LEMMA PanelUntouched ==
    ASSUME NEW p \in Panels, UpToDate(p), calls'[p] = calls[p], shown'[p] = shown[p], url' = url
    PROVE  UpToDate(p)'
  BY DEF UpToDate

LEMMA ListUntouched ==
    ASSUME ListUpToDate, UNCHANGED <<lists, table, url>>
    PROVE  ListUpToDate'
  BY DEF ListUpToDate, UrlAsk

\* A call for the list is for the address bar, or the boxes are not.
LEMMA SentListIsUpToDate ==
    ASSUME NEW pg, lists' # << >>, lists'[Len(lists')] = ListCall(pg), UNCHANGED <<input, url>>
    PROVE  ListUpToDate'
  <1>1. CASE input = url
    BY <1>1 DEF ListUpToDate, ListCall, ListAsk, UrlAsk
  <1>2. CASE input # url
    <2>1. ListCall(pg).unapplied
      BY <1>2 DEF ListCall
    <2> QED
      BY <2>1 DEF ListUpToDate
  <1> QED
    BY <1>1, <1>2

LEMMA LoadFollows ==
    ASSUME DTypeOK, NEW i \in [AllBoxes -> AllValues], LoadAll(i, url')
    PROVE  PanelsFollow'
  <1>1. /\ calls'["overview"] # << >>
        /\ calls'["overview"][Len(calls'["overview"])] = PanelCall(i, url')
        /\ cards' \in [hidden : BOOLEAN, unapplied : BOOLEAN]
        /\ cards'.hidden <=> \E b \in Boxes : i[b] # None
        /\ cards'.unapplied <=> i # url'
    BY Loads
  <1>2. UpToDate("overview")'
    BY <1>1, SentIsUpToDate, OverviewIsPanel
  <1>3. cards'.hidden = (\E b \in Boxes : url'[b] # None) \/ cards'.unapplied
    BY <1>1
  <1> QED
    BY <1>1, <1>2, <1>3 DEF PanelsFollow

LEMMA ChangeDepthFollows ==
    ASSUME DTypeOK, PanelsFollow, ChangeDepth
    PROVE  PanelsFollow'
  <1> DEFINE q == calls[DepthChart]
             c == PanelCall(input, url)
  <1>1. /\ calls' = [calls EXCEPT ![DepthChart] = Append(q, c)]
        /\ UNCHANGED <<boot, url, cards, shown, lists, table>>
    BY DEF ChangeDepth
  <1>2. Append(q, c) # << >> /\ Append(q, c)[Len(Append(q, c))] = c
    <2>1. q \in Seq(PanelCalls) /\ c \in PanelCalls
      BY OverviewIsPanel, PanelCallTypes DEF DTypeOK, PanelsTypeOK
    <2> HIDE DEF q, c
    <2> QED
      BY <2>1, Appended
  <1> HIDE DEF q, c
  <1>3. /\ calls'[DepthChart] = Append(q, c)
        /\ \A p \in Panels : p # DepthChart => calls'[p] = calls[p]
    BY <1>1, OverviewIsPanel DEF DTypeOK, PanelsTypeOK
  <1>4. UpToDate(DepthChart)'
    BY <1>1, <1>2, <1>3, SentIsUpToDate, OverviewIsPanel DEF c
  <1>5. \A p \in Panels : UpToDate(p) => UpToDate(p)'
    BY <1>1, <1>3, <1>4, PanelUntouched
  <1>6. calls'["overview"] = calls["overview"]
    BY <1>3, OverviewIsPanel
  <1>7. ListUpToDate => ListUpToDate'
    BY <1>1, ListUntouched
  <1> QED
    BY <1>1, <1>5, <1>6, <1>7, OverviewIsPanel DEF PanelsFollow

\* Only the list is concerned.
LEMMA ListFollows ==
    ASSUME PanelsFollow, UNCHANGED <<boot, url, cards, calls, shown>>, ListUpToDate => ListUpToDate'
    PROVE  PanelsFollow'
  <1>1. \A p \in Panels : UpToDate(p) => UpToDate(p)'
    BY PanelUntouched
  <1> QED
    BY <1>1, OverviewIsPanel DEF PanelsFollow

LEMMA GoPageFollows ==
    ASSUME DTypeOK, PanelsFollow, NEW p \in Buttons(table.listing), GoPage(p)
    PROVE  PanelsFollow'
  <1>1. /\ lists' = Append(lists, ListCall(page'))
        /\ UNCHANGED <<boot, input, url, cards, calls, shown, table>>
    BY DEF GoPage
  <1>2. page' \in PageChoices
    BY GoPageTypes DEF DTypeOK, ListTypeOK
  <1>3. ListCall(page') \in ListCalls
    BY <1>2, ListCallTypes DEF DTypeOK, PanelsTypeOK, DashboardTypeOK, AllBoxes
  <1>4. lists' # << >> /\ lists'[Len(lists')] = ListCall(page')
    BY <1>1, <1>3, Appended DEF DTypeOK, ListTypeOK
  <1>5. ListUpToDate'
    BY <1>1, <1>4, SentListIsUpToDate
  <1> QED
    BY <1>1, <1>5, ListFollows

LEMMA AnswerOverviewFollows ==
    ASSUME DTypeOK, PanelsFollow, NEW k \in DOMAIN calls["overview"], AnswerOverview(k)
    PROVE  PanelsFollow'
  <1> DEFINE c == calls["overview"][k]
  <1>1. /\ \/ shown' = [shown EXCEPT !["overview"] = [ask |-> c.ask, cause |-> CausesOf(c)]]
           \/ shown' = [shown EXCEPT !["overview"] = Failed(shown["overview"])]
        /\ calls' = [p \in Panels |-> IF p = "overview" THEN WithoutCall(calls[p], k)
                                      ELSE Append(calls[p], PanelCall(input, url))]
        /\ lists' = Append(lists, ListCall(page))
        /\ UNCHANGED <<boot, options, input, url, page, cards, table>>
    BY DEF AnswerOverview, RestCall
  <1>2. /\ calls'["overview"] = WithoutCall(calls["overview"], k)
        /\ \A p \in Charts : calls'[p] = Append(calls[p], PanelCall(input, url))
    BY <1>1, OverviewIsPanel, DashboardAssumption
  <1>3. \/ shown'["overview"] = [ask |-> c.ask, cause |-> CausesOf(c)]
        \/ shown'["overview"] = Failed(shown["overview"])
    <2> HIDE DEF c
    <2> QED
      BY <1>1, OverviewIsPanel DEF DTypeOK, PanelsTypeOK
  <1>4. boot = "ready" => UpToDate("overview")'
    BY <1>1, <1>2, <1>3, AnswerKeepsUpToDate, OverviewIsPanel DEF PanelsFollow
  <1>5. \A p \in Charts : UpToDate(p)'
    <2> SUFFICES ASSUME NEW p \in Charts PROVE UpToDate(p)'
      OBVIOUS
    <2>1. calls[p] \in Seq(PanelCalls) /\ PanelCall(input, url) \in PanelCalls
      BY PanelCallTypes, OverviewIsPanel DEF DTypeOK, PanelsTypeOK
    <2>2. calls'[p] # << >> /\ calls'[p][Len(calls'[p])] = PanelCall(input, url)
      BY <1>2, <2>1, Appended
    <2> QED
      BY <1>1, <2>2, SentIsUpToDate, OverviewIsPanel
  <1>6. ListUpToDate'
    <2>1. ListCall(page) \in ListCalls
      BY ListCallTypes DEF DTypeOK, PanelsTypeOK, DashboardTypeOK, ListTypeOK, AllBoxes
    <2>2. lists' # << >> /\ lists'[Len(lists')] = ListCall(page)
      BY <1>1, <2>1, Appended DEF DTypeOK, ListTypeOK
    <2> QED
      BY <1>1, <2>2, SentListIsUpToDate
  <1> QED
    BY <1>1, <1>4, <1>5, <1>6 DEF PanelsFollow

\* Every panel now has the failed call for an excuse.
LEMMA OverviewRejectedFollows ==
    ASSUME DTypeOK, PanelsFollow, NEW k \in DOMAIN calls["overview"], OverviewRejected(k)
    PROVE  PanelsFollow'
  <1>1. /\ calls' = [p \in Panels |-> IF p = "overview" THEN WithoutCall(calls[p], k) ELSE Passed(calls[p])]
        /\ lists' = Passed(lists) /\ shown' = [p \in Panels |-> Failed(shown[p])] /\ table' = Failed(table)
        /\ UNCHANGED <<boot, options, input, url, page, cards>>
    BY DEF OverviewRejected
  <1>2. /\ calls'["overview"] = WithoutCall(calls["overview"], k)
        /\ \A p \in Charts : calls'[p] = Passed(calls[p])
        /\ \A p \in Panels : shown'[p] = Failed(shown[p])
    BY <1>1, OverviewIsPanel, DashboardAssumption
  <1>3. boot = "ready" => UpToDate("overview")'
    BY <1>1, <1>2, AnswerKeepsUpToDate, OverviewIsPanel DEF PanelsFollow
  <1>4. \A p \in Charts : UpToDate(p)'
    <2> SUFFICES ASSUME NEW p \in Charts PROVE UpToDate(p)'
      OBVIOUS
    <2>1. p \in Panels
      BY OverviewIsPanel
    <2>2. shown'[p].cause # {}
      <3>1. PICK c : c \in PanelCalls
        BY OverviewIsPanel, PanelAnswered DEF DTypeOK
      <3> QED
        BY <1>2, <2>1, <3>1, ShownTypes DEF DTypeOK
    <2>3. calls'[p] # << >> => calls'[p][Len(calls'[p])].passed
      BY <1>2, <2>1, PassedTypes
    <2> QED
      BY <2>2, <2>3 DEF UpToDate
  <1>5. ListUpToDate'
    BY <1>1, PassedTypes, TableFails DEF ListUpToDate, DTypeOK
  <1> QED
    BY <1>1, <1>3, <1>4, <1>5 DEF PanelsFollow

LEMMA AnswerChartFollows ==
    ASSUME DTypeOK, PanelsFollow, NEW p \in Charts, NEW k \in DOMAIN calls[p], AnswerChart(p, k)
    PROVE  PanelsFollow'
  <1> DEFINE c == calls[p][k]
             w == WithoutCall(calls[p], k)
  <1>1. /\ calls' = [calls EXCEPT ![p] = w]
        /\ \/ shown' = [shown EXCEPT ![p] = [ask |-> c.ask, cause |-> CausesOf(c)]]
           \/ shown' = [shown EXCEPT ![p] = Failed(shown[p])]
        /\ UNCHANGED <<boot, options, input, url, page, cards, lists, table>>
    BY DEF AnswerChart
  <1>2. p \in Panels /\ p # "overview"
    BY OverviewIsPanel, DashboardAssumption
  <1>3. /\ calls'[p] = w
        /\ \/ shown'[p] = [ask |-> c.ask, cause |-> CausesOf(c)]
           \/ shown'[p] = Failed(shown[p])
        /\ \A x \in Panels : x # p => calls'[x] = calls[x] /\ shown'[x] = shown[x]
    <2> HIDE DEF c, w
    <2> QED
      BY <1>1, <1>2 DEF DTypeOK, PanelsTypeOK
  <1>4. UpToDate(p) => UpToDate(p)'
    BY <1>1, <1>2, <1>3, AnswerKeepsUpToDate
  <1>5. \A x \in Panels : x # p => (UpToDate(x) => UpToDate(x)')
    BY <1>1, <1>3, PanelUntouched
  <1>6. ListUpToDate => ListUpToDate'
    BY <1>1, ListUntouched
  <1>7. calls'["overview"] = calls["overview"]
    BY <1>2, <1>3, OverviewIsPanel
  <1> QED
    BY <1>1, <1>4, <1>5, <1>6, <1>7, OverviewIsPanel DEF PanelsFollow

LEMMA ServeListFollows ==
    ASSUME DTypeOK, PanelsFollow, NEW k \in DOMAIN lists, ServeList(k)
    PROVE  PanelsFollow'
  <1>1. UNCHANGED <<boot, url, cards, calls, shown, table>>
    BY DEF ServeList
  <1>2. lists \in Seq(ListCalls) /\ lists # << >> /\ Len(lists) \in DOMAIN lists
    BY DEF DTypeOK, ListTypeOK
  <1>3. ListUpToDate => ListUpToDate'
    <2>1. lists' # << >> /\ Len(lists') = Len(lists)
      BY <1>2, Served
    <2>2. /\ lists'[Len(lists')].ask = lists[Len(lists)].ask
          /\ lists'[Len(lists')].unapplied = lists[Len(lists)].unapplied
          /\ lists'[Len(lists')].passed = lists[Len(lists)].passed
      BY <1>2, <2>1, Served
    <2> QED
      BY <1>1, <1>2, <2>1, <2>2 DEF ListUpToDate, UrlAsk
  <1> QED
    BY <1>1, <1>3, ListFollows

LEMMA ReceiveListFollows ==
    ASSUME DTypeOK, PanelsFollow, NEW k \in DOMAIN lists, ReceiveList(k)
    PROVE  PanelsFollow'
  <1> DEFINE c == lists[k]
             w == WithoutCall(lists, k)
  <1>1. /\ lists' = w
        /\ \/ table' = [error |-> FALSE, ask |-> c.ask, listing |-> c.answer, pg |-> c.pg,
                        cause |-> CausesOf(c)]
           \/ \E e \in {TRUE, table.error} : table' = [Failed(table) EXCEPT !.error = e]
        /\ UNCHANGED <<boot, url, cards, calls, shown>>
    BY DEF ReceiveList, Listed
  <1>2. /\ w \in Seq(ListCalls) /\ (w = << >> => k = Len(lists))
        /\ w # << >> => w[Len(w)].passed \/ w[Len(w)] = lists[Len(lists)]
        /\ lists # << >>
    BY ListAnswered DEF DTypeOK, ListTypeOK
  <1>3. ASSUME ListUpToDate
        PROVE  ListUpToDate'
    <2>1. LET d == lists[Len(lists)] IN d.ask = UrlAsk \/ d.unapplied \/ d.passed
      BY <1>2, <1>3 DEF ListUpToDate
    <2>2. CASE w # << >>
      <3>1. LET d == w[Len(w)] IN d.ask = UrlAsk \/ d.unapplied \/ d.passed
        BY <1>2, <2>1, <2>2
      <3>2. UrlAsk' = UrlAsk
        BY <1>1 DEF UrlAsk
      <3> HIDE DEF w
      <3> QED
        BY <1>1, <2>2, <3>1, <3>2 DEF ListUpToDate
    <2>3. CASE w = << >>
      <3>1. c.ask = UrlAsk \/ CausesOf(c) # {}
        BY <1>2, <2>1, <2>3, Caused
      <3>2. table'.ask = UrlAsk \/ table'.cause # {}
        <4>1. CASE table' = [error |-> FALSE, ask |-> c.ask, listing |-> c.answer, pg |-> c.pg,
                             cause |-> CausesOf(c)]
          BY <3>1, <4>1
        <4>2. CASE \E e \in {TRUE, table.error} : table' = [Failed(table) EXCEPT !.error = e]
          <5>1. PICK e \in {TRUE, table.error} : table' = [Failed(table) EXCEPT !.error = e]
            BY <4>2
          <5>2. table'.cause # {}
            BY <5>1, TableFails DEF DTypeOK
          <5> QED
            BY <5>2
        <4> QED
          BY <1>1, <4>1, <4>2
      <3>3. UrlAsk' = UrlAsk
        BY <1>1 DEF UrlAsk
      <3> HIDE DEF w
      <3> QED
        BY <1>1, <2>3, <3>2, <3>3 DEF ListUpToDate
    <2> QED
      BY <2>2, <2>3
  <1> QED
    BY <1>1, <1>3, ListFollows

LEMMA PanelsKeptUp ==
    ASSUME DTypeOK, PanelsFollow, DashboardNext \/ UNCHANGED dashVars
    PROVE  PanelsFollow'
  <1>1. CASE BootClients \/ BootDies \/ ReloadDashboard
    BY <1>1 DEF BootClients, BootDies, ReloadDashboard, PanelsFollow
  <1>2. CASE BootAliases
    <2>1. input' \in [AllBoxes -> AllValues] /\ LoadAll(input', url')
      BY <1>2, BootBoxesTypes DEF BootAliases
    <2> QED
      BY <2>1, LoadFollows
  <1>3. CASE UNCHANGED dashVars \/ \E b \in AllBoxes : \E v \in Values[b] \cup {None} : Edit(b, v)
    <2>1. UNCHANGED <<boot, url, cards, calls, shown, lists, table>>
      BY <1>3 DEF Edit, dashVars
    <2> QED
      BY <2>1, ListFollows, ListUntouched
  <1>4. CASE Search \/ Recolour
    <2>1. input \in [AllBoxes -> AllValues] /\ LoadAll(input, url')
      BY <1>4 DEF Search, Recolour, DTypeOK, PanelsTypeOK
    <2> QED
      BY <2>1, LoadFollows
  <1> QED
    BY <1>1, <1>2, <1>3, <1>4, ChangeDepthFollows, GoPageFollows, AnswerOverviewFollows,
       OverviewRejectedFollows, AnswerChartFollows, ServeListFollows, ReceiveListFollows
    DEF DashboardNext, DashboardAnswers

-----------------------------------------------------------------------------
(* Pages of the list *)

LEMMA FirstPageOffered == ASSUME NEW per PROVE Offerable(FirstPage, per) /\ Right(NoListing, FirstPage, per)
  BY DEF Offerable, FirstPage, Right, NoListing

\* What a button of a list that is right leads to was within the list.
LEMMA Chosen ==
    ASSUME NEW t, t.listing \in Listings, t.pg \in PageChoices, NEW per,
           NEW other \in BOOLEAN, NEW p \in Buttons(t.listing), Right(t.listing, t.pg, per)
    PROVE  Offerable(ChosenPage(p, t, other), per)
  <1> DEFINE l == t.listing
  <1>1. l.page \in Nat \ {0} /\ l.pages \in Nat
    BY DEF Listings
  <1>2. CASE l.page > l.pages
    <2>1. ChosenPage(p, t, other).odd
      BY <1>2 DEF ChosenPage
    <2> QED
      BY <2>1 DEF Offerable
  <1>3. CASE ~(l.page > l.pages)
    <2>1. p \in Int /\ p >= 1 /\ (p <= l.pages \/ p = l.page - 1)
      BY <1>1 DEF Buttons
    <2>2. p \in 1..l.pages
      BY <1>1, <1>3, <2>1
    <2>3. (p - 1) * per < l.total
      BY <2>2 DEF Right
    <2>4. ChosenPage(p, t, other).no = p /\ ChosenPage(p, t, other).offer = l.total
      BY DEF ChosenPage
    <2> QED
      BY <2>3, <2>4 DEF Offerable
  <1> QED
    BY <1>2, <1>3

\* A list that is empty although there are records was offered by a longer one.
LEMMA Explained ==
    ASSUME NEW t, t.listing \in Listings, t.pg \in PageChoices, NEW per \in Nat,
           Right(t.listing, t.pg, per), t.cause = {} => Offerable(t.pg, per)
    PROVE  EmptyExplained(t)
  <1> SUFFICES ASSUME t.listing.rows = {}, t.listing.total > 0, t.cause = {}, ~t.pg.odd
               PROVE  t.listing.total < t.pg.offer
    BY DEF EmptyExplained
  <1> DEFINE before == (t.pg.no - 1) * per
  <1>1. /\ t.listing.total \in Nat /\ t.pg.no \in Nat \ {0} /\ t.pg.offer \in Nat
    BY DEF Listings, PageChoices
  <1>2. t.listing.total <= before
    BY DEF Right
  <1>3. t.pg.no = 1 \/ before < t.pg.offer
    BY DEF Offerable
  <1>4. before \in Nat
    BY <1>1
  <1>5. t.pg.no = 1 => before = 0
    BY <1>1
  <1> HIDE DEF before
  <1> QED
    BY <1>1, <1>2, <1>3, <1>4, <1>5

\* The pages stay as they are with the list and the address bar.
LEMMA PagesUntouched ==
    ASSUME PagesFollow, UNCHANGED <<url, page, lists, table>>
    PROVE  PagesFollow'
  BY DEF PagesFollow

LEMMA OneMoreList ==
    ASSUME DTypeOK, DTypeOK', PagesFollow, UNCHANGED <<input, url, table>>,
           lists' = Append(lists, ListCall(page')), Offerable(page', PerOf(url))
    PROVE  PagesFollow'
  <1> DEFINE c == ListCall(page')
  <1>1. c \in ListCalls
    BY ListCallTypes DEF DTypeOK, PanelsTypeOK, DashboardTypeOK, ListTypeOK, AllBoxes
  <1>2. \A i \in DOMAIN lists' : lists'[i] = c \/ (i \in DOMAIN lists /\ lists'[i] = lists[i])
    BY <1>1, Appended DEF DTypeOK, ListTypeOK
  <1>3. c.pg = page' /\ c.answer = Nothing /\ c.ask.per = PerOf(input) /\ (c.unapplied <=> input # url)
    BY DEF ListCall, ListAsk
  <1> HIDE DEF c
  <1>4. ~c.unapplied => Offerable(c.pg, c.ask.per)
    BY <1>3
  <1>5. PerOf(url)' = PerOf(url)
    BY DEF PerOf
  <1>6. \A i \in DOMAIN lists' :
            /\ ~lists'[i].unapplied => Offerable(lists'[i].pg, lists'[i].ask.per)
            /\ lists'[i].answer # Nothing => Right(lists'[i].answer, lists'[i].pg, lists'[i].ask.per)
    BY <1>2, <1>3, <1>4 DEF PagesFollow
  <1> QED
    BY <1>5, <1>6 DEF PagesFollow

LEMMA GoPagePages ==
    ASSUME DTypeOK, DTypeOK', PagesFollow, NEW p \in Buttons(table.listing), GoPage(p)
    PROVE  PagesFollow'
  <1> DEFINE other == table.ask # ListAsk \/ input # url
  <1>1. /\ page' = ChosenPage(p, table, other)
        /\ lists' = Append(lists, ListCall(page'))
        /\ UNCHANGED <<input, url, table>>
    BY DEF GoPage
  <1>2. CASE other
    <2>1. page'.odd
      BY <1>1, <1>2 DEF ChosenPage
    <2> QED
      BY <1>1, <2>1, OneMoreList DEF Offerable
  <1>3. CASE ~other
    <2>1. table.ask.per = PerOf(url)
      BY <1>3 DEF ListAsk
    <2>2. Right(table.listing, table.pg, PerOf(url)) /\ table.listing \in Listings /\ table.pg \in PageChoices
      BY <2>1 DEF PagesFollow, DTypeOK, ListTypeOK
    <2>3. other \in BOOLEAN
      OBVIOUS
    <2>4. Offerable(page', PerOf(url))
      BY <1>1, <2>2, <2>3, Chosen
    <2> QED
      BY <1>1, <2>4, OneMoreList
  <1> QED
    BY <1>2, <1>3

LEMMA AnswerOverviewPages ==
    ASSUME DTypeOK, DTypeOK', PagesFollow, NEW k \in DOMAIN calls["overview"], AnswerOverview(k)
    PROVE  PagesFollow'
  <1>1. lists' = Append(lists, ListCall(page')) /\ UNCHANGED <<input, url, page, table>>
    BY DEF AnswerOverview
  <1> QED
    BY <1>1, OneMoreList DEF PagesFollow

LEMMA OverviewRejectedPages ==
    ASSUME DTypeOK, PagesFollow, NEW k \in DOMAIN calls["overview"], OverviewRejected(k)
    PROVE  PagesFollow'
  <1>1. lists' = Passed(lists) /\ table' = Failed(table) /\ UNCHANGED <<url, page>>
    BY DEF OverviewRejected
  <1>2. \A i \in DOMAIN lists' :
            /\ ~lists'[i].unapplied => Offerable(lists'[i].pg, lists'[i].ask.per)
            /\ lists'[i].answer # Nothing => Right(lists'[i].answer, lists'[i].pg, lists'[i].ask.per)
    BY <1>1, PassedTypes DEF PagesFollow
  <1>3. Right(table'.listing, table'.pg, table'.ask.per) /\ table'.cause # {}
    BY <1>1, TableFails DEF PagesFollow, DTypeOK
  <1> QED
    BY <1>1, <1>2, <1>3 DEF PagesFollow

LEMMA ServeListPages ==
    ASSUME DTypeOK, PagesFollow, NEW k \in DOMAIN lists, ServeList(k)
    PROVE  PagesFollow'
  <1>1. UNCHANGED <<url, page, table>>
    BY DEF ServeList
  <1>2. \A i \in DOMAIN lists' :
            /\ ~lists'[i].unapplied => Offerable(lists'[i].pg, lists'[i].ask.per)
            /\ lists'[i].answer # Nothing => Right(lists'[i].answer, lists'[i].pg, lists'[i].ask.per)
    <2> SUFFICES ASSUME NEW i \in DOMAIN lists
                 PROVE  /\ ~lists'[i].unapplied => Offerable(lists'[i].pg, lists'[i].ask.per)
                        /\ lists'[i].answer # Nothing => Right(lists'[i].answer, lists'[i].pg, lists'[i].ask.per)
      BY Served
    <2>1. /\ lists'[i].ask = lists[i].ask /\ lists'[i].pg = lists[i].pg
          /\ lists'[i].unapplied = lists[i].unapplied
          /\ i # k => lists'[i].answer = lists[i].answer
          /\ Right(lists'[k].answer, lists[k].pg, lists[k].ask.per)
      BY Served
    <2> QED
      BY <2>1 DEF PagesFollow
  <1> QED
    BY <1>1, <1>2 DEF PagesFollow

LEMMA ReceiveListPages ==
    ASSUME DTypeOK, PagesFollow, NEW k \in DOMAIN lists, ReceiveList(k)
    PROVE  PagesFollow'
  <1> DEFINE c == lists[k]
  <1>1. /\ lists' = WithoutCall(lists, k)
        /\ \/ /\ c.answer # Nothing
              /\ table' = [error |-> FALSE, ask |-> c.ask, listing |-> c.answer, pg |-> c.pg,
                           cause |-> CausesOf(c)]
           \/ \E e \in {TRUE, table.error} : table' = [Failed(table) EXCEPT !.error = e]
        /\ UNCHANGED <<url, page>>
    BY DEF ReceiveList, Listed
  <1>2. \A i \in DOMAIN lists' : \E j \in DOMAIN lists :
            /\ lists'[i].ask = lists[j].ask /\ lists'[i].pg = lists[j].pg
            /\ lists'[i].unapplied = lists[j].unapplied /\ lists'[i].answer = lists[j].answer
    BY <1>1, ListAnswered DEF DTypeOK
  <1>3. \A i \in DOMAIN lists' :
            /\ ~lists'[i].unapplied => Offerable(lists'[i].pg, lists'[i].ask.per)
            /\ lists'[i].answer # Nothing => Right(lists'[i].answer, lists'[i].pg, lists'[i].ask.per)
    <2> SUFFICES ASSUME NEW i \in DOMAIN lists'
                 PROVE  /\ ~lists'[i].unapplied => Offerable(lists'[i].pg, lists'[i].ask.per)
                        /\ lists'[i].answer # Nothing => Right(lists'[i].answer, lists'[i].pg, lists'[i].ask.per)
      OBVIOUS
    <2>1. PICK j \in DOMAIN lists :
            /\ lists'[i].ask = lists[j].ask /\ lists'[i].pg = lists[j].pg
            /\ lists'[i].unapplied = lists[j].unapplied /\ lists'[i].answer = lists[j].answer
      BY <1>2
    <2> QED
      BY <2>1 DEF PagesFollow
  <1>4. /\ Right(table'.listing, table'.pg, table'.ask.per)
        /\ table'.cause = {} => Offerable(table'.pg, table'.ask.per)
    <2>1. CASE /\ c.answer # Nothing
               /\ table' = [error |-> FALSE, ask |-> c.ask, listing |-> c.answer, pg |-> c.pg,
                            cause |-> CausesOf(c)]
      <3>1. /\ table'.ask = c.ask /\ table'.listing = c.answer /\ table'.pg = c.pg
            /\ table'.cause = CausesOf(c)
        BY <2>1
      <3>2. CausesOf(c) = {} => ~c.unapplied
        BY Caused
      <3> QED
        BY <2>1, <3>1, <3>2 DEF PagesFollow
    <2>2. CASE \E e \in {TRUE, table.error} : table' = [Failed(table) EXCEPT !.error = e]
      <3>1. PICK e \in {TRUE, table.error} : table' = [Failed(table) EXCEPT !.error = e]
        BY <2>2
      <3>2. /\ table'.cause # {} /\ table'.ask = table.ask
            /\ table'.listing = table.listing /\ table'.pg = table.pg
        BY <3>1, TableFails DEF DTypeOK
      <3> QED
        BY <3>2 DEF PagesFollow
    <2> QED
      BY <1>1, <2>1, <2>2
  <1> QED
    BY <1>1, <1>3, <1>4 DEF PagesFollow

LEMMA PagesKept ==
    ASSUME DTypeOK, PagesFollow, DashboardNext \/ UNCHANGED dashVars
    PROVE  PagesFollow'
  <1>1. CASE \/ BootClients \/ BootAliases \/ BootDies \/ Recolour \/ ChangeDepth \/ UNCHANGED dashVars
             \/ \E p \in Charts : \E k \in DOMAIN calls[p] : AnswerChart(p, k)
             \/ \E b \in AllBoxes : \E v \in Values[b] \cup {None} : Edit(b, v)
    <2>1. UNCHANGED <<url, page, lists, table>>
      BY <1>1 DEF BootClients, BootAliases, BootDies, Recolour, ChangeDepth, AnswerChart, Edit, dashVars
    <2> QED
      BY <2>1, PagesUntouched
  <1>2. CASE Search
    <2>1. page' = FirstPage /\ UNCHANGED <<lists, table>>
      BY <1>2 DEF Search, SearchedPage
    <2> QED
      BY <2>1, FirstPageOffered DEF PagesFollow
  <1>3. CASE ReloadDashboard
    <2>1. page' = FirstPage /\ lists' = << >> /\ DOMAIN lists' = {} /\ table' = BlankTable
      BY <1>3 DEF ReloadDashboard
    <2>2. table'.listing = NoListing /\ table'.pg = FirstPage
      BY <2>1 DEF BlankTable
    <2> QED
      BY <2>1, <2>2, FirstPageOffered DEF PagesFollow
  <1>4. DTypeOK'
    BY DTypesKept
  <1> QED
    BY <1>1, <1>2, <1>3, <1>4, GoPagePages, AnswerOverviewPages, OverviewRejectedPages,
       ServeListPages, ReceiveListPages
    DEF DashboardNext, DashboardAnswers

-----------------------------------------------------------------------------
(* Records *)

\* What is deleted stays deleted, what is over does not become active again.
Moves ==
    /\ \A r \in Recs : /\ status[r] = "deleted" => status'[r] = "deleted"
                       /\ status[r] # "active" => status'[r] # "active"
    /\ faults' >= faults

LEMMA Events ==
    ASSUME ServerTypeOK, Click \/ Fault \/ NoFault
    PROVE  clicks' \in 0..MaxEvents /\ faults' \in 0..MaxFaults /\ faults' >= faults
  BY WebServerAssumption DEF ServerTypeOK, Click, Fault, NoFault

LEMMA Changes ==
    ASSUME ServerTypeOK, NEW r \in Recs, NEW to \in Statuses, Change(r, to),
           status[r] = "deleted" => to = "deleted", to # "active"
    PROVE  status' \in [Recs -> Statuses] /\ status'[r] = to
           /\ \A x \in Recs : /\ status[x] = "deleted" => status'[x] = "deleted"
                              /\ status[x] # "active" => status'[x] # "active"
  BY DEF ServerTypeOK, Change

\* An operation that applies to its record makes it what the operation is for.
LEMMA Applied ==
    ASSUME ServerTypeOK, NEW op \in OpNames, NEW r \in Recs, Applies(op, r), Apply(op, r)
    PROVE  /\ status' \in [Recs -> Statuses]
           /\ \A x \in Recs : /\ status[x] = "deleted" => status'[x] = "deleted"
                              /\ status[x] # "active" => status'[x] # "active"
           /\ Over(op, r)'
  <1>1. CASE op = "delete"
    <2>1. Change(r, "deleted")
      BY <1>1 DEF Apply
    <2> QED
      BY <1>1, <2>1, Changes DEF Statuses, Over
  <1>2. CASE op \in {"end", "discard"}
    <2>1. status[r] = "active"
      BY <1>2 DEF Applies
    <2>2. Change(r, "completed") \/ Change(r, "discarded")
      BY <1>2 DEF Apply
    <2> QED
      BY <1>2, <2>1, <2>2, Changes DEF Statuses, Over
  <1> QED
    BY <1>1, <1>2 DEF OpNames

LEMMA DashboardLeavesRecords ==
    ASSUME DashboardNext
    PROVE  UNCHANGED status /\ (Click \/ Fault \/ NoFault)
  <1>1. ASSUME NEW k, AnswerOverview(k) PROVE UNCHANGED status /\ (Click \/ Fault \/ NoFault)
    BY <1>1 DEF AnswerOverview
  <1>2. ASSUME NEW p, NEW k, AnswerChart(p, k) PROVE UNCHANGED status /\ (Click \/ Fault \/ NoFault)
    BY <1>2 DEF AnswerChart
  <1>3. ASSUME NEW k, ServeList(k) \/ ReceiveList(k)
        PROVE  UNCHANGED status /\ (Click \/ Fault \/ NoFault)
    BY <1>3 DEF ServeList, ReceiveList, serverVars, NoFault
  <1>4. ASSUME BootClients \/ BootAliases \/ BootDies
        PROVE  UNCHANGED status /\ (Click \/ Fault \/ NoFault)
    BY <1>4 DEF BootClients, BootAliases, BootDies, Fetched
  <1>5. ASSUME Search \/ Recolour \/ ChangeDepth \/ ReloadDashboard
        PROVE  UNCHANGED status /\ (Click \/ Fault \/ NoFault)
    BY <1>5 DEF Search, Recolour, ChangeDepth, ReloadDashboard
  <1>6. ASSUME NEW k, OverviewRejected(k) PROVE UNCHANGED status /\ (Click \/ Fault \/ NoFault)
    BY <1>6 DEF OverviewRejected
  <1>7. ASSUME NEW b, NEW v, Edit(b, v) PROVE UNCHANGED status /\ (Click \/ Fault \/ NoFault)
    BY <1>7 DEF Edit
  <1>8. ASSUME NEW p, GoPage(p) PROVE UNCHANGED status /\ (Click \/ Fault \/ NoFault)
    BY <1>8 DEF GoPage
  <1> QED
    BY <1>1, <1>2, <1>3, <1>4, <1>5, <1>6, <1>7, <1>8 DEF DashboardNext, DashboardAnswers

LEMMA ServeOpMoves ==
    ASSUME ServerTypeOK, AdminTypeOK, NEW o \in ops, ServeOp(o)
    PROVE  ServerTypeOK' /\ Moves
  <1>1. o.op \in OpNames /\ o.rec \in Recs /\ UNCHANGED <<clicks, faults>>
    BY DEF AdminTypeOK, ServeOp
  <1>2. CASE Applies(o.op, o.rec) /\ Apply(o.op, o.rec)
    <2>1. /\ status' \in [Recs -> Statuses]
          /\ \A x \in Recs : /\ status[x] = "deleted" => status'[x] = "deleted"
                             /\ status[x] # "active" => status'[x] # "active"
      BY <1>1, <1>2, Applied
    <2> QED
      BY <1>1, <2>1, WebServerAssumption DEF ServerTypeOK, Moves
  <1>3. CASE UNCHANGED status
    BY <1>1, <1>3, WebServerAssumption DEF ServerTypeOK, Moves
  <1> QED
    BY <1>2, <1>3 DEF ServeOp

LEMMA RecordsMove ==
    ASSUME ServerTypeOK, AdminTypeOK, [Next]_webVars
    PROVE  ServerTypeOK' /\ Moves
  <1>1. ASSUME UNCHANGED status, Click \/ Fault \/ NoFault
        PROVE  ServerTypeOK' /\ Moves
    BY <1>1, Events DEF ServerTypeOK, Moves
  <1>2. CASE DashboardNext
    BY <1>1, <1>2, DashboardLeavesRecords
  <1>3. CASE \E r \in Recs : CommandEnds(r)
    <2>1. PICK r \in Recs : CommandEnds(r)
      BY <1>3
    <2>2. Click /\ status[r] = "active" /\ Change(r, "completed")
      BY <2>1 DEF CommandEnds
    <2> QED
      BY <2>2, Events, Changes DEF ServerTypeOK, Moves, Statuses
  <1>4. CASE AdminNext
    <2>1. CASE \E o \in ops : ServeOp(o)
      BY <2>1, ServeOpMoves
    <2>2. CASE ~\E o \in ops : ServeOp(o)
      <3>1. UNCHANGED status /\ (Click \/ Fault \/ NoFault)
        BY <1>4, <2>2
        DEF AdminNext, AdminAnswers, Deleted, Closed, Alerted, ServeAdminList, ReceiveAdminList,
            AskOp, GoAdminPage, OpenAdmin, serverVars, NoFault
      <3> QED
        BY <1>1, <3>1
    <2> QED
      BY <2>1, <2>2
  <1>5. CASE UNCHANGED webVars
    BY <1>1, <1>5 DEF webVars, serverVars, NoFault
  <1> QED
    BY <1>2, <1>3, <1>4, <1>5 DEF Next

\* Clients only ever disappear from what the server offers.
LEMMA OffersShrink ==
    ASSUME Moves
    PROVE  Offered("client")' \subseteq Offered("client")
  BY DEF Moves, Offered

-----------------------------------------------------------------------------
(* The admin page *)

ATypeOK == AdminTypeOK /\ AdminListTypeOK

\* Where the list and its page are left alone.
AdminUntouched == UNCHANGED <<adminPage, adminLists, adminTable>>

LEMMA AdminListUntouched ==
    ASSUME AdminListTypeOK, AdminPagesFollow, AdminUntouched
    PROVE  /\ AdminListTypeOK' /\ AdminPagesFollow'
           /\ \A r \in Recs : Gone(r) => Gone(r)'
  BY DEF AdminUntouched, AdminListTypeOK, AdminPagesFollow, Gone

LEMMA AdminCallTypes ==
    ASSUME NEW pg \in PageChoices
    PROVE  /\ AdminCall(pg) \in AdminCalls /\ ~AdminCall(pg).served
           /\ AdminCall(pg).pg = pg
  BY FirstPageTypes DEF AdminCall, AdminCalls, Waiting

\* A list asked for anew has not been read by the server yet.
LEMMA AdminAppended ==
    ASSUME AdminListTypeOK, AdminPagesFollow, adminLists' = Append(adminLists, AdminCall(adminPage')),
           adminPage' \in PageChoices, Offerable(adminPage', AdminPer), UNCHANGED adminTable
    PROVE  AdminListTypeOK' /\ AdminPagesFollow' /\ \A r : Gone(r)'
  <1> DEFINE c == AdminCall(adminPage')
  <1>1. c \in AdminCalls /\ ~c.served /\ c.pg = adminPage'
    BY AdminCallTypes
  <1>2. adminLists \in Seq(AdminCalls)
    BY DEF AdminListTypeOK
  <1> HIDE DEF c
  <1>3. adminLists' = Append(adminLists, c)
    BY DEF c
  <1>4. /\ adminLists' \in Seq(AdminCalls) /\ adminLists' # << >>
        /\ adminLists'[Len(adminLists')] = c
        /\ \A i \in DOMAIN adminLists' :
            adminLists'[i] = c \/ (i \in DOMAIN adminLists /\ adminLists'[i] = adminLists[i])
    BY <1>1, <1>2, <1>3, Appended
  <1>5. AdminListTypeOK'
    BY <1>4 DEF AdminListTypeOK
  <1>6. AdminPagesFollow'
    BY <1>1, <1>4 DEF AdminPagesFollow
  <1>7. \A r : Gone(r)'
    BY <1>1, <1>4 DEF Gone
  <1> QED
    BY <1>5, <1>6, <1>7

LEMMA LoadAdminTypes ==
    ASSUME NEW inFlight, inFlight \subseteq ops, AdminTypeOK, LoadAdmin(inFlight)
    PROVE  /\ AdminListTypeOK' /\ AdminPagesFollow' /\ \A r : Gone(r)'
           /\ orphans' = Orphaned /\ orphans' \subseteq Recs
           /\ ops' \subseteq [op : OpNames, rec : Recs, stage : {"sent", "done", "gone"}, heard : BOOLEAN]
           /\ \A o \in ops' : o.stage = "sent"
  <1> DEFINE c == AdminCall(FirstPage)
  <1>1. c \in AdminCalls /\ ~c.served /\ c.pg = FirstPage
    BY AdminCallTypes, FirstPageTypes
  <1>2. adminPage' = FirstPage /\ adminLists' = <<c>> /\ adminTable' = BlankAdminTable /\ orphans' = Orphaned
    BY DEF LoadAdmin
  <1> HIDE DEF c
  <1>3. /\ adminLists' \in Seq(AdminCalls) /\ adminLists' # << >> /\ DOMAIN adminLists' = {1}
        /\ Len(adminLists') = 1 /\ adminLists'[1] = c
    BY <1>1, <1>2
  <1>4. /\ BlankAdminTable \in [error : BOOLEAN, listing : Listings, pg : PageChoices,
                                cause : SUBSET {"overtaken", "failed"}]
        /\ BlankAdminTable.listing = NoListing /\ BlankAdminTable.pg = FirstPage
    BY FirstPageTypes DEF BlankAdminTable
  <1>5. AdminListTypeOK'
    BY <1>2, <1>3, <1>4, FirstPageTypes DEF AdminListTypeOK
  <1>6. AdminPagesFollow'
    BY <1>1, <1>2, <1>3, <1>4, FirstPageOffered DEF AdminPagesFollow
  <1>7. \A r : Gone(r)'
    BY <1>1, <1>3 DEF Gone
  <1>8. ops' = Unheard(inFlight)
    BY DEF LoadAdmin
  <1>9. \A o \in ops' : \E x \in ops : x.stage = "sent" /\ o = [x EXCEPT !.heard = FALSE]
    BY <1>8 DEF Unheard
  <1>10. ASSUME NEW o \in ops'
         PROVE  /\ o \in [op : OpNames, rec : Recs, stage : {"sent", "done", "gone"}, heard : BOOLEAN]
                /\ o.stage = "sent"
    <2>1. PICK x \in ops : x.stage = "sent" /\ o = [x EXCEPT !.heard = FALSE]
      BY <1>9
    <2>2. x \in [op : OpNames, rec : Recs, stage : {"sent", "done", "gone"}, heard : BOOLEAN]
      BY DEF AdminTypeOK
    <2> QED
      BY <2>1, <2>2
  <1> QED
    BY <1>2, <1>5, <1>6, <1>7, <1>10 DEF Orphaned

\* Where nothing but the list changes.
LEMMA ToldUntouched ==
    ASSUME ServerTypeOK, ATypeOK, ToldRight, Moves, ops' \subseteq ops, UNCHANGED <<told, orphans>>,
           \A r \in Recs : status[r] = "deleted" /\ Gone(r) => Gone(r)'
    PROVE  ToldRight'
  <1>1. \A op \in OpNames, r \in Recs : Over(op, r) => Over(op, r)'
    BY DEF Moves, Over
  <1>2. /\ \A o \in ops : o.op \in OpNames /\ o.rec \in Recs
        /\ \A t \in told : t[1] \in OpNames /\ t[2] \in Recs
    BY DEF ATypeOK, AdminTypeOK
  <1>3. \A o \in ops' : o.stage = "done" => Over(o.op, o.rec)'
    BY <1>1, <1>2 DEF ToldRight
  <1>4. \A t \in told' : Over(t[1], t[2])'
    BY <1>1, <1>2 DEF ToldRight
  <1>5. \A t \in told' : IF t[1] = "delete" THEN Gone(t[2])' ELSE t[2] \notin orphans'
    <2> SUFFICES ASSUME NEW t \in told
                 PROVE  IF t[1] = "delete" THEN Gone(t[2])' ELSE t[2] \notin orphans'
      OBVIOUS
    <2>1. CASE t[1] = "delete"
      <3>1. status[t[2]] = "deleted" /\ Gone(t[2])
        BY <2>1 DEF ToldRight, Over
      <3> QED
        BY <1>2, <2>1, <3>1
    <2>2. CASE t[1] # "delete"
      BY <2>2 DEF ToldRight
    <2> QED
      BY <2>1, <2>2
  <1> QED
    BY <1>3, <1>4, <1>5 DEF ToldRight

AInv == ServerTypeOK /\ ATypeOK /\ AdminPagesFollow /\ ToldRight

LEMMA AskOpKeeps ==
    ASSUME AInv, Moves, NEW op \in OpNames, NEW r \in Recs, AskOp(op, r)
    PROVE  ATypeOK' /\ AdminPagesFollow' /\ ToldRight'
  <1> DEFINE o == [op |-> op, rec |-> r, stage |-> "sent", heard |-> TRUE]
  <1>1. /\ ops' = ops \cup {o} /\ AdminUntouched /\ UNCHANGED <<status, orphans, told>>
    BY DEF AskOp, ListedWhenDone, AdminUntouched
  <1>2. /\ o \in [op : OpNames, rec : Recs, stage : {"sent", "done", "gone"}, heard : BOOLEAN]
        /\ o.stage = "sent"
    OBVIOUS
  <1> HIDE DEF o
  <1>3. ATypeOK' /\ AdminPagesFollow' /\ \A x \in Recs : Gone(x) => Gone(x)'
    BY <1>1, <1>2, AdminListUntouched DEF AInv, ATypeOK, AdminTypeOK, AdminUntouched
  <1>4. \A op1, x : Over(op1, x)' <=> Over(op1, x)
    BY <1>1 DEF Over
  <1>5. \A t \in told : t[2] \in Recs
    BY DEF AInv, ATypeOK, AdminTypeOK
  <1>6. ToldRight'
    BY <1>1, <1>2, <1>3, <1>4, <1>5 DEF AInv, ToldRight
  <1> QED
    BY <1>3, <1>6

LEMMA GoAdminPageKeeps ==
    ASSUME AInv, Moves, NEW p \in Buttons(adminTable.listing), GoAdminPage(p)
    PROVE  ATypeOK' /\ AdminPagesFollow' /\ ToldRight'
  <1>1. /\ adminPage' = ChosenPage(p, adminTable, FALSE)
        /\ adminLists' = Append(adminLists, AdminCall(adminPage'))
        /\ UNCHANGED <<status, orphans, adminTable, ops, told>>
    BY DEF GoAdminPage
  <1>2. adminTable.listing \in Listings /\ adminTable.pg \in PageChoices /\ FALSE \in BOOLEAN
    BY DEF AInv, ATypeOK, AdminListTypeOK
  <1>3. adminPage' \in PageChoices
    BY <1>1, <1>2, ChosenPageTypes
  <1>4. Offerable(adminPage', AdminPer)
    BY <1>1, <1>2, Chosen DEF AInv, AdminPagesFollow
  <1>5. AdminListTypeOK' /\ AdminPagesFollow' /\ \A r : Gone(r)'
    BY <1>1, <1>3, <1>4, AdminAppended DEF AInv, ATypeOK
  <1>6. AdminTypeOK'
    <2>1. adminPage'.no >= 1
      BY <1>3 DEF PageChoices
    <2> QED
      BY <1>1, <2>1 DEF AInv, ATypeOK, AdminTypeOK
  <1>7. ToldRight'
    BY <1>1, <1>5, ToldUntouched DEF AInv
  <1> QED
    BY <1>5, <1>6, <1>7 DEF ATypeOK

LEMMA OpenAdminKeeps ==
    ASSUME AInv, Moves, OpenAdmin
    PROVE  ATypeOK' /\ AdminPagesFollow' /\ ToldRight'
  <1>1. LoadAdmin(ops) /\ UNCHANGED <<status, told>>
    BY DEF OpenAdmin
  <1>2. /\ AdminListTypeOK' /\ AdminPagesFollow' /\ \A r : Gone(r)'
        /\ orphans' = Orphaned /\ orphans' \subseteq Recs
        /\ ops' \subseteq [op : OpNames, rec : Recs, stage : {"sent", "done", "gone"}, heard : BOOLEAN]
        /\ \A o \in ops' : o.stage = "sent"
    BY <1>1, LoadAdminTypes DEF AInv, ATypeOK
  <1>3. AdminTypeOK'
    BY <1>1, <1>2 DEF AInv, ATypeOK, AdminTypeOK, AdminListTypeOK, PageChoices
  <1>4. ToldRight'
    <2>1. \A t \in told : Over(t[1], t[2])' /\ (t[1] # "delete" => t[2] \notin orphans')
      BY <1>1, <1>2 DEF AInv, ToldRight, Over, Orphaned
    <2> QED
      BY <1>1, <1>2, <2>1 DEF ToldRight
  <1> QED
    BY <1>2, <1>3, <1>4 DEF ATypeOK

LEMMA ServeOpKeeps ==
    ASSUME AInv, Moves, NEW o \in ops, ServeOp(o)
    PROVE  ATypeOK' /\ AdminPagesFollow' /\ ToldRight'
  <1>1. AdminUntouched /\ UNCHANGED <<orphans, told>>
    BY DEF ServeOp, AdminUntouched
  <1>2. o \in [op : OpNames, rec : Recs, stage : {"sent", "done", "gone"}, heard : BOOLEAN]
    BY DEF AInv, ATypeOK, AdminTypeOK
  <1>3. /\ AdminListTypeOK' /\ AdminPagesFollow' /\ \A r \in Recs : Gone(r) => Gone(r)'
    BY <1>1, AdminListUntouched DEF AInv, ATypeOK
  <1>4. \A x \in ops' : \/ x \in ops
                        \/ /\ x \in [op : OpNames, rec : Recs, stage : {"sent", "done", "gone"}, heard : BOOLEAN]
                           /\ x.stage = "done" => Over(x.op, x.rec)'
    <2> DEFINE served(stage) == (ops \ {o}) \cup (IF o.heard THEN {[o EXCEPT !.stage = stage]} ELSE {})
    <2>1. CASE Applies(o.op, o.rec) /\ Apply(o.op, o.rec) /\ ops' = served("done")
      <3>1. Over(o.op, o.rec)'
        BY <1>2, <2>1, Applied DEF AInv
      <3> DEFINE d == [o EXCEPT !.stage = "done"]
      <3>2. /\ d \in [op : OpNames, rec : Recs, stage : {"sent", "done", "gone"}, heard : BOOLEAN]
            /\ d.op = o.op /\ d.rec = o.rec
        BY <1>2
      <3>3. \A x \in ops' : x \in ops \/ x = d
        BY <2>1
      <3> HIDE DEF d
      <3> QED
        BY <3>1, <3>2, <3>3
    <2>2. CASE ops' = served("gone")
      <3> DEFINE d == [o EXCEPT !.stage = "gone"]
      <3>1. /\ d \in [op : OpNames, rec : Recs, stage : {"sent", "done", "gone"}, heard : BOOLEAN]
            /\ d.stage = "gone"
        BY <1>2
      <3>2. \A x \in ops' : x \in ops \/ x = d
        BY <2>2
      <3> HIDE DEF d
      <3> QED
        BY <3>1, <3>2
    <2>3. CASE ops' = ops \ {o}
      BY <2>3
    <2> QED
      BY <2>1, <2>2, <2>3 DEF ServeOp
  <1>5. ATypeOK'
    BY <1>1, <1>3, <1>4 DEF AInv, ATypeOK, AdminTypeOK, AdminUntouched
  <1>6. ToldRight'
    <2>1. /\ \A x \in ops : x.op \in OpNames /\ x.rec \in Recs
          /\ \A t \in told : t[1] \in OpNames /\ t[2] \in Recs
      BY DEF AInv, ATypeOK, AdminTypeOK
    <2>2. \A op \in OpNames, r \in Recs : Over(op, r) => Over(op, r)'
      BY DEF Moves, Over
    <2>3. \A x \in ops' : x.stage = "done" => Over(x.op, x.rec)'
      BY <1>4, <2>1, <2>2 DEF AInv, ToldRight
    <2>4. \A t \in told' : Over(t[1], t[2])' /\ IF t[1] = "delete" THEN Gone(t[2])' ELSE t[2] \notin orphans'
      BY <1>1, <1>3, <2>1, <2>2 DEF AInv, ToldRight
    <2> QED
      BY <2>3, <2>4 DEF ToldRight
  <1> QED
    BY <1>3, <1>5, <1>6

\* The list is asked for anew, and the record of the delete is deleted.
LEMMA DeletedKeeps ==
    ASSUME AInv, Moves, NEW o \in ops, Deleted(o)
    PROVE  ATypeOK' /\ AdminPagesFollow' /\ ToldRight'
  <1>1. /\ o.stage = "done" /\ o.op = "delete" /\ ops' = ops \ {o} /\ told' = told \cup {<<o.op, o.rec>>}
        /\ adminLists' = Append(adminLists, AdminCall(adminPage'))
        /\ UNCHANGED <<status, orphans, adminPage, adminTable>>
    BY DEF Deleted, ListedWhenDone, serverVars
  <1>2. o.op \in OpNames /\ o.rec \in Recs
    BY DEF AInv, ATypeOK, AdminTypeOK
  <1>3. AdminListTypeOK' /\ AdminPagesFollow' /\ \A r : Gone(r)'
    BY <1>1, AdminAppended DEF AInv, ATypeOK, AdminListTypeOK, AdminPagesFollow
  <1>4. AdminTypeOK'
    BY <1>1, <1>2 DEF AInv, ATypeOK, AdminTypeOK
  <1>5. ToldRight'
    <2>1. Over(o.op, o.rec)
      BY <1>1 DEF AInv, ToldRight
    <2>2. \A op, r : Over(op, r)' <=> Over(op, r)
      BY <1>1 DEF Over
    <2>3. \A x \in ops' : x.stage = "done" => Over(x.op, x.rec)'
      BY <1>1, <2>2 DEF AInv, ToldRight
    <2>4. \A t \in told' : t \in told \/ t = <<"delete", o.rec>>
      BY <1>1
    <2>5. \A t \in told' : Over(t[1], t[2])' /\ (t[1] # "delete" => t[2] \notin orphans')
      BY <1>1, <2>1, <2>2, <2>4 DEF AInv, ToldRight
    <2> QED
      BY <1>3, <2>3, <2>5 DEF ToldRight
  <1> QED
    BY <1>3, <1>4, <1>5 DEF ATypeOK

\* The document is loaded anew, with buttons for what is still active.
LEMMA ClosedKeeps ==
    ASSUME AInv, Moves, NEW o \in ops, Closed(o)
    PROVE  ATypeOK' /\ AdminPagesFollow' /\ ToldRight'
  <1>1. /\ o.stage = "done" /\ o.op # "delete" /\ told' = told \cup {<<o.op, o.rec>>}
        /\ LoadAdmin(ops \ {o}) /\ UNCHANGED status
    BY DEF Closed, serverVars
  <1>2. o.op \in OpNames /\ o.rec \in Recs
    BY DEF AInv, ATypeOK, AdminTypeOK
  <1>3. /\ AdminListTypeOK' /\ AdminPagesFollow' /\ \A r : Gone(r)'
        /\ orphans' = Orphaned /\ orphans' \subseteq Recs
        /\ ops' \subseteq [op : OpNames, rec : Recs, stage : {"sent", "done", "gone"}, heard : BOOLEAN]
        /\ \A x \in ops' : x.stage = "sent"
    <2>1. ops \ {o} \subseteq ops
      OBVIOUS
    <2> QED
      BY <1>1, <2>1, LoadAdminTypes DEF AInv, ATypeOK
  <1>4. AdminTypeOK'
    <2>1. adminPage'.no >= 1 /\ adminTable'.cause \subseteq {"overtaken", "failed"}
      BY <1>3 DEF AdminListTypeOK, PageChoices
    <2>2. told' \subseteq OpNames \X Recs
      BY <1>1, <1>2 DEF AInv, ATypeOK, AdminTypeOK
    <2> QED
      BY <1>3, <2>1, <2>2 DEF AdminTypeOK
  <1>5. ToldRight'
    <2>1. Over(o.op, o.rec)
      BY <1>1 DEF AInv, ToldRight
    <2>2. \A t \in told' : t \in told \/ (t[1] = o.op /\ t[2] = o.rec)
      BY <1>1
    <2>3. \A t \in told' : Over(t[1], t[2])
      BY <2>1, <2>2 DEF AInv, ToldRight
    <2>4. \A t \in told' : Over(t[1], t[2])' /\ (t[1] # "delete" => t[2] \notin orphans')
      BY <1>1, <1>3, <2>3 DEF Over, Orphaned
    <2> QED
      BY <1>3, <2>4 DEF ToldRight
  <1> QED
    BY <1>3, <1>4, <1>5 DEF ATypeOK

LEMMA AlertedKeeps ==
    ASSUME AInv, Moves, NEW o \in ops, Alerted(o)
    PROVE  ATypeOK' /\ AdminPagesFollow' /\ ToldRight'
  <1>1. ops' = ops \ {o} /\ AdminUntouched /\ UNCHANGED <<status, orphans, told>>
    BY DEF Alerted, AdminUntouched
  <1>2. AdminListTypeOK' /\ AdminPagesFollow' /\ \A x \in Recs : Gone(x) => Gone(x)'
    BY <1>1, AdminListUntouched DEF AInv, ATypeOK
  <1>3. AdminTypeOK'
    BY <1>1 DEF AInv, ATypeOK, AdminTypeOK, AdminUntouched
  <1>4. ToldRight'
    BY <1>1, <1>2, ToldUntouched DEF AInv
  <1> QED
    BY <1>2, <1>3, <1>4 DEF ATypeOK

\* The server lists no record that is deleted.
LEMMA ServeAdminListKeeps ==
    ASSUME AInv, Moves, NEW k \in DOMAIN adminLists, ServeAdminList(k)
    PROVE  ATypeOK' /\ AdminPagesFollow' /\ ToldRight'
  <1> DEFINE c == adminLists[k]
             none == [b \in Boxes |-> None]
             l == Listing(none, c.pg.no, AdminPer)
             a == [c EXCEPT !.served = TRUE, !.answer = l]
  <1>1. /\ adminLists \in Seq(AdminCalls) /\ DOMAIN adminLists = 1..Len(adminLists)
        /\ \A i \in DOMAIN adminLists : adminLists[i] \in AdminCalls
        /\ Len(adminLists) \in Nat
    BY DEF AInv, ATypeOK, AdminListTypeOK
  <1>2. c \in AdminCalls /\ c.pg \in PageChoices /\ AdminPer \in Nat \ {0}
    BY <1>1, AdminAssumption DEF AdminCalls
  <1>3. l \in Listings /\ l.rows \subseteq Selected(none) /\ Right(l, c.pg, AdminPer)
    BY <1>2, ListingRight
  <1>4. /\ adminLists' = [adminLists EXCEPT ![k] = a]
        /\ UNCHANGED <<status, orphans, adminPage, adminTable, ops, told>>
    <2>1. adminLists' = [adminLists EXCEPT ![k].served = TRUE, ![k].answer = l]
      BY DEF ServeAdminList
    <2>2. [adminLists EXCEPT ![k].served = TRUE, ![k].answer = l] = [adminLists EXCEPT ![k] = a]
      <3> HIDE DEF l
      <3> QED
        BY <1>1, <1>2 DEF AdminCalls
    <2> QED
      BY <2>1, <2>2 DEF ServeAdminList, serverVars
  <1> HIDE DEF c, l
  <1>5. a \in AdminCalls /\ a.pg = c.pg /\ a.passed = c.passed /\ a.served /\ a.answer = l
    BY <1>2, <1>3 DEF AdminCalls
  <1> HIDE DEF a
  <1>6. /\ adminLists' \in Seq(AdminCalls) /\ DOMAIN adminLists' = DOMAIN adminLists
        /\ Len(adminLists') = Len(adminLists) /\ adminLists'[k] = a
        /\ \A i \in DOMAIN adminLists : i # k => adminLists'[i] = adminLists[i]
    BY <1>1, <1>4, <1>5
  <1>7. AdminListTypeOK'
    BY <1>4, <1>6 DEF AInv, ATypeOK, AdminListTypeOK
  <1>8. AdminTypeOK'
    BY <1>4 DEF AInv, ATypeOK, AdminTypeOK
  <1>9. AdminPagesFollow'
    <2>1. \A i \in DOMAIN adminLists' :
            /\ Offerable(adminLists'[i].pg, AdminPer)
            /\ adminLists'[i].served => Right(adminLists'[i].answer, adminLists'[i].pg, AdminPer)
      <3> SUFFICES ASSUME NEW i \in DOMAIN adminLists
                   PROVE  /\ Offerable(adminLists'[i].pg, AdminPer)
                          /\ adminLists'[i].served => Right(adminLists'[i].answer, adminLists'[i].pg, AdminPer)
        BY <1>6
      <3>1. CASE i = k
        BY <1>3, <1>5, <1>6, <3>1 DEF AInv, AdminPagesFollow, c
      <3>2. CASE i # k
        BY <1>6, <3>2 DEF AInv, AdminPagesFollow
      <3> QED
        BY <3>1, <3>2
    <2> QED
      BY <1>4, <2>1 DEF AInv, AdminPagesFollow
  <1>10. ASSUME NEW r \in Recs, status[r] = "deleted", Gone(r)
         PROVE  Gone(r)'
    <2>1. r \notin l.rows
      BY <1>3, <1>10 DEF Selected
    <2>2. /\ adminLists # << >> /\ adminLists' # << >> /\ Len(adminLists') \in DOMAIN adminLists
      BY <1>1, <1>6
    <2>3. CASE Len(adminLists) = k
      BY <1>5, <1>6, <2>1, <2>2, <2>3 DEF Gone
    <2>4. CASE Len(adminLists) # k
      <3>1. adminLists'[Len(adminLists')] = adminLists[Len(adminLists)]
        BY <1>6, <2>2, <2>4
      <3> QED
        BY <1>10, <2>2, <3>1 DEF Gone
    <2> QED
      BY <2>3, <2>4
  <1>11. ToldRight'
    BY <1>4, <1>10, ToldUntouched DEF AInv
  <1> QED
    BY <1>7, <1>8, <1>9, <1>11 DEF ATypeOK

LEMMA ReceiveAdminListKeeps ==
    ASSUME AInv, Moves, NEW k \in DOMAIN adminLists, ReceiveAdminList(k)
    PROVE  ATypeOK' /\ AdminPagesFollow' /\ ToldRight'
  <1> DEFINE q == adminLists
             c == q[k]
             w == WithoutCall(q, k)
             Tables == [error : BOOLEAN, listing : Listings, pg : PageChoices,
                        cause : SUBSET {"overtaken", "failed"}]
             received == [error |-> FALSE, listing |-> c.answer, pg |-> c.pg,
                          cause |-> {x \in {"overtaken"} : c.passed}]
             failed(e) == [adminTable EXCEPT !.error = e, !.cause = @ \cup {"failed"}]
  <1>1. /\ \/ c.served /\ adminTable' = received
           \/ \E e \in {TRUE, adminTable.error} : adminTable' = failed(e)
        /\ adminLists' = w /\ UNCHANGED <<status, orphans, adminPage, ops, told>>
    BY DEF ReceiveAdminList
  <1>2. /\ q \in Seq(AdminCalls) /\ \A i \in DOMAIN q : q[i] \in AdminCalls
        /\ q # << >> /\ Len(q) \in DOMAIN q
    BY DEF AInv, ATypeOK, AdminListTypeOK
  <1>3. \A d \in AdminCalls : Late(d) \in AdminCalls
    BY AdminCallPassed
  <1>4. /\ w \in Seq(AdminCalls) /\ (w = << >> => k = Len(q))
        /\ w # << >> => \E i \in DOMAIN q : w[Len(w)] = IF k = Len(q) THEN Late(q[i]) ELSE q[Len(q)]
        /\ \A i \in DOMAIN w : \E j \in DOMAIN q : w[i] = q[j] \/ w[i] = Late(q[j])
    <2> HIDE DEF q, w
    <2>1. k \in DOMAIN q
      BY DEF q
    <2>2. /\ WithoutCall(q, k) \in Seq(AdminCalls) /\ (WithoutCall(q, k) = << >> => k = Len(q))
          /\ WithoutCall(q, k) # << >> => \E i \in DOMAIN q : WithoutCall(q, k)[Len(WithoutCall(q, k))] =
                    IF k = Len(q) THEN Late(q[i]) ELSE q[Len(q)]
          /\ \A i \in DOMAIN WithoutCall(q, k) : \E j \in DOMAIN q :
                WithoutCall(q, k)[i] = q[j] \/ WithoutCall(q, k)[i] = Late(q[j])
      BY <1>2, <1>3, <2>1, WithoutOne
    <2> QED
      BY <2>2 DEF w
  <1> HIDE DEF w
  <1>5. /\ adminTable' \in Tables
        /\ \/ c.served /\ adminTable' = received
           \/ /\ adminTable'.cause # {} /\ adminTable'.listing = adminTable.listing
              /\ adminTable'.pg = adminTable.pg
    <2>1. CASE c.served /\ adminTable' = received
      BY <1>2, <2>1 DEF AdminCalls
    <2>2. CASE \E e \in {TRUE, adminTable.error} : adminTable' = failed(e)
      <3>1. PICK e \in {TRUE, adminTable.error} : adminTable' = failed(e)
        BY <2>2
      <3>2. adminTable \in Tables /\ e \in BOOLEAN
        BY <3>1 DEF AInv, ATypeOK, AdminListTypeOK
      <3> QED
        BY <3>1, <3>2
    <2> QED
      BY <1>1, <2>1, <2>2
  <1>6. AdminListTypeOK'
    BY <1>1, <1>4, <1>5 DEF AInv, ATypeOK, AdminListTypeOK
  <1>7. AdminTypeOK'
    BY <1>1, <1>5 DEF AInv, ATypeOK, AdminTypeOK
  <1>8. AdminPagesFollow'
    <2>1. ASSUME NEW i \in DOMAIN w
          PROVE  /\ Offerable(w[i].pg, AdminPer)
                 /\ w[i].served => Right(w[i].answer, w[i].pg, AdminPer)
      <3>1. PICK j \in DOMAIN q : w[i] = q[j] \/ w[i] = Late(q[j])
        BY <1>4
      <3>2. w[i].pg = q[j].pg /\ w[i].served = q[j].served /\ w[i].answer = q[j].answer
        BY <1>2, <3>1, AdminCallPassed
      <3> QED
        BY <3>2 DEF AInv, AdminPagesFollow
    <2>2. Right(adminTable'.listing, adminTable'.pg, AdminPer) /\ Offerable(adminTable'.pg, AdminPer)
      BY <1>5 DEF AInv, AdminPagesFollow
    <2> QED
      BY <1>1, <2>1, <2>2 DEF AInv, AdminPagesFollow
  <1>9. ASSUME NEW r \in Recs, Gone(r)
        PROVE  Gone(r)'
    <2>1. LET d == q[Len(q)] IN d.passed \/ ~d.served \/ r \notin d.answer.rows
      BY <1>2, <1>9 DEF Gone
    <2>2. CASE w = << >>
      <3>1. k = Len(q)
        BY <1>4, <2>2
      <3>2. r \notin adminTable'.listing.rows \/ adminTable'.cause # {}
        <4>1. CASE c.served /\ adminTable' = received
          <5>1. c.passed => "overtaken" \in adminTable'.cause
            BY <4>1
          <5>2. adminTable'.listing = c.answer
            BY <4>1
          <5> QED
            BY <2>1, <3>1, <4>1, <5>1, <5>2
        <4> QED
          BY <1>5, <4>1
      <3> QED
        BY <1>1, <2>2, <3>2 DEF Gone
    <2>3. CASE w # << >>
      <3>1. PICK i \in DOMAIN q : w[Len(w)] = IF k = Len(q) THEN Late(q[i]) ELSE q[Len(q)]
        BY <1>4, <2>3
      <3>2. Late(q[i]).passed
        BY <1>2, AdminCallPassed
      <3>3. w[Len(w)].passed \/ w[Len(w)] = q[Len(q)]
        BY <3>1, <3>2
      <3> QED
        BY <1>1, <2>1, <2>3, <3>3 DEF Gone
    <2> QED
      BY <2>2, <2>3
  <1>10. ToldRight'
    BY <1>1, <1>9, ToldUntouched DEF AInv
  <1> QED
    BY <1>6, <1>7, <1>8, <1>10 DEF ATypeOK

\* The other page, and the commands, leave the admin page alone.
LEMMA AdminKept ==
    ASSUME AInv, Moves, AdminNext \/ UNCHANGED adminVars
    PROVE  ATypeOK' /\ AdminPagesFollow' /\ ToldRight'
  <1>1. CASE UNCHANGED adminVars
    <2>1. AdminUntouched /\ UNCHANGED <<orphans, ops, told>>
      BY <1>1 DEF adminVars, AdminUntouched
    <2>2. AdminListTypeOK' /\ AdminPagesFollow' /\ \A r \in Recs : Gone(r) => Gone(r)'
      BY <2>1, AdminListUntouched DEF AInv, ATypeOK
    <2>3. AdminTypeOK'
      BY <2>1 DEF AInv, ATypeOK, AdminTypeOK, AdminUntouched
    <2>4. ToldRight'
      BY <2>1, <2>2, ToldUntouched DEF AInv
    <2> QED
      BY <2>2, <2>3, <2>4 DEF ATypeOK
  <1>2. CASE AdminNext
    BY <1>2, AskOpKeeps, GoAdminPageKeeps, OpenAdminKeeps, ServeOpKeeps, DeletedKeeps, ClosedKeeps,
       AlertedKeeps, ServeAdminListKeeps, ReceiveAdminListKeeps
    DEF AdminNext, AdminAnswers
  <1> QED
    BY <1>1, <1>2

-----------------------------------------------------------------------------
(* The options of the selects *)

LEMMA OptionsUntouched ==
    ASSUME OptionsComplete, Moves, ServerTypeOK, ServerTypeOK', UNCHANGED options,
           boot' = "aliases" => boot = "aliases"
    PROVE  OptionsComplete'
  <1>1. faults' = 0 => faults = 0
    BY WebServerAssumption DEF Moves, ServerTypeOK
  <1> QED
    BY <1>1, OffersShrink DEF OptionsComplete

\* Nothing but BootClients makes the document wait for the aliases.
LEMMA OptionsKept ==
    ASSUME OptionsComplete, Moves, ServerTypeOK, ServerTypeOK', DTypeOK,
           DashboardNext \/ UNCHANGED dashVars
    PROVE  OptionsComplete'
  <1>1. CASE BootClients
    <2>1. "client" \in Selects /\ DOMAIN options = Selects /\ UNCHANGED status
      BY <1>1 DEF Selects, DTypeOK, DashboardTypeOK, BootClients
    <2>2. CASE NoFault /\ options' = [options EXCEPT !["client"] = Offered("client")]
      <3>1. options'["client"] = Offered("client") /\ Offered("client")' = Offered("client")
        BY <2>1, <2>2 DEF Offered
      <3> QED
        BY <3>1 DEF OptionsComplete
    <2>3. CASE Fault
      <3>1. faults' # 0
        BY <2>3, WebServerAssumption DEF Fault, ServerTypeOK
      <3> QED
        BY <3>1 DEF OptionsComplete
    <2> QED
      BY <1>1, <2>2, <2>3 DEF BootClients, Fetched
  <1>2. CASE BootAliases \/ BootDies \/ ReloadDashboard
    <2>1. boot' # "aliases"
      BY <1>2 DEF BootAliases, BootDies, ReloadDashboard
    <2> QED
      BY <2>1 DEF OptionsComplete
  <1>3. CASE \/ Search \/ Recolour \/ ChangeDepth \/ UNCHANGED dashVars
             \/ \E b \in AllBoxes : \E v \in Values[b] \cup {None} : Edit(b, v)
             \/ \E p \in Buttons(table.listing) : GoPage(p)
             \/ \E k \in DOMAIN calls["overview"] : AnswerOverview(k) \/ OverviewRejected(k)
             \/ \E p \in Charts : \E k \in DOMAIN calls[p] : AnswerChart(p, k)
             \/ \E k \in DOMAIN lists : ServeList(k) \/ ReceiveList(k)
    <2>1. UNCHANGED <<boot, options>>
      BY <1>3
      DEF Search, Recolour, ChangeDepth, Edit, GoPage, AnswerOverview, OverviewRejected, AnswerChart,
          ServeList, ReceiveList, dashVars
    <2> QED
      BY <2>1, OptionsUntouched
  <1> QED
    BY <1>1, <1>2, <1>3 DEF DashboardNext, DashboardAnswers

\* A table that was never filled has no rows.
NothingListed == table.ask = Nothing => table.listing = NoListing

LEMMA NothingListedKept ==
    ASSUME NothingListed, DTypeOK, DashboardNext \/ UNCHANGED dashVars
    PROVE  NothingListed'
  <1>1. CASE ReloadDashboard
    BY <1>1 DEF ReloadDashboard, NothingListed, BlankTable
  <1>2. CASE \E k \in DOMAIN lists : ReceiveList(k)
    <2>1. PICK k \in DOMAIN lists : ReceiveList(k)
      BY <1>2
    <2>2. lists \in Seq(ListCalls)
      BY DEF DTypeOK, ListTypeOK
    <2>6. lists[k] \in ListCalls
      BY <2>2
    <2>7. lists[k].ask \in ListAsks
      BY <2>6 DEF ListCalls
    <2>3. DOMAIN lists[k].ask = {"filter", "per"} /\ DOMAIN Nothing = {}
      BY <2>7 DEF ListAsks, Nothing
    <2>4. CASE table'.ask = lists[k].ask
      BY <2>3, <2>4 DEF NothingListed
    <2>5. CASE table'.ask = table.ask /\ table'.listing = table.listing
      BY <2>5 DEF NothingListed
    <2>8. \A e : /\ [Failed(table) EXCEPT !.error = e].ask = table.ask
                 /\ [Failed(table) EXCEPT !.error = e].listing = table.listing
      BY DEF Failed, DTypeOK, ListTypeOK
    <2>9. \/ table'.ask = lists[k].ask
          \/ \E e : table' = [Failed(table) EXCEPT !.error = e]
      BY <2>1 DEF ReceiveList
    <2> QED
      BY <2>4, <2>5, <2>8, <2>9
  <1>3. CASE \E k \in DOMAIN calls["overview"] : OverviewRejected(k)
    <2>1. table' = Failed(table)
      BY <1>3 DEF OverviewRejected
    <2>2. table'.ask = table.ask /\ table'.listing = table.listing
      BY <2>1 DEF Failed, DTypeOK, ListTypeOK
    <2> QED
      BY <2>2 DEF NothingListed
  <1>4. CASE \/ BootClients \/ BootAliases \/ BootDies \/ Search \/ Recolour \/ ChangeDepth
             \/ UNCHANGED dashVars
             \/ \E b \in AllBoxes : \E v \in Values[b] \cup {None} : Edit(b, v)
             \/ \E p \in Buttons(table.listing) : GoPage(p)
             \/ \E k \in DOMAIN calls["overview"] : AnswerOverview(k)
             \/ \E p \in Charts : \E k \in DOMAIN calls[p] : AnswerChart(p, k)
             \/ \E k \in DOMAIN lists : ServeList(k)
    <2>1. UNCHANGED table
      BY <1>4
      DEF BootClients, BootAliases, BootDies, Search, Recolour, ChangeDepth, Edit, GoPage,
          AnswerOverview, AnswerChart, ServeList, dashVars
    <2> QED
      BY <2>1 DEF NothingListed
  <1> QED
    BY <1>1, <1>2, <1>3, <1>4 DEF DashboardNext, DashboardAnswers

-----------------------------------------------------------------------------
(* The two pages and the server *)

WebInv ==
    /\ AInv
    /\ DTypeOK /\ PanelsFollow /\ PagesFollow /\ OptionsComplete /\ NothingListed

LEMMA WebInvInitially == Init => WebInv
  <1> SUFFICES ASSUME Init PROVE WebInv
    OBVIOUS
  <1>1. ServerTypeOK
    BY WebServerAssumption DEF Init, ServerInit, ServerTypeOK
  <1>2. DTypeOK
    BY DTypesInitially DEF Init
  <1>3. /\ boot = "clients" /\ page = FirstPage /\ lists = << >> /\ DOMAIN lists = {}
        /\ table.ask = Nothing /\ table.listing = NoListing /\ table.pg = FirstPage
    BY DEF Init, DashboardInit, BlankTable
  <1>4. PanelsFollow /\ PagesFollow /\ OptionsComplete /\ NothingListed
    BY <1>3, FirstPageOffered DEF PanelsFollow, PagesFollow, OptionsComplete, NothingListed
  <1>5. /\ orphans = {} /\ adminPage = FirstPage /\ ops = {} /\ told = {}
        /\ adminLists = << >> /\ DOMAIN adminLists = {} /\ adminLists \in Seq(AdminCalls)
        /\ adminTable = BlankAdminTable
    BY DEF Init, AdminInit
  <1>6. /\ BlankAdminTable \in [error : BOOLEAN, listing : Listings, pg : PageChoices,
                                cause : SUBSET {"overtaken", "failed"}]
        /\ BlankAdminTable.listing = NoListing /\ BlankAdminTable.pg = FirstPage
        /\ BlankAdminTable.cause = {} /\ FirstPage.no >= 1
    BY FirstPageTypes DEF BlankAdminTable, FirstPage
  <1>7. ATypeOK
    BY <1>5, <1>6, FirstPageTypes DEF ATypeOK, AdminTypeOK, AdminListTypeOK
  <1>8. AdminPagesFollow /\ ToldRight
    BY <1>5, <1>6, FirstPageOffered DEF AdminPagesFollow, ToldRight
  <1> QED
    BY <1>1, <1>2, <1>4, <1>7, <1>8 DEF WebInv, AInv

\* A step of one page leaves the other where it is.
LEMMA WebInvKept == WebInv /\ [Next]_webVars => WebInv'
  <1> SUFFICES ASSUME WebInv, [Next]_webVars PROVE WebInv'
    OBVIOUS
  <1>1. DashboardNext \/ UNCHANGED dashVars
    BY DEF Next, CommandEnds, webVars
  <1>2. AdminNext \/ UNCHANGED adminVars
    BY DEF Next, CommandEnds, webVars
  <1>3. ServerTypeOK' /\ Moves
    BY RecordsMove DEF WebInv, AInv, ATypeOK
  <1>4. DTypeOK' /\ PanelsFollow' /\ PagesFollow' /\ OptionsComplete' /\ NothingListed'
    BY <1>1, <1>3, DTypesKept, PanelsKeptUp, PagesKept, OptionsKept, NothingListedKept DEF WebInv, AInv
  <1>5. ATypeOK' /\ AdminPagesFollow' /\ ToldRight'
    BY <1>2, <1>3, AdminKept DEF WebInv
  <1> QED
    BY <1>3, <1>4, <1>5 DEF WebInv, AInv

THEOREM WebInvariant == Spec => []WebInv
  BY WebInvInitially, WebInvKept, PTL DEF Spec

\* The panels of the dashboard at rest agree with the address bar, or a call
\* for one that does not failed, was overtaken or was sent before a search.
THEOREM PanelsAgree == Spec => []PanelsExplained
  <1>1. WebInv => PanelsExplained
    <2> SUFFICES ASSUME WebInv, Settled
                 PROVE  /\ \A p \in Panels : shown[p].ask = FilterOf(url) \/ shown[p].cause # {}
                        /\ table.ask = UrlAsk \/ table.cause # {}
                        /\ cards.hidden = (\E b \in Boxes : url[b] # None) \/ cards.unapplied
      BY DEF PanelsExplained, UrlAsk
    <2>1. /\ boot = "ready" /\ lists = << >> /\ \A p \in Panels : calls[p] = << >>
          /\ PanelsFollow
      BY DEF Settled, NothingInFlight, WebInv
    <2>2. /\ \A p \in Panels : UpToDate(p)
          /\ ListUpToDate
          /\ cards.hidden = (\E b \in Boxes : url[b] # None) \/ cards.unapplied
      BY <2>1, OverviewIsPanel DEF PanelsFollow, Panels
    <2> QED
      BY <2>1, <2>2 DEF UpToDate, ListUpToDate
  <1> QED
    BY <1>1, WebInvariant, PTL

\* The types; and a page at rest that is empty although there are records has
\* an explanation, on either page.
THEOREM PagesAreExplained == Spec => []PagesOK
  <1>1. WebInv => WebTypeOK
    BY DEF WebInv, AInv, ATypeOK, DTypeOK, WebTypeOK
  <1>2. WebInv => EmptyExplained(table)
    <2> SUFFICES ASSUME WebInv PROVE EmptyExplained(table)
      OBVIOUS
    <2>1. /\ table.listing \in Listings /\ table.pg \in PageChoices
          /\ table.ask \in ListAsks \cup {Nothing}
          /\ Right(table.listing, table.pg, table.ask.per)
          /\ table.cause = {} => Offerable(table.pg, table.ask.per)
      BY DEF WebInv, DTypeOK, ListTypeOK, PagesFollow
    <2>2. CASE table.ask = Nothing
      <3>1. table.listing.total = 0
        BY <2>2 DEF WebInv, NothingListed, NoListing
      <3> QED
        BY <3>1 DEF EmptyExplained
    <2>3. CASE table.ask \in ListAsks
      <3>1. table.ask.per \in Nat
        BY <2>3 DEF ListAsks
      <3> QED
        BY <2>1, <3>1, Explained
    <2> QED
      BY <2>1, <2>2, <2>3
  <1>3. WebInv => EmptyExplained(adminTable)
    <2> SUFFICES ASSUME WebInv PROVE EmptyExplained(adminTable)
      OBVIOUS
    <2>1. /\ adminTable.listing \in Listings /\ adminTable.pg \in PageChoices
          /\ Right(adminTable.listing, adminTable.pg, AdminPer)
          /\ Offerable(adminTable.pg, AdminPer)
      BY DEF WebInv, AInv, ATypeOK, AdminListTypeOK, AdminPagesFollow
    <2> QED
      BY <2>1, AdminAssumption, Explained
  <1>4. WebInv => PagesOK
    BY <1>1, <1>2, <1>3 DEF PagesOK, EmptyPagesExplained
  <1> QED
    BY <1>4, WebInvariant, PTL

\* The admin page at rest offers nothing it was told is done.
THEOREM DoneIsGone == Spec => []DoneNotOffered
  <1>1. WebInv => DoneNotOffered
    <2> SUFFICES ASSUME WebInv, AdminSettled, NEW op \in OpNames, NEW r \in Recs, <<op, r>> \in told
                 PROVE  IF op = "delete" THEN r \notin Rows \/ adminTable.cause # {} ELSE r \notin orphans
      BY DEF DoneNotOffered
    <2>1. adminLists = << >>
      BY DEF AdminSettled
    <2>2. IF op = "delete" THEN Gone(r) ELSE r \notin orphans
      BY DEF WebInv, AInv, ToldRight
    <2> QED
      BY <2>1, <2>2 DEF Gone, Rows
  <1> QED
    BY <1>1, WebInvariant, PTL

\* A reload restores every filter of the address bar whose value still exists,
\* unless a list of options failed to load.
THEOREM FiltersSurviveReload == Spec => ReloadKeepsFilters
  <1> DEFINE Restores ==
        boot = "aliases" /\ boot' = "ready" =>
            \A b \in AllBoxes :
                url[b] # None /\ input'[b] # url[b] =>
                    /\ b \in Selects
                    /\ \/ faults' > 0
                       \/ url[b] \notin Offered(b)
  <1>1. ASSUME WebInv, [Next]_webVars PROVE [Restores]_<<serverVars, dashVars>>
    <2> SUFFICES ASSUME boot = "aliases", boot' = "ready", NEW b \in AllBoxes,
                        url[b] # None, input'[b] # url[b]
                 PROVE  b \in Selects /\ (faults' > 0 \/ url[b] \notin Offered(b))
      OBVIOUS
    <2>1. BootAliases
      <3>1. DashboardNext
        BY <1>1 DEF Next, CommandEnds, webVars, dashVars
      <3> QED
        BY <3>1
        DEF DashboardNext, DashboardAnswers, BootClients, BootDies, ReloadDashboard, Search, Recolour,
            ChangeDepth, Edit, GoPage, AnswerOverview, OverviewRejected, AnswerChart, ServeList,
            ReceiveList
    <2>2. input' = BootBoxes(options') /\ Fetched("alias")
      BY <2>1 DEF BootAliases
    <2>3. b \in Selects /\ url[b] \notin options'[b]
      BY <2>2 DEF BootBoxes
    <2>4. faults \in Nat /\ faults' \in Nat /\ faults' >= faults
      BY <1>1, RecordsMove, WebServerAssumption DEF WebInv, AInv, ATypeOK, ServerTypeOK, Moves
    <2>5. SUFFICES ASSUME faults' = 0 PROVE url[b] \notin Offered(b)
      BY <2>3, <2>4
    <2>6. options' = [options EXCEPT !["alias"] = Offered("alias")]
      BY <2>2, <2>4, <2>5 DEF Fetched, Fault
    <2>7. DOMAIN options = Selects /\ (faults = 0 => Offered("client") \subseteq options["client"])
      BY <1>1 DEF WebInv, DTypeOK, DashboardTypeOK, OptionsComplete
    <2>8. faults = 0
      BY <2>4, <2>5
    <2> QED
      BY <2>3, <2>6, <2>7, <2>8 DEF Selects
  <1>2. WebInv /\ [Next]_webVars => [Restores]_<<serverVars, dashVars>>
    BY <1>1
  <1>3. Spec => [][Restores]_<<serverVars, dashVars>>
    BY <1>2, WebInvariant, PTL DEF Spec
  <1> QED
    BY <1>3 DEF ReloadKeepsFilters

=============================================================================
