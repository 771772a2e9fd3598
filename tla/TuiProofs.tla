------------------------------ MODULE TuiProofs --------------------------------
(***************************************************************************)
(* For any tables, names, pages, tokens and failures: the types of the     *)
(* terminal interface, what a question is about, that a refresh keeps the  *)
(* filters, and what an undisturbed one offers and shows.                  *)
(***************************************************************************)
EXTENDS TuiApp, FiniteSetTheorems, SequenceTheorems, TLAPS

-----------------------------------------------------------------------------
(* Sorted sets *)

\* Every place from the first to the last is one number's.
LEMMA Places ==
    ASSUME NEW S \in SUBSET Nat, IsFiniteSet(S)
    PROVE  /\ Cardinality(S) \in Nat
           /\ \A i \in 1..Cardinality(S) : \E r \in S : Cardinality({q \in S : q < r}) = i - 1
           /\ \A r \in S : Cardinality({q \in S : q < r}) \in 0..(Cardinality(S) - 1)
           /\ \A r, s \in S : Cardinality({q \in S : q < r}) = Cardinality({q \in S : q < s}) => r = s
  <1> DEFINE n == Cardinality(S)
             older(r) == {q \in S : q < r}
             F == [r \in S |-> Cardinality(older(r))]
             T == 0..(n - 1)
  <1>1. n \in Nat
    BY FS_CardinalityType
  <1>2. \A r \in S : older(r) \in SUBSET S /\ r \notin older(r)
    OBVIOUS
  <1>3. \A r \in S : IsFiniteSet(older(r)) /\ Cardinality(older(r)) \in Nat
    BY <1>2, FS_Subset, FS_CardinalityType
  <1>4. \A r \in S : Cardinality(older(r)) < n
    <2> SUFFICES ASSUME NEW r \in S PROVE Cardinality(older(r)) < n
      OBVIOUS
    <2>1. Cardinality(older(r)) <= n /\ Cardinality(older(r)) # n
      BY <1>2, FS_Subset
    <2> HIDE DEF n, older
    <2> QED
      BY <1>1, <1>3, <2>1
  <1>5. ASSUME NEW r \in S, NEW s \in S, r < s
        PROVE  Cardinality(older(r)) # Cardinality(older(s))
    <2>1. r \in Nat /\ s \in Nat
      OBVIOUS
    <2>2. \A q \in S : q < r => q < s
      BY <1>5, <2>1
    <2>3. older(r) \in SUBSET older(s) /\ r \in older(s) /\ r \notin older(r)
      BY <1>2, <1>5, <2>1, <2>2
    <2> QED
      BY <1>3, <2>3, FS_Subset
  <1>6. \A r, s \in S : Cardinality(older(r)) = Cardinality(older(s)) => r = s
    <2> SUFFICES ASSUME NEW r \in S, NEW s \in S, Cardinality(older(r)) = Cardinality(older(s))
                 PROVE  r = s
      OBVIOUS
    <2>1. ~(r < s) /\ ~(s < r)
      BY <1>5
    <2> QED
      BY <2>1
  <1>7. \A r \in S : Cardinality(older(r)) \in T
    <2> SUFFICES ASSUME NEW r \in S PROVE Cardinality(older(r)) \in T
      OBVIOUS
    <2>1. Cardinality(older(r)) \in Nat /\ Cardinality(older(r)) < n
      BY <1>3, <1>4
    <2> HIDE DEF n, older
    <2> QED
      BY <1>1, <2>1
  <1>8. F \in Injection(S, T)
    <2>1. F \in [S -> T]
      BY <1>7
    <2>2. \A r, s \in S : F[r] = F[s] => r = s
      BY <1>6
    <2> HIDE DEF F, T
    <2> QED
      BY <2>1, <2>2 DEF Injection, IsInjective
  <1>9. IsFiniteSet(T) /\ Cardinality(T) = n
    <2>1. 0 \in Int /\ n - 1 \in Int
      BY <1>1
    <2>2. IsFiniteSet(T) /\ Cardinality(T) = IF 0 > n - 1 THEN 0 ELSE (n - 1) - 0 + 1
      BY <2>1, FS_Interval
    <2> HIDE DEF T, n
    <2> QED
      BY <1>1, <2>2
  <1>10. F \in Surjection(S, T)
    BY <1>8, <1>9, FS_Injection
  <1>11. \A t \in T : \E r \in S : F[r] = t
    BY <1>10 DEF Surjection
  <1>12. ASSUME NEW i \in 1..n
         PROVE  \E r \in S : Cardinality(older(r)) = i - 1
    <2>1. i - 1 \in T
      BY <1>1
    <2> QED
      BY <1>11, <2>1
  <1> QED
    BY <1>1, <1>6, <1>7, <1>12

LEMMA SortedAll ==
    ASSUME NEW S \in SUBSET Nat, IsFiniteSet(S)
    PROVE  /\ Sorted(S) \in Seq(S) /\ Len(Sorted(S)) = Cardinality(S) /\ Cardinality(S) \in Nat
           /\ DOMAIN Sorted(S) = 1..Cardinality(S)
           /\ ItemsOf(Sorted(S)) = S
           /\ \A i, j \in DOMAIN Sorted(S) : Sorted(S)[i] = Sorted(S)[j] => i = j
  <1> DEFINE n == Cardinality(S)
             older(r) == {q \in S : q < r}
             at(i) == CHOOSE r \in S : Cardinality(older(r)) = i - 1
             f == [i \in 1..n |-> at(i)]
  <1>1. /\ n \in Nat /\ \A i \in 1..n : at(i) \in S /\ Cardinality(older(at(i))) = i - 1
        /\ \A r \in S : Cardinality(older(r)) \in 0..(n - 1)
        /\ \A r, s \in S : Cardinality(older(r)) = Cardinality(older(s)) => r = s
    <2>1. /\ n \in Nat /\ \A i \in 1..n : \E r \in S : Cardinality(older(r)) = i - 1
          /\ \A r \in S : Cardinality(older(r)) \in 0..(n - 1)
          /\ \A r, s \in S : Cardinality(older(r)) = Cardinality(older(s)) => r = s
      BY Places
    <2> HIDE DEF n, older
    <2> QED
      BY <2>1
  <1>2. Sorted(S) = f
    BY DEF Sorted
  <1> HIDE DEF n, at, older
  <1>3. f \in [1..n -> S]
    BY <1>1
  <1>4. f \in Seq(S) /\ Len(f) = n /\ DOMAIN f = 1..n
    BY <1>1, <1>3
  <1>5. ASSUME NEW i \in 1..n, NEW j \in 1..n, at(i) = at(j)
        PROVE  i = j
    <2>1. i - 1 = j - 1
      BY <1>1, <1>5
    <2> QED
      BY <1>1, <2>1
  <1>6. ASSUME NEW r \in S
        PROVE  \E i \in 1..n : at(i) = r
    <2> DEFINE k == Cardinality(older(r)) + 1
    <2>1. k \in 1..n /\ k - 1 = Cardinality(older(r))
      BY <1>1
    <2>2. at(k) = r
      BY <1>1, <2>1
    <2> QED
      BY <2>1, <2>2
  <1>7. ItemsOf(f) = S
    <2>1. \A i \in 1..n : f[i] = at(i)
      OBVIOUS
    <2>2. /\ \A i \in 1..n : f[i] \in S
          /\ \A r \in S : \E i \in 1..n : f[i] = r
      BY <1>1, <1>6, <2>1
    <2>3. DOMAIN f = 1..n
      OBVIOUS
    <2> HIDE DEF f
    <2> QED
      BY <2>2, <2>3 DEF ItemsOf
  <1>8. \A i, j \in DOMAIN f : f[i] = f[j] => i = j
    BY <1>4, <1>5
  <1> QED
    BY <1>1, <1>2, <1>4, <1>7, <1>8 DEF n

LEMMA NewestFirstAll ==
    ASSUME NEW S \in SUBSET Nat, IsFiniteSet(S)
    PROVE  /\ NewestFirst(S) \in Seq(S) /\ Len(NewestFirst(S)) = Cardinality(S)
           /\ ItemsOf(NewestFirst(S)) = S
  <1> DEFINE n == Cardinality(S)
             s == Sorted(S)
             f == [i \in 1..n |-> s[n + 1 - i]]
  <1>1. n \in Nat /\ DOMAIN s = 1..n /\ ItemsOf(s) = S
    BY SortedAll
  <1>2. NewestFirst(S) = f
    BY DEF NewestFirst
  <1> HIDE DEF n, s
  <1>3. \A i \in 1..n : n + 1 - i \in 1..n /\ n + 1 - (n + 1 - i) = i
    BY <1>1
  <1>4. \A i \in 1..n : s[i] \in S
    BY <1>1 DEF ItemsOf
  <1>5. f \in [1..n -> S]
    BY <1>3, <1>4
  <1>6. f \in Seq(S) /\ Len(f) = n /\ DOMAIN f = 1..n
    BY <1>1, <1>5
  <1>7. ItemsOf(f) = S
    <2>1. ASSUME NEW r \in S PROVE \E i \in 1..n : f[i] = r
      <3>1. PICK j \in 1..n : s[j] = r
        BY <1>1 DEF ItemsOf
      <3>2. f[n + 1 - j] = r
        BY <1>3, <3>1
      <3> QED
        BY <1>3, <3>2
    <2>2. \A i \in 1..n : f[i] \in S
      BY <1>5
    <2> HIDE DEF f
    <2> QED
      BY <1>6, <2>1, <2>2 DEF ItemsOf
  <1> QED
    BY <1>2, <1>6, <1>7 DEF n

-----------------------------------------------------------------------------
(* The invariant *)

\* Names are kept in finite sets, though there may be infinitely many.
Chosen(S) == {T \in SUBSET S : IsFiniteSet(T)}

AliasLists == UNION {[C -> Chosen(Aliases)] : C \in Chosen(Clients)}

Drafts ==
    [clients : Chosen(Clients), todo : Chosen(Clients), aliasesOf : AliasLists,
     records : {s \in Seq(Ids) : Len(s) <= PageSize}, total : 0..MaxId,
     active : Seq(Ids), token : 0..MaxToken]

\* TuiTypeOK in three parts, and what it leaves open.
ScreenOK ==
    /\ records \in Seq(Ids) /\ Len(records) <= PageSize
    /\ active \in Seq(Ids) /\ shownTokens \in Seq(1..MaxToken)
    /\ sel \in [Tables -> Nat] /\ \A t \in Tables : sel[t] <= Len(LinesOf(t))

FiltersOK ==
    /\ clientIds \in Seq(Clients \cup {GLOBAL}) /\ aliases \in Seq(Aliases \cup {NONE})
    /\ clientIds[1] = GLOBAL /\ aliases[1] = NONE
    /\ clientIndex \in DOMAIN clientIds /\ aliasIndex \in DOMAIN aliases
    /\ IsInjective(clientIds) /\ IsInjective(aliases)

OverlayOK ==
    overlay \in [kind : {"none", "help", "form", "created"} \cup Actions, id : 0..MaxId \cup 0..MaxToken]

ProgressOK ==
    /\ pc \in {"idle", "quit", "clients", "aliases", "stats", "records", "again", "active", "tokens"}
    /\ cont \in {"new", "start", "key"}
    /\ quiet \in BOOLEAN /\ faults \in 0..MaxFaults
    /\ page \in 1..MaxId /\ total \in 0..MaxId
    /\ draft \in Drafts
    /\ pin \in Pins

\* Nothing lies over the screen while a refresh is under way.
OverlayWaits == pc # "idle" => overlay = NoOverlay

TInv ==
    /\ ServerTypeOK /\ ScreenOK /\ FiltersOK /\ OverlayOK /\ ProgressOK
    /\ OverlayWaits
    /\ ConfirmNamesSelected

\* What an undisturbed refresh has fetched is what the server holds.
NamesFetched ==
    /\ draft.clients = KnownClients
    /\ draft.clients = draft.todo \cup DOMAIN draft.aliasesOf
    /\ \A c \in DOMAIN draft.aliasesOf : draft.aliasesOf[c] = AliasesOf(c)

Matching == Listed(CurrentClient, CurrentAlias)

TotalFetched == draft.total = Cardinality(Matching) /\ page <= Pages(draft.total)

Undisturbed ==
    quiet =>
        /\ pc = "clients" => DOMAIN draft.aliasesOf = {}
        /\ pc = "aliases" => NamesFetched
        /\ pc \in {"again", "active", "tokens"} => TotalFetched
        /\ pc \in {"active", "tokens"} => draft.records = PageOf(Matching, page, PageSize)
        /\ pc = "tokens" => ItemsOf(draft.active) \subseteq Active

-----------------------------------------------------------------------------
(* Finite sets of rows and names *)

LEMMA ImageFinite ==
    ASSUME NEW f, IsFiniteSet(DOMAIN f), f = [x \in DOMAIN f |-> f[x]]
    PROVE  IsFiniteSet({f[x] : x \in DOMAIN f})
  <1> DEFINE T == {f[x] : x \in DOMAIN f}
             S == DOMAIN f
  <1>1. f \in [S -> T]
    OBVIOUS
  <1>2. \A t \in T : \E x \in S : f[x] = t
    OBVIOUS
  <1> HIDE DEF T, S
  <1>3. f \in Surjection(S, T)
    BY <1>1, <1>2 DEF Surjection
  <1> QED
    BY <1>3, FS_Surjection DEF S, T

LEMMA Bounds ==
    /\ MaxId \in Nat \ {0} /\ MaxToken \in Nat \ {0} /\ MaxChanges \in Nat /\ PageSize \in Nat \ {0}
    /\ IsFiniteSet(Ids) /\ Cardinality(Ids) = MaxId /\ Ids \subseteq Nat
    /\ Clients \subseteq Nat \ {0} /\ Aliases \subseteq Nat \ {0}
    /\ GLOBAL \in Nat /\ GLOBAL \notin Clients /\ NONE \in Nat /\ NONE \notin Aliases
  <1>1. MaxId \in Nat \ {0}
    BY ServerAssumption
  <1>2. IsFiniteSet(1..MaxId) /\ Cardinality(1..MaxId) = MaxId
    <2>1. 1 \in Int /\ MaxId \in Int /\ ~(1 > MaxId) /\ MaxId - 1 + 1 = MaxId
      BY <1>1
    <2>2. IsFiniteSet(1..MaxId) /\ Cardinality(1..MaxId) = IF 1 > MaxId THEN 0 ELSE MaxId - 1 + 1
      BY <2>1, FS_Interval
    <2> QED
      BY <2>1, <2>2
  <1> QED
    BY <1>1, <1>2, ServerAssumption, AppAssumption DEF Ids, GLOBAL, NONE

LEMMA RowsFinite ==
    ASSUME ServerTypeOK, NEW S \in SUBSET DOMAIN rows
    PROVE  /\ IsFiniteSet(S) /\ Cardinality(S) \in 0..MaxId
           /\ S \subseteq Ids /\ S \in SUBSET Nat
  <1>1. nextId \in 1..(MaxId + 1) /\ DOMAIN rows \subseteq 1..(nextId - 1)
    BY DEF ServerTypeOK
  <1>2. S \in SUBSET Ids
    BY <1>1, Bounds DEF Ids
  <1>3. IsFiniteSet(S) /\ Cardinality(S) <= MaxId
    BY <1>2, FS_Subset, Bounds
  <1>4. Cardinality(S) \in Nat
    BY <1>3, FS_CardinalityType
  <1>5. Cardinality(S) \in 0..MaxId
    BY <1>3, <1>4, Bounds
  <1>6. S \in SUBSET Nat
    BY <1>2, Bounds
  <1> QED
    BY <1>2, <1>3, <1>5, <1>6

LEMMA ClientsFinite == ServerTypeOK => KnownClients \in Chosen(Clients)
  <1> SUFFICES ASSUME ServerTypeOK PROVE KnownClients \in Chosen(Clients)
    OBVIOUS
  <1> DEFINE f == [id \in DOMAIN rows |-> rows[id].client]
  <1>1. IsFiniteSet(DOMAIN rows)
    BY RowsFinite
  <1>2. DOMAIN f = DOMAIN rows /\ f = [x \in DOMAIN f |-> f[x]]
    OBVIOUS
  <1>3. KnownClients = {f[x] : x \in DOMAIN f}
    BY DEF KnownClients
  <1>4. KnownClients \subseteq Clients
    BY DEF KnownClients, ServerTypeOK, Row
  <1> HIDE DEF f
  <1>5. IsFiniteSet(KnownClients)
    BY <1>1, <1>2, <1>3, ImageFinite
  <1> QED
    BY <1>4, <1>5 DEF Chosen

LEMMA AliasesFinite == ASSUME ServerTypeOK, NEW c PROVE AliasesOf(c) \in Chosen(Aliases)
  <1> DEFINE S == {i \in DOMAIN rows : OfClient(i, c) /\ rows[i].status = "completed"}
             f == [id \in S |-> rows[id].alias]
             T == {f[x] : x \in DOMAIN f}
  <1>1. S \in SUBSET DOMAIN rows
    OBVIOUS
  <1>2. IsFiniteSet(S)
    BY <1>1, RowsFinite
  <1>3. DOMAIN f = S /\ f = [x \in DOMAIN f |-> f[x]]
    OBVIOUS
  <1>4. AliasesOf(c) = T \ {NONE}
    BY DEF AliasesOf
  <1>5. AliasesOf(c) \subseteq Aliases
    BY DEF AliasesOf, ServerTypeOK, Row
  <1> HIDE DEF f, S
  <1>6. IsFiniteSet(T)
    BY <1>2, <1>3, ImageFinite
  <1> HIDE DEF T
  <1>7. IsFiniteSet(T \ {NONE})
    BY <1>6, FS_RemoveElement
  <1> QED
    BY <1>4, <1>5, <1>7 DEF Chosen

LEMMA AliasListsAre ==
    ASSUME NEW of
    PROVE  of \in AliasLists <=>
              DOMAIN of \in Chosen(Clients) /\ of \in [DOMAIN of -> Chosen(Aliases)]
  BY DEF AliasLists

\* All aliases of a client, or of all clients.
LEMMA AliasesOfClientFinite ==
    ASSUME NEW of \in AliasLists, NEW c
    PROVE  AliasesOfClient(of, c) \in Chosen(Aliases)
  <1>1. DOMAIN of \in Chosen(Clients) /\ of \in [DOMAIN of -> Chosen(Aliases)]
    BY AliasListsAre
  <1>2. UNION {of[d] : d \in DOMAIN of} \in Chosen(Aliases)
    <2> DEFINE T == {of[d] : d \in DOMAIN of}
    <2>1. IsFiniteSet(T)
      BY <1>1, ImageFinite DEF Chosen
    <2>2. \A x \in T : x \subseteq Aliases /\ IsFiniteSet(x)
      BY <1>1 DEF Chosen
    <2> HIDE DEF T
    <2>3. IsFiniteSet(UNION T)
      BY <2>1, <2>2, FS_UNION
    <2>4. UNION T \subseteq Aliases
      BY <2>2
    <2> QED
      BY <2>3, <2>4 DEF Chosen, T
  <1>3. {} \in Chosen(Aliases)
    BY FS_EmptySet DEF Chosen
  <1>4. c \in DOMAIN of => of[c] \in Chosen(Aliases)
    BY <1>1
  <1> QED
    BY <1>2, <1>3, <1>4 DEF AliasesOfClient

-----------------------------------------------------------------------------
(* The server *)

RowsTyped(t) == DOMAIN t \subseteq 1..(nextId - 1) /\ t \in [DOMAIN t -> Row]

TokensTyped(t) == DOMAIN t \subseteq 1..lastToken /\ t \in [DOMAIN t -> Clients]

LEMMA RowEdits ==
    ASSUME ServerTypeOK, NEW id
    PROVE  /\ RowsTyped(Deleted(id))
           /\ RowsTyped(Closed(id, "completed")) /\ RowsTyped(Closed(id, "discarded"))
           /\ TokensTyped(Revoked(id))
  <1>1. RowsTyped(Deleted(id))
    BY DEF ServerTypeOK, RowsTyped, Deleted
  <1>2. ASSUME NEW s \in {"completed", "discarded"}
        PROVE  RowsTyped(Closed(id, s))
    <2>1. CASE id \in Active
      <3> DEFINE t == [rows EXCEPT ![id].status = s]
      <3>1. id \in DOMAIN rows
        BY <2>1 DEF Active
      <3>2. \A i \in DOMAIN rows : t[i] \in Row
        BY <3>1 DEF ServerTypeOK, Row
      <3>3. DOMAIN t = DOMAIN rows /\ t = [i \in DOMAIN rows |-> t[i]]
        OBVIOUS
      <3>4. Closed(id, s) = t
        BY <2>1 DEF Closed
      <3> HIDE DEF t
      <3>5. t \in [DOMAIN rows -> Row]
        BY <3>2, <3>3
      <3> QED
        BY <3>3, <3>4, <3>5 DEF RowsTyped, ServerTypeOK
    <2>2. CASE id \notin Active
      BY <2>2 DEF Closed, RowsTyped, ServerTypeOK
    <2> QED
      BY <2>1, <2>2
  <1>3. TokensTyped(Revoked(id))
    BY DEF ServerTypeOK, TokensTyped, Revoked
  <1> QED
    BY <1>1, <1>2, <1>3

LEMMA NewTokenTypes ==
    ASSUME ServerTypeOK, NEW c \in Clients, NewToken(c)
    PROVE  /\ lastToken' \in 1..MaxToken
           /\ DOMAIN tokens' \subseteq 1..lastToken' /\ tokens' \in [DOMAIN tokens' -> Clients]
  <1>1. lastToken \in 1..MaxToken /\ lastToken < MaxToken /\ lastToken' = lastToken + 1
    BY DEF ServerTypeOK, NewToken
  <1>2. lastToken' \in 1..MaxToken /\ lastToken \in Nat /\ lastToken' \in Nat /\ lastToken < lastToken'
    BY <1>1, Bounds
  <1>3. DOMAIN tokens' = DOMAIN tokens \cup {lastToken'}
    BY DEF NewToken
  <1>4. DOMAIN tokens \subseteq 1..lastToken
    BY DEF ServerTypeOK
  <1>5. DOMAIN tokens' \subseteq 1..lastToken'
    BY <1>2, <1>3, <1>4
  <1>6. tokens' \in [DOMAIN tokens' -> Clients]
    BY DEF NewToken, ServerTypeOK
  <1> QED
    BY <1>2, <1>5, <1>6

LEMMA OthersTypes ==
    ASSUME ServerTypeOK, OthersChange
    PROVE  ServerTypeOK'
  <1>1. changes' \in 0..MaxChanges
    BY Bounds DEF OthersChange, ServerTypeOK
  <1>2. CASE NewRow
    <2>1. PICK c \in Clients, a \in Aliases \cup {NONE} :
            rows' = [i \in DOMAIN rows \cup {nextId} |->
                        IF i = nextId THEN [client |-> c, alias |-> a, status |-> "active"] ELSE rows[i]]
      BY <1>2 DEF NewRow
    <2>2. nextId' = nextId + 1 /\ nextId \in 1..MaxId /\ UNCHANGED <<tokens, lastToken>>
      BY <1>2, Bounds DEF NewRow, ServerTypeOK
    <2>3. [client |-> c, alias |-> a, status |-> "active"] \in Row
      BY DEF Row
    <2>4. DOMAIN rows' = DOMAIN rows \cup {nextId} /\ rows' \in [DOMAIN rows' -> Row]
      BY <2>1, <2>3 DEF ServerTypeOK
    <2>5. nextId' \in 1..(MaxId + 1) /\ DOMAIN rows' \subseteq 1..(nextId' - 1)
      BY <2>2, <2>4, Bounds DEF ServerTypeOK
    <2> QED
      BY <1>1, <2>2, <2>4, <2>5 DEF ServerTypeOK
  <1>3. CASE ChangeRow
    <2>1. RowsTyped(rows') /\ UNCHANGED <<nextId, tokens, lastToken>>
      BY <1>3, RowEdits DEF ChangeRow
    <2> QED
      BY <1>1, <2>1 DEF ServerTypeOK, RowsTyped
  <1>4. CASE ChangeTokens
    <2>1. UNCHANGED <<rows, nextId>>
      BY <1>4 DEF ChangeTokens
    <2>2. /\ lastToken' \in 1..MaxToken
          /\ DOMAIN tokens' \subseteq 1..lastToken' /\ tokens' \in [DOMAIN tokens' -> Clients]
      <3>1. CASE \E c \in Clients : NewToken(c)
        BY <3>1, NewTokenTypes
      <3>2. CASE \E t \in DOMAIN tokens : tokens' = Revoked(t) /\ UNCHANGED lastToken
        BY <3>2, RowEdits DEF TokensTyped, ServerTypeOK
      <3> QED
        BY <1>4, <3>1, <3>2 DEF ChangeTokens
    <2> QED
      BY <1>1, <2>1, <2>2 DEF ServerTypeOK
  <1> QED
    BY <1>2, <1>3, <1>4 DEF OthersChange

LEMMA ActTypes ==
    ASSUME ServerTypeOK, NEW kind \in Actions, NEW id, Act(kind, id), UNCHANGED <<nextId, changes>>
    PROVE  ServerTypeOK'
  <1>1. RowsTyped(rows') /\ TokensTyped(tokens') /\ UNCHANGED lastToken
    <2>1. RowsTyped(rows) /\ TokensTyped(tokens)
      BY DEF ServerTypeOK, RowsTyped, TokensTyped
    <2> QED
      BY <2>1, RowEdits DEF Act, Actions
  <1> QED
    BY <1>1 DEF ServerTypeOK, RowsTyped, TokensTyped

LEMMA ServerInitially == ServerInit => ServerTypeOK
  <1> SUFFICES ASSUME ServerInit PROVE ServerTypeOK
    OBVIOUS
  <1>1. rows \in Seq(Row) /\ Len(rows) <= MaxId
    BY ServerAssumption DEF ServerInit
  <1>2. Len(rows) \in Nat /\ DOMAIN rows = 1..Len(rows) /\ rows \in [1..Len(rows) -> Row]
    BY <1>1, LenProperties
  <1>3. Cardinality(1..Len(rows)) = Len(rows)
    <2>1. 1 \in Int /\ Len(rows) \in Int
      BY <1>2
    <2>2. Cardinality(1..Len(rows)) = IF 1 > Len(rows) THEN 0 ELSE Len(rows) - 1 + 1
      BY <2>1, FS_Interval
    <2> QED
      BY <1>2, <2>2
  <1>4. nextId = Len(rows) + 1
    BY <1>2, <1>3 DEF ServerInit
  <1>5. nextId \in 1..(MaxId + 1) /\ DOMAIN rows \subseteq 1..(nextId - 1)
    BY <1>1, <1>2, <1>4, Bounds
  <1>6. tokens \in [1..1 -> Clients] /\ DOMAIN tokens = 1..1 /\ lastToken = 1
    <2>1. (CHOOSE c \in Clients : TRUE) \in Clients
      BY ServerAssumption
    <2> QED
      BY <2>1 DEF ServerInit
  <1> QED
    BY <1>2, <1>5, <1>6, Bounds DEF ServerTypeOK, ServerInit

-----------------------------------------------------------------------------
(* The parts of the interface *)

LEMMA ScreenUntouched ==
    ASSUME ScreenOK, UNCHANGED <<records, active, shownTokens, sel>>
    PROVE  ScreenOK' /\ (ConfirmNamesSelected /\ UNCHANGED overlay => ConfirmNamesSelected')
  <1>1. \A t : LinesOf(t)' = LinesOf(t)
    BY DEF LinesOf
  <1>2. ScreenOK'
    BY <1>1 DEF ScreenOK
  <1>3. ConfirmNamesSelected /\ UNCHANGED overlay => ConfirmNamesSelected'
    BY <1>1 DEF ConfirmNamesSelected
  <1> QED
    BY <1>2, <1>3

LEMMA FiltersUntouched ==
    ASSUME FiltersOK, UNCHANGED filterVars
    PROVE  FiltersOK' /\ CurrentClient' = CurrentClient /\ CurrentAlias' = CurrentAlias
  BY DEF FiltersOK, filterVars, CurrentClient, CurrentAlias

LEMMA Selected ==
    ASSUME FiltersOK
    PROVE  CurrentClient \in Clients \cup {GLOBAL} /\ CurrentAlias \in Aliases \cup {NONE}
  <1>1. DOMAIN clientIds = 1..Len(clientIds) /\ DOMAIN aliases = 1..Len(aliases)
    BY DEF FiltersOK
  <1> QED
    BY <1>1, ElementOfSeq DEF FiltersOK, CurrentClient, CurrentAlias

LEMMA EmptyDraftTypes ==
    /\ EmptyDraft \in Drafts
    /\ \A t \in 0..MaxToken : [EmptyDraft EXCEPT !.token = t] \in Drafts
  <1>1. << >> \in AliasLists
    <2>1. DOMAIN << >> = {} /\ {} \in Chosen(Clients)
      BY FS_EmptySet DEF Chosen
    <2>2. << >> \in [DOMAIN << >> -> Chosen(Aliases)]
      BY <2>1
    <2> QED
      BY <2>1, <2>2, AliasListsAre
  <1>2. {} \in Chosen(Clients)
    BY FS_EmptySet DEF Chosen
  <1>3. << >> \in Seq(Ids) /\ Len(<< >>) <= PageSize /\ 0 \in 0..MaxId /\ 0 \in 0..MaxToken
    BY Bounds
  <1> QED
    BY <1>1, <1>2, <1>3 DEF EmptyDraft, Drafts

LEMMA BeginTypes ==
    ASSUME NEW what \in {"start", "key"}, NEW t \in 0..MaxToken, Begin(what, t)
    PROVE  pc' = "clients" /\ cont' \in {"start", "key"} /\ quiet' \in BOOLEAN /\ draft' \in Drafts
  BY EmptyDraftTypes DEF Begin

-----------------------------------------------------------------------------
(* Lists of the filters *)

LEMMA SeqOfMore ==
    ASSUME NEW S, NEW T, S \subseteq T, NEW s \in Seq(S)
    PROVE  s \in Seq(T)
  <1>1. s \in [1..Len(s) -> S] /\ Len(s) \in Nat
    BY LenProperties
  <1>2. s \in [1..Len(s) -> T]
    BY <1>1
  <1> QED
    BY <1>1, <1>2

\* No value in particular, then the others in order.
OptionsOf(S) == <<0>> \o Sorted(S \ {0})

\* Each is there once.
LEMMA OptionList ==
    ASSUME NEW S \in SUBSET Nat, IsFiniteSet(S), NEW v \in S \cup {0}
    PROVE  /\ OptionsOf(S) \in Seq(S \cup {0}) /\ OptionsOf(S)[1] = 0
           /\ IsInjective(OptionsOf(S))
           /\ ItemsOf(OptionsOf(S)) = S \cup {0}
           /\ Position(OptionsOf(S), v) \in DOMAIN OptionsOf(S)
           /\ OptionsOf(S)[Position(OptionsOf(S), v)] = v
  <1> DEFINE T == S \ {0}
             o == Sorted(T)
             n == Len(o)
             s == OptionsOf(S)
  <1>1. T \in SUBSET Nat /\ T \in SUBSET S /\ IsFiniteSet(T) /\ 0 \notin T /\ S \cup {0} = T \cup {0}
    BY FS_RemoveElement
  <1> HIDE DEF T
  <1>2. /\ o \in Seq(T) /\ n \in Nat /\ DOMAIN o = 1..n /\ ItemsOf(o) = T
        /\ \A i, j \in DOMAIN o : o[i] = o[j] => i = j
    BY <1>1, SortedAll
  <1> HIDE DEF o
  <1>3. <<0>> \in Seq(S \cup {0}) /\ Len(<<0>>) = 1 /\ <<0>>[1] = 0
    OBVIOUS
  <1>4. o \in Seq(S \cup {0})
    <2>1. o \in [1..n -> T] /\ n = Len(o)
      BY <1>2, LenProperties
    <2>2. o \in [1..n -> S \cup {0}]
      BY <1>1, <2>1
    <2> HIDE DEF n
    <2> QED
      BY <1>2, <2>2
  <1>5. /\ s \in Seq(S \cup {0}) /\ Len(s) = 1 + n
        /\ \A i \in 1..(1 + n) : s[i] = IF i <= 1 THEN <<0>>[i] ELSE o[i - 1]
    <2>1. s = <<0>> \o o
      BY DEF o, T, OptionsOf
    <2> QED
      BY <1>3, <1>4, <2>1, ConcatProperties
  <1> HIDE DEF s, n
  <1>6. DOMAIN s = 1..(1 + n)
    BY <1>2, <1>5
  <1>7. s[1] = 0
    BY <1>2, <1>3, <1>5
  <1>8. \A i \in 2..(1 + n) : i - 1 \in 1..n /\ s[i] = o[i - 1] /\ s[i] \in T
    <2> SUFFICES ASSUME NEW i \in 2..(1 + n) PROVE i - 1 \in 1..n /\ s[i] = o[i - 1] /\ s[i] \in T
      OBVIOUS
    <2>1. i - 1 \in 1..n /\ i \in 1..(1 + n) /\ ~(i <= 1)
      BY <1>2
    <2>2. o[i - 1] \in T
      BY <1>2, <2>1 DEF ItemsOf
    <2> QED
      BY <1>5, <2>1, <2>2
  <1>9. ASSUME NEW i \in DOMAIN s, NEW j \in DOMAIN s, s[i] = s[j]
        PROVE  i = j
    <2>1. i \in Nat /\ j \in Nat /\ (i = 1 \/ i \in 2..(1 + n)) /\ (j = 1 \/ j \in 2..(1 + n))
      BY <1>2, <1>6
    <2>2. CASE i = 1 /\ j = 1
      BY <2>2
    <2>3. CASE i = 1 /\ j \in 2..(1 + n)
      BY <1>1, <1>7, <1>8, <1>9, <2>3
    <2>4. CASE i \in 2..(1 + n) /\ j = 1
      BY <1>1, <1>7, <1>8, <1>9, <2>4
    <2>5. CASE i \in 2..(1 + n) /\ j \in 2..(1 + n)
      <3>1. i - 1 = j - 1
        BY <1>2, <1>8, <1>9, <2>5
      <3> QED
        BY <2>1, <3>1
    <2> QED
      BY <2>1, <2>2, <2>3, <2>4, <2>5
  <1>10. IsInjective(s)
    BY <1>9 DEF IsInjective
  <1>11. ASSUME NEW x \in T
         PROVE  \E i \in DOMAIN s : s[i] = x
    <2>1. PICK k \in 1..n : o[k] = x
      BY <1>2 DEF ItemsOf
    <2>2. k + 1 \in 2..(1 + n) /\ k + 1 - 1 = k
      BY <1>2
    <2>3. s[k + 1] = x
      BY <1>8, <2>1, <2>2
    <2>4. k + 1 \in DOMAIN s
      BY <1>2, <1>6
    <2> QED
      BY <2>3, <2>4
  <1>12. 1 \in DOMAIN s
    BY <1>2, <1>6
  <1>13. \A i \in DOMAIN s : s[i] \in T \cup {0}
    <2> SUFFICES ASSUME NEW i \in DOMAIN s PROVE s[i] \in T \cup {0}
      OBVIOUS
    <2>1. i = 1 \/ i \in 2..(1 + n)
      BY <1>2, <1>6
    <2> QED
      BY <1>7, <1>8, <2>1
  <1>14. ItemsOf(s) = S \cup {0}
    <2>1. \A x \in T \cup {0} : \E i \in DOMAIN s : s[i] = x
      BY <1>7, <1>11, <1>12
    <2>2. ItemsOf(s) = T \cup {0}
      BY <1>13, <2>1 DEF ItemsOf
    <2> QED
      BY <1>1, <2>2
  <1>15. Position(s, v) \in DOMAIN s /\ s[Position(s, v)] = v
    <2>1. \E i \in DOMAIN s : s[i] = v
      BY <1>14 DEF ItemsOf
    <2> QED
      BY <2>1 DEF Position
  <1> QED
    BY <1>5, <1>7, <1>10, <1>14, <1>15 DEF s

LEMMA WantedIs ==
    ASSUME ProgressOK, FiltersOK
    PROVE  Wanted.client \in Clients \cup {GLOBAL} /\ Wanted.alias \in Aliases \cup {NONE}
  <1>1. pin.client \in Clients \cup {GLOBAL} /\ pin.alias \in Aliases \cup {NONE}
    BY AppAssumption DEF ProgressOK
  <1> QED
    BY <1>1, Selected DEF Wanted

\* Rebuilding the lists selects what is wanted, whatever was fetched.
LEMMA SetFiltersSelects ==
    ASSUME TInv, SetFilters
    PROVE  /\ FiltersOK'
           /\ CurrentClient' = Wanted.client /\ CurrentAlias' = Wanted.alias
           /\ ItemsOf(clientIds') \subseteq
                {d \in draft.clients : ClientHasAlias(draft.aliasesOf, d, Wanted.alias)}
                    \cup {GLOBAL, Wanted.client}
           /\ ItemsOf(aliases') \subseteq
                AliasesOfClient(draft.aliasesOf, Wanted.client) \cup {NONE, Wanted.alias}
  <1> DEFINE of == draft.aliasesOf
             c == Wanted.client
             a == Wanted.alias
             has == {d \in draft.clients : ClientHasAlias(of, d, a)}
             C == has \cup {c}
             A == AliasesOfClient(of, c) \cup {a}
  <1>1. c \in Clients \cup {GLOBAL} /\ a \in Aliases \cup {NONE}
    BY WantedIs DEF TInv
  <1>2. draft.clients \in Chosen(Clients) /\ of \in AliasLists
    BY DEF TInv, ProgressOK, Drafts
  <1>3. has \subseteq draft.clients
    OBVIOUS
  <1>4. AliasesOfClient(of, c) \in Chosen(Aliases)
    BY <1>2, AliasesOfClientFinite
  <1>5. /\ clientIds' = <<GLOBAL>> \o Sorted(C \ {GLOBAL}) /\ clientIndex' = Position(clientIds', c)
        /\ aliases' = <<NONE>> \o Sorted(A \ {NONE}) /\ aliasIndex' = Position(aliases', a)
    BY DEF SetFilters
  <1> HIDE DEF c, a, of, has
  <1>6. IsFiniteSet(has) /\ has \subseteq Clients
    BY <1>2, <1>3, FS_Subset DEF Chosen
  <1>7. IsFiniteSet(C) /\ C \subseteq Clients \cup {0} /\ C \in SUBSET Nat
    BY <1>1, <1>6, FS_AddElement, Bounds DEF GLOBAL
  <1>8. IsFiniteSet(A) /\ A \subseteq Aliases \cup {0} /\ A \in SUBSET Nat
    <2> DEFINE B == AliasesOfClient(of, c)
    <2>1. B \subseteq Aliases /\ IsFiniteSet(B)
      BY <1>4 DEF Chosen
    <2> HIDE DEF B
    <2>2. IsFiniteSet(B \cup {a})
      BY <2>1, FS_AddElement
    <2>3. B \cup {a} \subseteq Aliases \cup {0}
      BY <1>1, <2>1 DEF NONE
    <2>4. B \cup {a} \in SUBSET Nat
      <3>1. \A x \in Aliases \cup {0} : x \in Nat
        BY Bounds
      <3> QED
        BY <2>3, <3>1
    <2> QED
      BY <2>2, <2>3, <2>4 DEF B
  <1>9. c \in C \cup {0} /\ a \in A \cup {0}
    OBVIOUS
  <1> HIDE DEF C, A
  <1> DEFINE sC == OptionsOf(C)
             sA == OptionsOf(A)
  <1>10. /\ sC \in Seq(Clients \cup {0}) /\ sC[1] = 0 /\ IsInjective(sC) /\ ItemsOf(sC) = C \cup {0}
         /\ Position(sC, c) \in DOMAIN sC /\ sC[Position(sC, c)] = c
    <2>1. /\ sC \in Seq(C \cup {0}) /\ sC[1] = 0 /\ IsInjective(sC) /\ ItemsOf(sC) = C \cup {0}
          /\ Position(sC, c) \in DOMAIN sC /\ sC[Position(sC, c)] = c
      BY <1>7, <1>9, OptionList
    <2> HIDE DEF sC
    <2> QED
      BY <1>7, <2>1, SeqOfMore
  <1>11. /\ sA \in Seq(Aliases \cup {0}) /\ sA[1] = 0 /\ IsInjective(sA) /\ ItemsOf(sA) = A \cup {0}
         /\ Position(sA, a) \in DOMAIN sA /\ sA[Position(sA, a)] = a
    <2>1. /\ sA \in Seq(A \cup {0}) /\ sA[1] = 0 /\ IsInjective(sA) /\ ItemsOf(sA) = A \cup {0}
          /\ Position(sA, a) \in DOMAIN sA /\ sA[Position(sA, a)] = a
      BY <1>8, <1>9, OptionList
    <2> HIDE DEF sA
    <2> QED
      BY <1>8, <2>1, SeqOfMore
  <1>12. clientIds' = sC /\ aliases' = sA
    BY <1>5 DEF GLOBAL, NONE, OptionsOf
  <1> HIDE DEF sC, sA
  <1>13. /\ clientIds' \in Seq(Clients \cup {0}) /\ clientIds'[1] = 0 /\ IsInjective(clientIds')
         /\ ItemsOf(clientIds') = C \cup {0}
         /\ clientIndex' \in DOMAIN clientIds' /\ clientIds'[clientIndex'] = c
    BY <1>5, <1>10, <1>12
  <1>14. /\ aliases' \in Seq(Aliases \cup {0}) /\ aliases'[1] = 0 /\ IsInjective(aliases')
         /\ ItemsOf(aliases') = A \cup {0}
         /\ aliasIndex' \in DOMAIN aliases' /\ aliases'[aliasIndex'] = a
    BY <1>5, <1>11, <1>12
  <1>15. FiltersOK'
    BY <1>13, <1>14 DEF FiltersOK, GLOBAL, NONE
  <1>16. CurrentClient' = c /\ CurrentAlias' = a
    BY <1>13, <1>14 DEF CurrentClient, CurrentAlias
  <1> QED
    BY <1>13, <1>14, <1>15, <1>16 DEF C, A, c, a, of, has, GLOBAL, NONE
-----------------------------------------------------------------------------
(* Pages and lines *)

\* There is a page even of nothing, and there are no more pages than rows.
LEMMA PagesBounds ==
    ASSUME NEW n \in 0..MaxId
    PROVE  Pages(n) \in 1..MaxId
  <1>1. CASE n = 0
    BY <1>1, Bounds DEF Pages
  <1>2. CASE n # 0
    <2> DEFINE q == (n + PageSize - 1) \div PageSize
    <2>1. n \in Nat \ {0} /\ PageSize \in Nat \ {0} /\ n <= MaxId
      BY <1>2, Bounds
    <2>2. q \in Nat /\ q * PageSize <= n + PageSize - 1 /\ n + PageSize - 1 < (q + 1) * PageSize
      BY <2>1
    <2>3. Pages(n) = q
      BY <1>2 DEF Pages
    <2> HIDE DEF q
    <2>4. q >= 1
      <3>1. SUFFICES ASSUME q = 0 PROVE FALSE
        BY <2>2
      <3> QED
        BY <2>1, <2>2, <3>1
    <2>5. q <= n
      <3>1. SUFFICES ASSUME q >= n + 1 PROVE FALSE
        BY <2>1, <2>2
      <3>2. q * PageSize = PageSize + (q - 1) * PageSize
        BY <2>1, <2>2
      <3>3. (q - 1) * PageSize >= q - 1
        BY <2>1, <2>2, <2>4
      <3>4. (q - 1) * PageSize \in Int
        BY <2>1, <2>2
      <3> QED
        BY <2>1, <2>2, <3>1, <3>2, <3>3, <3>4
    <2> QED
      BY <2>1, <2>2, <2>3, <2>4, <2>5, Bounds
  <1> QED
    BY <1>1, <1>2

LEMMA PageOfTypes ==
    ASSUME NEW S \in SUBSET Ids, NEW p \in Nat \ {0}
    PROVE  PageOf(S, p, PageSize) \in Seq(Ids) /\ Len(PageOf(S, p, PageSize)) <= PageSize
  <1> DEFINE all == NewestFirst(S)
             end == p * PageSize
             m == (p - 1) * PageSize + 1
             n == IF end < Len(all) THEN end ELSE Len(all)
  <1>1. S \in SUBSET Nat /\ IsFiniteSet(S)
    BY Bounds, FS_Subset
  <1>2. all \in Seq(S)
    BY <1>1, NewestFirstAll
  <1>3. Len(all) \in Nat /\ \A i \in 1..Len(all) : all[i] \in Ids
    BY <1>2, ElementOfSeq
  <1>4. PageOf(S, p, PageSize) = SubSeq(all, m, n)
    BY DEF PageOf
  <1> HIDE DEF all
  <1>5. end \in Nat /\ (p - 1) * PageSize \in Nat /\ end = (p - 1) * PageSize + PageSize
    BY Bounds
  <1> DEFINE k == (p - 1) * PageSize
  <1>6. k \in Nat /\ end = k + PageSize /\ m = k + 1
    BY <1>5
  <1> HIDE DEF end, k, m
  <1>7. m \in Int /\ n \in Int /\ m >= 1 /\ n <= Len(all) /\ n - m + 1 <= PageSize
    BY <1>3, <1>6, Bounds
  <1>8. \A i \in m..n : all[i] \in Ids
    BY <1>3, <1>7
  <1> HIDE DEF n
  <1>9. SubSeq(all, m, n) \in Seq(Ids) /\ Len(SubSeq(all, m, n)) = IF m <= n THEN n - m + 1 ELSE 0
    BY <1>7, <1>8, SubSeqProperties
  <1>10. Len(SubSeq(all, m, n)) <= PageSize
    BY <1>7, <1>9, Bounds
  <1> QED
    BY <1>4, <1>9, <1>10 DEF m

LEMMA Neighbouring ==
    ASSUME NEW n \in Nat, NEW i \in 1..n, NEW j \in Neighbours(i, n)
    PROVE  j \in 1..n
  <1>1. n \in Nat \ {0} /\ i \in Nat /\ i + n - 2 \in Int
    OBVIOUS
  <1>2. ASSUME NEW a \in Int PROVE a % n \in 0..(n - 1)
    BY <1>1
  <1>3. i % n \in 0..(n - 1)
    BY <1>1, <1>2
  <1>4. (i + n - 2) % n \in 0..(n - 1)
    BY <1>1, <1>2
  <1> QED
    BY <1>1, <1>3, <1>4 DEF Neighbours

LEMMA Moving ==
    ASSUME NEW n \in Nat, NEW i \in 0..n, NEW j \in Moves(i, n)
    PROVE  j \in 0..n
  BY DEF Moves

LEMMA Clamping ==
    ASSUME NEW n \in Nat, NEW i \in Nat
    PROVE  Clamped(i, n) \in 0..n
  BY DEF Clamped
-----------------------------------------------------------------------------
(* The steps of a refresh *)

LEMMA ServerUntouched == ASSUME ServerTypeOK, UNCHANGED serverVars PROVE ServerTypeOK'
  BY DEF ServerTypeOK, serverVars

\* A request that was answered changes the draft, and perhaps the page.
LEMMA FetchedKeeps ==
    ASSUME TInv, pc # "idle", NEW next \in {"aliases", "records", "again", "active", "tokens"},
           Fetched(next), draft' \in Drafts, page' \in 1..MaxId
    PROVE  TInv'
  <1>1. ServerTypeOK'
    BY ServerUntouched DEF TInv, Fetched
  <1>2. UNCHANGED <<records, active, shownTokens, sel, overlay, total>>
    BY DEF Fetched, shownVars
  <1>3. ScreenOK' /\ ConfirmNamesSelected'
    BY <1>2, ScreenUntouched DEF TInv
  <1>4. FiltersOK'
    BY FiltersUntouched DEF TInv, Fetched
  <1>5. OverlayOK'
    BY <1>2 DEF TInv, OverlayOK
  <1>6. ProgressOK'
    BY <1>2 DEF TInv, ProgressOK, Fetched
  <1>7. OverlayWaits'
    BY <1>2 DEF TInv, OverlayWaits
  <1> QED
    BY <1>1, <1>3, <1>4, <1>5, <1>6, <1>7 DEF TInv

LEMMA FetchClientsKeeps == ASSUME TInv, FetchClients PROVE TInv'
  <1>1. draft \in Drafts /\ KnownClients \in Chosen(Clients)
    BY ClientsFinite DEF TInv, ProgressOK
  <1>2. draft' \in Drafts
    BY <1>1 DEF FetchClients, Drafts
  <1>3. pc # "idle" /\ Fetched("aliases") /\ page' \in 1..MaxId
    BY DEF FetchClients, TInv, ProgressOK
  <1> QED
    BY <1>2, <1>3, FetchedKeeps

\* The smallest of the names that are left.
LEMMA HeadIn ==
    ASSUME NEW S \in SUBSET Nat, IsFiniteSet(S), S # {}
    PROVE  Head(Sorted(S)) \in S
  <1>1. Sorted(S) \in Seq(S) /\ ItemsOf(Sorted(S)) = S
    BY SortedAll
  <1>2. Sorted(S) # << >>
    BY <1>1 DEF ItemsOf
  <1> QED
    BY <1>1, <1>2, HeadTailProperties

\* What asking for the next client's aliases adds.
NextName == Head(Sorted(draft.todo))

LEMMA FetchAliasesDraft ==
    ASSUME TInv, FetchAliases
    PROVE  /\ NextName \in draft.todo /\ draft' \in Drafts
           /\ draft'.clients = draft.clients /\ draft'.todo = draft.todo \ {NextName}
           /\ DOMAIN draft'.aliasesOf = DOMAIN draft.aliasesOf \cup {NextName}
           /\ \A d \in DOMAIN draft'.aliasesOf :
                draft'.aliasesOf[d] = IF d = NextName THEN AliasesOf(NextName) ELSE draft.aliasesOf[d]
  <1> DEFINE c == NextName
             known == draft.aliasesOf
             more == [d \in DOMAIN known \cup {c} |-> IF d = c THEN AliasesOf(c) ELSE known[d]]
  <1>1. draft \in Drafts
    BY DEF TInv, ProgressOK
  <1>2. draft.todo \in Chosen(Clients) /\ known \in AliasLists /\ draft.todo # {}
    BY <1>1 DEF Drafts, FetchAliases
  <1>3. draft.todo \in SUBSET Nat /\ IsFiniteSet(draft.todo)
    BY <1>2, Bounds DEF Chosen
  <1>4. c \in draft.todo
    BY <1>2, <1>3, HeadIn DEF NextName
  <1>5. draft' = [draft EXCEPT !.todo = draft.todo \ {c}, !.aliasesOf = more]
    BY DEF FetchAliases, NextName
  <1> HIDE DEF c
  <1>6. draft.todo \ {c} \in Chosen(Clients)
    BY <1>2, FS_RemoveElement DEF Chosen
  <1>7. DOMAIN known \in Chosen(Clients) /\ known \in [DOMAIN known -> Chosen(Aliases)]
    BY <1>2, AliasListsAre
  <1>8. DOMAIN known \cup {c} \in Chosen(Clients)
    BY <1>2, <1>4, <1>7, FS_AddElement DEF Chosen
  <1>9. AliasesOf(c) \in Chosen(Aliases)
    BY AliasesFinite DEF TInv
  <1>10. DOMAIN more = DOMAIN known \cup {c} /\ more \in [DOMAIN known \cup {c} -> Chosen(Aliases)]
    BY <1>7, <1>9
  <1>11. \A d \in DOMAIN more : more[d] = IF d = c THEN AliasesOf(c) ELSE known[d]
    OBVIOUS
  <1> HIDE DEF more
  <1>12. more \in AliasLists
    BY <1>8, <1>10, AliasListsAre
  <1>13. draft' \in Drafts /\ draft'.clients = draft.clients /\ draft'.todo = draft.todo \ {c}
         /\ draft'.aliasesOf = more
    BY <1>1, <1>5, <1>6, <1>12 DEF Drafts
  <1> QED
    BY <1>4, <1>10, <1>11, <1>13 DEF c

LEMMA FetchAliasesKeeps == ASSUME TInv, FetchAliases PROVE TInv'
  <1>1. draft' \in Drafts
    BY FetchAliasesDraft
  <1>2. pc # "idle" /\ Fetched("aliases") /\ page' \in 1..MaxId
    BY DEF FetchAliases, TInv, ProgressOK
  <1> QED
    BY <1>1, <1>2, FetchedKeeps

LEMMA MatchingIs == ASSUME TInv PROVE Matching \in SUBSET Ids /\ Cardinality(Matching) \in 0..MaxId
  <1>1. Matching \in SUBSET DOMAIN rows
    BY DEF Matching, Listed
  <1> QED
    BY <1>1, RowsFinite DEF TInv

\* The draft with the records of a page.
LEMMA RecordsFetched ==
    ASSUME TInv, NEW p \in 1..MaxId, draft' = WithRecords(p)
    PROVE  /\ draft' \in Drafts /\ draft'.total = Cardinality(Matching)
           /\ draft'.records = PageOf(Matching, p, PageSize)
  <1> DEFINE r == PageOf(Matching, p, PageSize)
             n == Cardinality(Matching)
  <1>1. draft \in Drafts
    BY DEF TInv, ProgressOK
  <1>2. n \in 0..MaxId
    BY MatchingIs
  <1>3. p \in Nat \ {0}
    BY Bounds
  <1>4. r \in Seq(Ids) /\ Len(r) <= PageSize
    BY <1>3, MatchingIs, PageOfTypes
  <1>5. draft' = [draft EXCEPT !.records = r, !.total = n]
    BY DEF WithRecords, Matching
  <1> HIDE DEF r, n
  <1>6. draft' \in Drafts /\ draft'.records = r /\ draft'.total = n
    BY <1>1, <1>2, <1>4, <1>5 DEF Drafts
  <1> QED
    BY <1>6 DEF r, n

LEMMA FetchRecordsPage ==
    ASSUME TInv, FetchRecords
    PROVE  /\ draft' \in Drafts /\ draft'.total = Cardinality(Matching)
           /\ draft'.records = PageOf(Matching, page, PageSize)
           /\ page' \in 1..MaxId /\ page' <= Pages(draft'.total)
           /\ Fetched(IF page > Pages(draft'.total) THEN "again" ELSE "active")
           /\ page <= Pages(draft'.total) => page' = page
  <1>1. page \in 1..MaxId /\ draft' = WithRecords(page)
    BY DEF TInv, ProgressOK, FetchRecords
  <1>2. /\ draft' \in Drafts /\ draft'.total = Cardinality(Matching)
        /\ draft'.records = PageOf(Matching, page, PageSize)
    BY <1>1, RecordsFetched
  <1>3. draft'.total \in 0..MaxId
    BY <1>2, MatchingIs
  <1>4. Pages(draft'.total) \in 1..MaxId
    BY <1>3, PagesBounds
  <1>5. /\ page' = IF page > Pages(draft'.total) THEN Pages(draft'.total) ELSE page
        /\ Fetched(IF page > Pages(draft'.total) THEN "again" ELSE "active")
    BY DEF FetchRecords, AfterRecords
  <1>6. page' \in 1..MaxId /\ page' <= Pages(draft'.total) /\ (page <= Pages(draft'.total) => page' = page)
    BY <1>1, <1>4, <1>5, Bounds
  <1> QED
    BY <1>2, <1>5, <1>6

LEMMA FetchRecordsKeeps == ASSUME TInv, FetchRecords PROVE TInv'
  <1>1. draft' \in Drafts /\ page' \in 1..MaxId /\ \E n \in {"again", "active"} : Fetched(n)
    BY FetchRecordsPage
  <1>2. pc # "idle"
    BY DEF FetchRecords
  <1> QED
    BY <1>1, <1>2, FetchedKeeps

LEMMA FetchAgainKeeps == ASSUME TInv, FetchAgain PROVE TInv'
  <1>1. page \in 1..MaxId /\ draft' = WithRecords(page) /\ UNCHANGED page
    BY DEF TInv, ProgressOK, FetchAgain
  <1>2. draft' \in Drafts
    BY <1>1, RecordsFetched
  <1>3. pc # "idle" /\ Fetched("active")
    BY DEF FetchAgain
  <1> QED
    BY <1>1, <1>2, <1>3, FetchedKeeps

LEMMA FetchStatsKeeps == ASSUME TInv, FetchStats PROVE TInv'
  <1>1. pc # "idle" /\ Fetched("records") /\ draft' \in Drafts /\ page' \in 1..MaxId
    BY DEF FetchStats, TInv, ProgressOK
  <1> QED
    BY <1>1, FetchedKeeps

\* The active sessions of the filters.
ActiveShown == {id \in Active : OfClient(id, CurrentClient) /\ HasAlias(id, CurrentAlias)}

LEMMA ActiveFetched ==
    ASSUME TInv, FetchActive
    PROVE  draft' \in Drafts /\ ItemsOf(draft'.active) \subseteq Active
           /\ draft'.total = draft.total /\ draft'.records = draft.records
  <1> DEFINE l == NewestFirst(ActiveShown)
  <1>1. draft \in Drafts
    BY DEF TInv, ProgressOK
  <1>2. ActiveShown \in SUBSET DOMAIN rows /\ ActiveShown \subseteq Active
    BY DEF ActiveShown, Active
  <1>3. ActiveShown \in SUBSET Nat /\ IsFiniteSet(ActiveShown) /\ ActiveShown \subseteq Ids
    BY <1>2, RowsFinite DEF TInv
  <1>4. l \in Seq(ActiveShown) /\ ItemsOf(l) = ActiveShown
    BY <1>3, NewestFirstAll
  <1>5. draft' = [draft EXCEPT !.active = l]
    BY DEF FetchActive, ActiveShown
  <1> HIDE DEF l
  <1>6. l \in Seq(Ids)
    BY <1>3, <1>4, SeqOfMore
  <1>7. draft' \in Drafts /\ draft'.active = l /\ draft'.total = draft.total /\ draft'.records = draft.records
    BY <1>1, <1>5, <1>6 DEF Drafts
  <1> QED
    BY <1>2, <1>4, <1>7

LEMMA FetchActiveKeeps == ASSUME TInv, FetchActive PROVE TInv'
  <1>1. pc # "idle" /\ Fetched("tokens") /\ draft' \in Drafts /\ page' \in 1..MaxId
    BY ActiveFetched DEF FetchActive, TInv, ProgressOK
  <1> QED
    BY <1>1, FetchedKeeps
LEMMA TokensShown ==
    ASSUME TInv
    PROVE  NewestFirst({t \in DOMAIN tokens : CurrentClient \in {GLOBAL, tokens[t]}}) \in Seq(1..MaxToken)
  <1> DEFINE S == {t \in DOMAIN tokens : CurrentClient \in {GLOBAL, tokens[t]}}
  <1>1. lastToken \in 1..MaxToken /\ DOMAIN tokens \subseteq 1..lastToken
    BY DEF TInv, ServerTypeOK
  <1>2. S \subseteq DOMAIN tokens
    OBVIOUS
  <1> HIDE DEF S
  <1>3. 1..lastToken \subseteq 1..MaxToken /\ 1..MaxToken \subseteq Nat
    BY <1>1, Bounds
  <1>4. S \in SUBSET (1..MaxToken) /\ S \in SUBSET Nat
    BY <1>1, <1>2, <1>3
  <1>5. IsFiniteSet(1..MaxToken)
    <2>1. 1 \in Int /\ MaxToken \in Int
      BY Bounds
    <2> QED
      BY <2>1, FS_Interval
  <1>6. IsFiniteSet(S)
    BY <1>4, <1>5, FS_Subset
  <1>7. NewestFirst(S) \in Seq(S)
    BY <1>4, <1>6, NewestFirstAll
  <1>8. NewestFirst(S) \in Seq(1..MaxToken)
    BY <1>4, <1>7, SeqOfMore
  <1> QED
    BY <1>8 DEF S

LEMMA LinesAreLists ==
    ASSUME ScreenOK, NEW t \in Tables
    PROVE  Len(LinesOf(t)) \in Nat /\ DOMAIN LinesOf(t) = 1..Len(LinesOf(t))
  <1>1. \A s \in Seq(Ids) : Len(s) \in Nat /\ DOMAIN s = 1..Len(s)
    BY LenProperties
  <1>2. \A s \in Seq(1..MaxToken) : Len(s) \in Nat /\ DOMAIN s = 1..Len(s)
    BY LenProperties
  <1> QED
    BY <1>1, <1>2 DEF ScreenOK, Tables, LinesOf

LEMMA FetchTokensKeeps == ASSUME TInv, FetchTokens PROVE TInv'
  <1>1. draft \in Drafts /\ overlay = NoOverlay
    BY DEF TInv, ProgressOK, FetchTokens, OverlayWaits
  <1>2. draft.records \in Seq(Ids) /\ Len(draft.records) <= PageSize /\ draft.total \in 0..MaxId
        /\ draft.active \in Seq(Ids) /\ draft.token \in 0..MaxToken
    BY <1>1 DEF Drafts
  <1>3. shownTokens' \in Seq(1..MaxToken)
    BY TokensShown DEF FetchTokens
  <1>4. records' \in Seq(Ids) /\ Len(records') <= PageSize /\ active' \in Seq(Ids) /\ total' \in 0..MaxId
    BY <1>2 DEF FetchTokens
  <1>5. \A t \in Tables : Len(LinesOf(t)') \in Nat
    <2>1. Len(records') \in Nat /\ Len(active') \in Nat /\ Len(shownTokens') \in Nat
      BY <1>3, <1>4
    <2> QED
      BY <2>1 DEF Tables, LinesOf
  <1>6. sel' = [t \in Tables |-> Clamped(sel[t], Len(LinesOf(t)'))] /\ \A t \in Tables : sel[t] \in Nat
    BY DEF FetchTokens, TInv, ScreenOK
  <1>7. \A t \in Tables : Clamped(sel[t], Len(LinesOf(t)')) \in 0..Len(LinesOf(t)')
    BY <1>5, <1>6, Clamping
  <1>8. sel' \in [Tables -> Nat] /\ \A t \in Tables : sel'[t] <= Len(LinesOf(t)')
    BY <1>5, <1>6, <1>7
  <1>9. ScreenOK'
    BY <1>3, <1>4, <1>8 DEF ScreenOK
  <1>10. OverlayOK' /\ overlay'.kind \notin Actions
    BY <1>1, <1>2 DEF FetchTokens, OverlayOK, Over, NoOverlay, Actions
  <1>11. ConfirmNamesSelected'
    BY <1>10 DEF ConfirmNamesSelected
  <1>12. pc' = "idle" /\ cont' = "key" /\ draft' = EmptyDraft /\ UNCHANGED <<serverVars, pin, filterVars, page, quiet, faults>>
    BY DEF FetchTokens
  <1>13. ProgressOK'
    BY <1>4, <1>12, EmptyDraftTypes DEF TInv, ProgressOK
  <1>14. OverlayWaits'
    BY <1>12 DEF OverlayWaits
  <1> QED
    BY <1>9, <1>10, <1>11, <1>12, <1>13, <1>14, ServerUntouched, FiltersUntouched DEF TInv

LEMMA FetchFailsKeeps == ASSUME TInv, FetchFails PROVE TInv'
  <1>1. pc # "idle" /\ UNCHANGED <<serverVars, pin, overlay, filterVars, records, total, active, shownTokens, page, sel, quiet>>
    BY DEF FetchFails, shownVars
  <1>2. ServerTypeOK' /\ FiltersOK'
    BY <1>1, ServerUntouched, FiltersUntouched DEF TInv
  <1>3. ScreenOK' /\ ConfirmNamesSelected'
    BY <1>1, ScreenUntouched DEF TInv
  <1>4. OverlayOK' /\ overlay' = NoOverlay
    BY <1>1 DEF TInv, OverlayOK, OverlayWaits
  <1>5. faults' \in 0..MaxFaults
    BY AppAssumption DEF TInv, ProgressOK, FetchFails
  <1>6. ProgressOK'
    BY <1>1, <1>5, EmptyDraftTypes DEF TInv, ProgressOK, FetchFails
  <1> QED
    BY <1>2, <1>3, <1>4, <1>6 DEF TInv, OverlayWaits

LEMMA SetFiltersKeeps == ASSUME TInv, SetFilters PROVE TInv'
  <1>1. /\ pc = "aliases"
        /\ UNCHANGED <<serverVars, pin, overlay, records, total, active, shownTokens, page, sel, faults>>
    BY DEF SetFilters, shownVars
  <1>2. ServerTypeOK' /\ FiltersOK'
    BY <1>1, ServerUntouched, SetFiltersSelects DEF TInv
  <1>3. ScreenOK' /\ ConfirmNamesSelected'
    BY <1>1, ScreenUntouched DEF TInv
  <1>4. OverlayOK' /\ overlay' = NoOverlay
    BY <1>1 DEF TInv, OverlayOK, OverlayWaits
  <1>5. pc' \in {"clients", "stats"} /\ cont' \in {"new", "start", "key"} /\ quiet' \in BOOLEAN /\ draft' \in Drafts
    <2>1. CASE cont = "new"
      <3>1. Begin("start", 0) /\ 0 \in 0..MaxToken
        BY <2>1, Bounds DEF SetFilters
      <3> QED
        BY <3>1, BeginTypes
    <2>2. CASE cont # "new"
      BY <2>2 DEF SetFilters, TInv, ProgressOK
    <2> QED
      BY <2>1, <2>2
  <1>6. ProgressOK'
    BY <1>1, <1>5 DEF TInv, ProgressOK
  <1> QED
    BY <1>2, <1>3, <1>4, <1>6 DEF TInv, OverlayWaits

LEMMA RefreshingKeeps == ASSUME TInv, Refreshing PROVE TInv'
  BY FetchFailsKeeps, FetchClientsKeeps, FetchAliasesKeeps, SetFiltersKeeps, FetchStatsKeeps,
     FetchRecordsKeeps, FetchAgainKeeps, FetchActiveKeeps, FetchTokensKeeps DEF Refreshing

-----------------------------------------------------------------------------
(* The keys *)

\* A refresh begins while nothing lies over the screen.
LEMMA KeyBegins ==
    ASSUME TInv, NEW t \in 0..MaxToken, Begin("key", t), ServerTypeOK', ScreenOK', FiltersOK', OverlayOK',
           page' \in 1..MaxId, faults' \in 0..MaxFaults, UNCHANGED <<pin, total>>, overlay' = NoOverlay
    PROVE  TInv'
  <1>1. pc' = "clients" /\ cont' = "key" /\ quiet' \in BOOLEAN /\ draft' \in Drafts
    BY BeginTypes DEF Begin
  <1>2. ProgressOK'
    BY <1>1 DEF TInv, ProgressOK
  <1>3. OverlayWaits'
    BY DEF OverlayWaits
  <1>4. ConfirmNamesSelected'
    BY DEF ConfirmNamesSelected, NoOverlay, Actions
  <1> QED
    BY <1>2, <1>3, <1>4 DEF TInv

\* The keys that change a filter or the page, and r.
LEMMA RefreshKeeps == ASSUME TInv, Refresh PROVE TInv'
  <1>1. /\ Begin("key", 0) /\ overlay' = NoOverlay /\ 0 \in 0..MaxToken
        /\ UNCHANGED <<serverVars, pin, overlay, filterVars, records, total, active, shownTokens, page, sel, faults>>
    BY Bounds DEF Refresh, MayRefresh, shownVars
  <1>2. ServerTypeOK' /\ FiltersOK' /\ ScreenOK'
    BY <1>1, ServerUntouched, FiltersUntouched, ScreenUntouched DEF TInv
  <1>3. OverlayOK' /\ page' \in 1..MaxId /\ faults' \in 0..MaxFaults
    BY <1>1 DEF TInv, OverlayOK, ProgressOK
  <1> QED
    BY <1>1, <1>2, <1>3, KeyBegins

LEMMA CycleClientKeeps == ASSUME TInv, CycleClient PROVE TInv'
  <1>1. /\ Begin("key", 0) /\ overlay' = NoOverlay /\ 0 \in 0..MaxToken /\ page' = 1
        /\ UNCHANGED <<serverVars, pin, overlay, clientIds, aliases, aliasIndex, records, total,
                       active, shownTokens, sel, faults>>
    BY Bounds DEF CycleClient, KeyPressed, shownVars
  <1>2. ServerTypeOK' /\ ScreenOK'
    BY <1>1, ServerUntouched, ScreenUntouched DEF TInv
  <1>3. clientIndex' \in DOMAIN clientIds
    <2>1. Len(clientIds) \in Nat /\ DOMAIN clientIds = 1..Len(clientIds) /\ clientIndex \in 1..Len(clientIds)
      BY DEF TInv, FiltersOK
    <2>2. clientIndex' \in Neighbours(clientIndex, Len(clientIds))
      BY DEF CycleClient
    <2> QED
      BY <2>1, <2>2, Neighbouring
  <1>4. FiltersOK'
    BY <1>1, <1>3 DEF TInv, FiltersOK
  <1>5. OverlayOK' /\ page' \in 1..MaxId /\ faults' \in 0..MaxFaults
    BY <1>1, Bounds DEF TInv, OverlayOK, ProgressOK
  <1> QED
    BY <1>1, <1>2, <1>4, <1>5, KeyBegins

LEMMA CycleAliasKeeps == ASSUME TInv, CycleAlias PROVE TInv'
  <1>1. /\ Begin("key", 0) /\ overlay' = NoOverlay /\ 0 \in 0..MaxToken /\ page' = 1
        /\ UNCHANGED <<serverVars, pin, overlay, clientIds, clientIndex, aliases, records, total,
                       active, shownTokens, sel, faults>>
    BY Bounds DEF CycleAlias, KeyPressed, shownVars
  <1>2. ServerTypeOK' /\ ScreenOK'
    BY <1>1, ServerUntouched, ScreenUntouched DEF TInv
  <1>3. aliasIndex' \in DOMAIN aliases
    <2>1. Len(aliases) \in Nat /\ DOMAIN aliases = 1..Len(aliases) /\ aliasIndex \in 1..Len(aliases)
      BY DEF TInv, FiltersOK
    <2>2. aliasIndex' \in Neighbours(aliasIndex, Len(aliases))
      BY DEF CycleAlias
    <2> QED
      BY <2>1, <2>2, Neighbouring
  <1>4. FiltersOK'
    BY <1>1, <1>3 DEF TInv, FiltersOK
  <1>5. OverlayOK' /\ page' \in 1..MaxId /\ faults' \in 0..MaxFaults
    BY <1>1, Bounds DEF TInv, OverlayOK, ProgressOK
  <1> QED
    BY <1>1, <1>2, <1>4, <1>5, KeyBegins

LEMMA ChangePageKeeps == ASSUME TInv, ChangePage PROVE TInv'
  <1>1. /\ Begin("key", 0) /\ overlay' = NoOverlay /\ 0 \in 0..MaxToken
        /\ sel' = [sel EXCEPT !["records"] = 0] /\ page' \in 1..Pages(total)
        /\ UNCHANGED <<serverVars, pin, overlay, filterVars, records, total, active, shownTokens, faults>>
    BY Bounds DEF ChangePage, KeyPressed, shownVars
  <1>2. ServerTypeOK' /\ FiltersOK'
    BY <1>1, ServerUntouched, FiltersUntouched DEF TInv
  <1>3. \A t \in Tables : LinesOf(t)' = LinesOf(t)
    BY <1>1 DEF LinesOf
  <1>4. \A t \in Tables : sel[t] \in Nat /\ sel[t] <= Len(LinesOf(t)) /\ Len(LinesOf(t)) \in Nat
    BY LinesAreLists DEF TInv, ScreenOK
  <1>5. sel' \in [Tables -> Nat] /\ \A t \in Tables : sel'[t] <= Len(LinesOf(t)')
    <2>1. sel \in [Tables -> Nat]
      BY DEF TInv, ScreenOK
    <2>2. sel' \in [Tables -> Nat] /\ \A t \in Tables : sel'[t] = 0 \/ sel'[t] = sel[t]
      BY <1>1, <2>1
    <2>3. \A t \in Tables : 0 <= Len(LinesOf(t))
      BY <1>4
    <2> QED
      BY <1>3, <1>4, <2>2, <2>3
  <1>6. ScreenOK'
    BY <1>1, <1>5 DEF TInv, ScreenOK
  <1>7. page' \in 1..MaxId
    <2>1. total \in 0..MaxId
      BY DEF TInv, ProgressOK
    <2>2. Pages(total) \in 1..MaxId
      BY <2>1, PagesBounds
    <2> QED
      BY <1>1, <2>2, Bounds
  <1>8. OverlayOK' /\ faults' \in 0..MaxFaults
    BY <1>1 DEF TInv, OverlayOK, ProgressOK
  <1> QED
    BY <1>1, <1>2, <1>6, <1>7, <1>8, KeyBegins
LEMMA MoveKeeps == ASSUME TInv, Move PROVE TInv'
  <1>1. /\ pc = "idle" /\ overlay = NoOverlay
        /\ UNCHANGED <<serverVars, pin, overlay, filterVars, records, total, active, shownTokens,
                       page, pc, cont, draft, quiet, faults>>
    BY DEF Move, KeyPressed, shownVars
  <1>2. ServerTypeOK' /\ FiltersOK'
    BY <1>1, ServerUntouched, FiltersUntouched DEF TInv
  <1>3. PICK u \in Tables : \E i \in Moves(sel[u], Len(LinesOf(u))) : sel' = [sel EXCEPT ![u] = i]
    BY DEF Move
  <1>4. PICK i \in Moves(sel[u], Len(LinesOf(u))) : sel' = [sel EXCEPT ![u] = i]
    BY <1>3
  <1>5. \A t \in Tables : LinesOf(t)' = LinesOf(t)
    BY <1>1 DEF LinesOf
  <1>6. \A t \in Tables : sel[t] \in Nat /\ sel[t] <= Len(LinesOf(t)) /\ Len(LinesOf(t)) \in Nat
    BY LinesAreLists DEF TInv, ScreenOK
  <1>7. i \in Nat /\ i <= Len(LinesOf(u))
    <2>1. Len(LinesOf(u)) \in Nat /\ sel[u] \in 0..Len(LinesOf(u))
      BY <1>6
    <2>2. i \in 0..Len(LinesOf(u))
      BY <1>4, <2>1, Moving
    <2> QED
      BY <2>1, <2>2
  <1>8. sel' \in [Tables -> Nat] /\ \A t \in Tables : sel'[t] <= Len(LinesOf(t)')
    <2>1. sel \in [Tables -> Nat]
      BY DEF TInv, ScreenOK
    <2>2. sel' \in [Tables -> Nat] /\ \A t \in Tables : sel'[t] = IF t = u THEN i ELSE sel[t]
      BY <1>4, <1>7, <2>1
    <2> QED
      BY <1>5, <1>6, <1>7, <2>2
  <1>9. ScreenOK'
    BY <1>1, <1>8 DEF TInv, ScreenOK
  <1>10. OverlayOK' /\ ProgressOK' /\ OverlayWaits'
    BY <1>1 DEF TInv, OverlayOK, ProgressOK, OverlayWaits
  <1>11. ConfirmNamesSelected'
    BY <1>1 DEF ConfirmNamesSelected, NoOverlay, Actions
  <1> QED
    BY <1>2, <1>9, <1>10, <1>11 DEF TInv

\* Only what lies over the screen changes.
LEMMA OverlayKeeps ==
    ASSUME TInv, pc = "idle", NEW o, Overlay(o), OverlayOK', ConfirmNamesSelected'
    PROVE  TInv'
  <1>1. UNCHANGED <<serverVars, pin, filterVars, records, total, active, shownTokens,
                    page, sel, pc, cont, draft, quiet, faults>>
    BY DEF Overlay, shownVars
  <1>2. ServerTypeOK' /\ FiltersOK' /\ ScreenOK'
    BY <1>1, ServerUntouched, FiltersUntouched, ScreenUntouched DEF TInv
  <1>3. ProgressOK' /\ OverlayWaits'
    BY <1>1 DEF TInv, ProgressOK, OverlayWaits
  <1> QED
    BY <1>2, <1>3 DEF TInv

LEMMA OpenOverlayKeeps == ASSUME TInv, OpenOverlay PROVE TInv'
  <1>1. pc = "idle"
    BY DEF OpenOverlay, KeyPressed
  <1>2. ASSUME NEW kind \in {"help", "form"}, Overlay(Over(kind, 0))
        PROVE  TInv'
    <2>1. overlay' = Over(kind, 0)
      BY <1>2 DEF Overlay
    <2>2. OverlayOK'
      BY <2>1, Bounds DEF OverlayOK, Over
    <2>3. ConfirmNamesSelected'
      BY <2>1 DEF ConfirmNamesSelected, Over, Actions
    <2> QED
      BY <1>1, <1>2, <2>2, <2>3, OverlayKeeps
  <1>3. ASSUME NEW t \in Tables, sel[t] # 0, NEW kind \in Questions(t),
               Overlay(Over(kind, LinesOf(t)[sel[t]]))
        PROVE  TInv'
    <2>1. overlay' = Over(kind, LinesOf(t)[sel[t]]) /\ \A u : LinesOf(u)' = LinesOf(u)
      BY <1>3 DEF Overlay, LinesOf, shownVars
    <2>2. kind \in Actions /\ TableOf(kind) = t
      BY DEF Questions, Tables, Actions, TableOf
    <2>3. sel' = sel /\ overlay'.kind = kind /\ overlay'.id = LinesOf(t)[sel[t]]
      BY <1>3, <2>1 DEF Overlay, Over
    <2>4. sel[t] \in Nat /\ sel[t] <= Len(LinesOf(t)) /\ Len(LinesOf(t)) \in Nat /\ DOMAIN LinesOf(t) = 1..Len(LinesOf(t))
      BY LinesAreLists DEF TInv, ScreenOK
    <2>5. sel[t] \in DOMAIN LinesOf(t)
      BY <1>3, <2>4
    <2>6. ConfirmNamesSelected'
      BY <2>1, <2>2, <2>3, <2>5 DEF ConfirmNamesSelected
    <2>7. LinesOf(t)[sel[t]] \in 0..MaxId \cup 0..MaxToken
      <3>1. LinesOf(t) \in Seq(Ids) \/ LinesOf(t) \in Seq(1..MaxToken)
        BY DEF TInv, ScreenOK, Tables, LinesOf
      <3>2. LinesOf(t)[sel[t]] \in Ids \cup 1..MaxToken
        BY <2>4, <2>5, <3>1, ElementOfSeq
      <3> QED
        BY <3>2, Bounds DEF Ids
    <2>8. OverlayOK'
      BY <2>1, <2>2, <2>7 DEF OverlayOK, Over
    <2> QED
      BY <1>1, <1>3, <2>6, <2>8, OverlayKeeps
  <1> QED
    BY <1>2, <1>3 DEF OpenOverlay

LEMMA NoOverlayOK == (overlay' = NoOverlay) => OverlayOK' /\ ConfirmNamesSelected' /\ OverlayWaits'
  BY Bounds DEF OverlayOK, NoOverlay, ConfirmNamesSelected, OverlayWaits, Actions

LEMMA CloseOverlayKeeps == ASSUME TInv, CloseOverlay PROVE TInv'
  <1>1. pc = "idle" /\ Overlay(NoOverlay) /\ overlay' = NoOverlay
    BY DEF CloseOverlay, Overlay
  <1> QED
    BY <1>1, NoOverlayOK, OverlayKeeps

\* A request of a key was carried out; its answer may have been lost.
LEMMA AnsweredKeeps ==
    ASSUME TInv, pc = "idle", NEW t \in 0..MaxToken, Answered(t), ServerTypeOK', overlay' = NoOverlay,
           UNCHANGED <<pin, filterVars, shownVars, page, sel>>
    PROVE  TInv'
  <1>1. UNCHANGED <<records, total, active, shownTokens, sel>>
    BY DEF shownVars
  <1>2. FiltersOK' /\ ScreenOK'
    BY <1>1, FiltersUntouched, ScreenUntouched DEF TInv
  <1>3. OverlayOK' /\ ConfirmNamesSelected' /\ OverlayWaits'
    BY NoOverlayOK
  <1>4. CASE Begin("key", t) /\ UNCHANGED faults
    <2>1. page' \in 1..MaxId /\ faults' \in 0..MaxFaults
      BY <1>4 DEF TInv, ProgressOK
    <2> QED
      BY <1>1, <1>2, <1>3, <1>4, <2>1, KeyBegins
  <1>5. CASE faults < MaxFaults /\ faults' = faults + 1 /\ UNCHANGED <<pc, cont, draft, quiet>>
    <2>1. faults' \in 0..MaxFaults
      BY <1>5, AppAssumption DEF TInv, ProgressOK
    <2>2. ProgressOK'
      BY <1>1, <1>5, <2>1 DEF TInv, ProgressOK
    <2> QED
      BY <1>2, <1>3, <2>2 DEF TInv
  <1> QED
    BY <1>4, <1>5 DEF Answered

LEMMA PerformActionKeeps == ASSUME TInv, PerformAction PROVE TInv'
  <1>1. /\ pc = "idle" /\ Answered(0) /\ overlay' = NoOverlay /\ 0 \in 0..MaxToken
        /\ UNCHANGED <<pin, filterVars, shownVars, page, sel>>
    BY Bounds DEF PerformAction
  <1>2. ServerTypeOK'
    BY ActTypes DEF TInv, PerformAction
  <1> QED
    BY <1>1, <1>2, AnsweredKeeps

LEMMA CreateTokenKeeps == ASSUME TInv, CreateToken PROVE TInv'
  <1>1. /\ pc = "idle" /\ Answered(lastToken') /\ overlay' = NoOverlay
        /\ UNCHANGED <<rows, nextId, changes, pin, filterVars, shownVars, page, sel>>
    BY DEF CreateToken
  <1>2. PICK c \in Clients : NewToken(c)
    BY DEF CreateToken
  <1>3. /\ lastToken' \in 1..MaxToken
        /\ DOMAIN tokens' \subseteq 1..lastToken' /\ tokens' \in [DOMAIN tokens' -> Clients]
    BY <1>2, NewTokenTypes DEF TInv
  <1>4. ServerTypeOK'
    BY <1>1, <1>3 DEF TInv, ServerTypeOK
  <1>5. lastToken' \in 0..MaxToken
    BY <1>3, Bounds
  <1> QED
    BY <1>1, <1>4, <1>5, AnsweredKeeps

LEMMA RequestFailsKeeps == ASSUME TInv, RequestFails PROVE TInv'
  <1>1. /\ pc = "idle" /\ overlay' = NoOverlay /\ faults < MaxFaults /\ faults' = faults + 1
        /\ UNCHANGED <<serverVars, pin, filterVars, records, total, active, shownTokens,
                       page, sel, pc, cont, draft, quiet>>
    BY DEF RequestFails, shownVars
  <1>2. ServerTypeOK' /\ FiltersOK' /\ ScreenOK'
    BY <1>1, ServerUntouched, FiltersUntouched, ScreenUntouched DEF TInv
  <1>3. OverlayOK' /\ ConfirmNamesSelected' /\ OverlayWaits'
    BY <1>1, NoOverlayOK
  <1>4. faults' \in 0..MaxFaults
    BY <1>1, AppAssumption DEF TInv, ProgressOK
  <1>5. ProgressOK'
    BY <1>1, <1>4 DEF TInv, ProgressOK
  <1> QED
    BY <1>2, <1>3, <1>5 DEF TInv

LEMMA OthersKeep == ASSUME TInv, Others PROVE TInv'
  <1>1. /\ quiet' = FALSE
        /\ UNCHANGED <<pin, overlay, filterVars, records, total, active, shownTokens,
                       page, sel, pc, cont, draft, faults>>
    BY DEF Others, shownVars
  <1>2. ServerTypeOK'
    BY OthersTypes DEF TInv, Others
  <1>3. FiltersOK' /\ ScreenOK' /\ ConfirmNamesSelected'
    BY <1>1, FiltersUntouched, ScreenUntouched DEF TInv
  <1>4. OverlayOK' /\ ProgressOK' /\ OverlayWaits'
    BY <1>1 DEF TInv, OverlayOK, ProgressOK, OverlayWaits
  <1> QED
    BY <1>2, <1>3, <1>4 DEF TInv

LEMMA KeysKeep == ASSUME TInv, Keys PROVE TInv'
  BY RefreshKeeps, CycleClientKeeps, CycleAliasKeeps, ChangePageKeeps, MoveKeeps, OpenOverlayKeeps,
     CloseOverlayKeeps, PerformActionKeeps, CreateTokenKeeps, RequestFailsKeeps DEF Keys

LEMMA StutterKeeps == ASSUME TInv, UNCHANGED appVars PROVE TInv'
  <1>1. UNCHANGED <<serverVars, pin, overlay, filterVars, records, total, active, shownTokens,
                    page, sel, pc, cont, draft, quiet, faults>>
    BY DEF appVars, shownVars
  <1>2. ServerTypeOK' /\ FiltersOK' /\ ScreenOK' /\ ConfirmNamesSelected'
    BY <1>1, ServerUntouched, FiltersUntouched, ScreenUntouched DEF TInv
  <1>3. OverlayOK' /\ ProgressOK' /\ OverlayWaits'
    BY <1>1 DEF TInv, OverlayOK, ProgressOK, OverlayWaits
  <1> QED
    BY <1>2, <1>3 DEF TInv

LEMMA AppKeeps == TInv /\ [AppNext]_appVars => TInv'
  BY RefreshingKeeps, KeysKeep, OthersKeep, StutterKeeps DEF AppNext

LEMMA AppInitially == AppInit => TInv
  <1> SUFFICES ASSUME AppInit PROVE TInv
    OBVIOUS
  <1>1. ServerTypeOK
    BY ServerInitially DEF AppInit
  <1>2. records = << >> /\ active = << >> /\ shownTokens = << >> /\ sel = [t \in Tables |-> 0]
    BY DEF AppInit
  <1>3. \A t \in Tables : LinesOf(t) = << >>
    BY <1>2 DEF LinesOf, Tables
  <1>4. << >> \in Seq(Ids) /\ << >> \in Seq(1..MaxToken) /\ Len(<< >>) = 0
    OBVIOUS
  <1>5. ScreenOK
    BY <1>2, <1>3, <1>4, Bounds DEF ScreenOK
  <1>6. FiltersOK
    BY Bounds DEF AppInit, FiltersOK, IsInjective
  <1>7. overlay = NoOverlay /\ OverlayOK
    BY Bounds DEF AppInit, OverlayOK, NoOverlay
  <1>8. ConfirmNamesSelected
    BY <1>7 DEF ConfirmNamesSelected, NoOverlay, Actions
  <1>9. ProgressOK
    BY EmptyDraftTypes, Bounds, AppAssumption DEF AppInit, ProgressOK
  <1> QED
    BY <1>1, <1>5, <1>6, <1>7, <1>8, <1>9 DEF TInv, OverlayWaits

\* The screen, the filters and the progress of a refresh are well-formed, and
\* nothing lies over the screen while one is under way.
THEOREM InterfaceInvariant == AppSpec => []TInv
  BY AppInitially, AppKeeps, PTL DEF AppSpec

\* The interface's invariant: no selection lies beyond its table, no list of
\* a filter names anything twice, and a question is always about the line that
\* is selected behind it.
THEOREM QuestionsNameSelected == AppSpec => []TuiInv
  <1>1. TInv => TuiInv
    <2> SUFFICES ASSUME TInv PROVE TuiInv
      OBVIOUS
    <2>1. DOMAIN clientIds = 1..Len(clientIds) /\ DOMAIN aliases = 1..Len(aliases)
      BY DEF TInv, FiltersOK
    <2>2. ItemsOf(clientIds) \subseteq Clients \cup {GLOBAL} /\ ItemsOf(aliases) \subseteq Aliases \cup {NONE}
      BY <2>1, ElementOfSeq DEF TInv, FiltersOK, ItemsOf
    <2> QED
      BY <2>2 DEF TInv, TuiInv, TuiTypeOK, ScreenOK, FiltersOK, OverlayOK, ProgressOK
  <1> QED
    BY <1>1, InterfaceInvariant, PTL
-----------------------------------------------------------------------------
(* What a refresh has found out *)

LEMMA SameRows ==
    ASSUME UNCHANGED rows
    PROVE  /\ KnownClients' = KnownClients /\ Active' = Active
           /\ \A c : AliasesOf(c)' = AliasesOf(c)
           /\ \A c, a : Listed(c, a)' = Listed(c, a)
  BY DEF KnownClients, Active, AliasesOf, Listed, OfClient, LikeAlias, HasAlias

LEMMA SameMatching ==
    ASSUME UNCHANGED <<rows, filterVars>>
    PROVE  Matching' = Matching
  <1>1. CurrentClient' = CurrentClient /\ CurrentAlias' = CurrentAlias
    BY DEF filterVars, CurrentClient, CurrentAlias
  <1> QED
    BY <1>1 DEF Matching, Listed, OfClient, LikeAlias, HasAlias

\* A refresh that ends or begins has not found out anything.
LEMMA NothingFetched ==
    ASSUME pc' \in {"idle", "quit", "clients", "stats", "records"},
           pc' = "clients" => DOMAIN draft'.aliasesOf = {}
    PROVE  Undisturbed'
  BY DEF Undisturbed

LEMMA BeginEmpty == ASSUME NEW what, NEW t, Begin(what, t) PROVE pc' = "clients" /\ DOMAIN draft'.aliasesOf = {}
  BY DEF Begin, EmptyDraft

LEMMA NamesAreFetched ==
    ASSUME TInv, Undisturbed, FetchClients \/ FetchAliases
    PROVE  Undisturbed'
  <1>1. UNCHANGED <<rows, quiet>> /\ pc' = "aliases"
    BY DEF FetchClients, FetchAliases, Fetched, serverVars
  <1>2. KnownClients' = KnownClients /\ \A c : AliasesOf(c)' = AliasesOf(c)
    BY <1>1, SameRows
  <1>3. ASSUME quiet PROVE NamesFetched'
    <2>1. CASE FetchClients
      <3>1. draft \in Drafts
        BY DEF TInv, ProgressOK
      <3>2. DOMAIN draft.aliasesOf = {}
        BY <1>3, <2>1 DEF Undisturbed, FetchClients
      <3>3. draft'.clients = KnownClients /\ draft'.todo = KnownClients /\ draft'.aliasesOf = draft.aliasesOf
        BY <2>1, <3>1 DEF FetchClients, Drafts
      <3> QED
        BY <1>2, <3>2, <3>3 DEF NamesFetched
    <2>2. CASE FetchAliases
      <3>1. NamesFetched
        BY <1>3, <2>2 DEF Undisturbed, FetchAliases
      <3>2. /\ NextName \in draft.todo
            /\ draft'.clients = draft.clients /\ draft'.todo = draft.todo \ {NextName}
            /\ DOMAIN draft'.aliasesOf = DOMAIN draft.aliasesOf \cup {NextName}
            /\ \A d \in DOMAIN draft'.aliasesOf :
                draft'.aliasesOf[d] = IF d = NextName THEN AliasesOf(NextName) ELSE draft.aliasesOf[d]
        BY <2>2, FetchAliasesDraft
      <3>3. draft'.clients = KnownClients'
        BY <1>2, <3>1, <3>2 DEF NamesFetched
      <3>4. draft'.clients = draft'.todo \cup DOMAIN draft'.aliasesOf
        BY <3>1, <3>2 DEF NamesFetched
      <3>5. \A c \in DOMAIN draft'.aliasesOf : draft'.aliasesOf[c] = AliasesOf(c)'
        BY <1>2, <3>1, <3>2 DEF NamesFetched
      <3> QED
        BY <3>3, <3>4, <3>5 DEF NamesFetched
    <2> QED
      BY <2>1, <2>2
  <1> QED
    BY <1>1, <1>3 DEF Undisturbed

LEMMA PageIsFetched ==
    ASSUME TInv, Undisturbed, FetchRecords \/ FetchAgain
    PROVE  Undisturbed'
  <1>1. UNCHANGED <<rows, filterVars, quiet>> /\ pc' \in {"again", "active"}
    BY DEF FetchRecords, FetchAgain, Fetched, serverVars, AfterRecords
  <1>2. Matching' = Matching
    BY <1>1, SameMatching
  <1>3. CASE FetchRecords
    <2>1. /\ draft'.total = Cardinality(Matching)
          /\ draft'.records = PageOf(Matching, page, PageSize)
          /\ page' <= Pages(draft'.total)
          /\ Fetched(IF page > Pages(draft'.total) THEN "again" ELSE "active")
          /\ page <= Pages(draft'.total) => page' = page
      BY <1>3, FetchRecordsPage
    <2>2. draft'.total \in 0..MaxId
      BY <2>1, MatchingIs
    <2>3. Pages(draft'.total) \in 1..MaxId /\ page \in 1..MaxId
      BY <2>2, PagesBounds DEF TInv, ProgressOK
    <2>4. pc' = "active" => page' = page
      BY <2>1, <2>3, Bounds DEF Fetched
    <2>5. TotalFetched'
      BY <1>2, <2>1 DEF TotalFetched, Pages
    <2>6. pc' = "active" => draft'.records = PageOf(Matching', page', PageSize)
      BY <1>2, <2>1, <2>4
    <2> QED
      BY <1>1, <2>5, <2>6 DEF Undisturbed, PageOf, NewestFirst, Sorted
  <1>4. CASE FetchAgain
    <2>1. page \in 1..MaxId /\ draft' = WithRecords(page) /\ page' = page
      BY <1>4 DEF FetchAgain, TInv, ProgressOK
    <2>2. draft'.total = Cardinality(Matching) /\ draft'.records = PageOf(Matching, page, PageSize)
      BY <2>1, RecordsFetched
    <2>3. ASSUME quiet PROVE TotalFetched'
      <3>1. TotalFetched
        BY <1>4, <2>3 DEF Undisturbed, FetchAgain
      <3> QED
        BY <1>2, <2>1, <2>2, <3>1 DEF TotalFetched, Pages
    <2>4. draft'.records = PageOf(Matching', page', PageSize)
      BY <1>2, <2>1, <2>2
    <2> QED
      BY <1>1, <2>3, <2>4 DEF Undisturbed, PageOf, NewestFirst, Sorted
  <1> QED
    BY <1>3, <1>4

LEMMA ActiveAreFetched ==
    ASSUME TInv, Undisturbed, FetchActive
    PROVE  Undisturbed'
  <1>1. UNCHANGED <<rows, filterVars, quiet, page>> /\ pc = "active" /\ pc' = "tokens"
    BY DEF FetchActive, Fetched, serverVars
  <1>2. Matching' = Matching /\ Active' = Active
    BY <1>1, SameMatching, SameRows
  <1>3. /\ ItemsOf(draft'.active) \subseteq Active
        /\ draft'.total = draft.total /\ draft'.records = draft.records
    BY ActiveFetched
  <1>4. ASSUME quiet
        PROVE  TotalFetched' /\ draft'.records = PageOf(Matching', page', PageSize)
    <2>1. TotalFetched /\ draft.records = PageOf(Matching, page, PageSize)
      BY <1>1, <1>4 DEF Undisturbed
    <2> QED
      BY <1>1, <1>2, <1>3, <2>1 DEF TotalFetched, Pages
  <1>5. ItemsOf(draft'.active) \subseteq Active'
    BY <1>2, <1>3
  <1> QED
    BY <1>1, <1>4, <1>5 DEF Undisturbed, PageOf, NewestFirst, Sorted, ItemsOf

LEMMA RefreshingUndisturbed == ASSUME TInv, Undisturbed, Refreshing PROVE Undisturbed'
  <1>1. CASE FetchFails
    BY <1>1, NothingFetched DEF FetchFails
  <1>2. CASE SetFilters
    <2>1. CASE cont = "new"
      <3>1. Begin("start", 0)
        BY <1>2, <2>1 DEF SetFilters
      <3> QED
        BY <3>1, BeginEmpty, NothingFetched
    <2>2. CASE cont # "new"
      BY <1>2, <2>2, NothingFetched DEF SetFilters
    <2> QED
      BY <2>1, <2>2
  <1>3. CASE FetchStats
    BY <1>3, NothingFetched DEF FetchStats, Fetched
  <1>4. CASE FetchTokens
    BY <1>4, NothingFetched DEF FetchTokens
  <1> QED
    BY <1>1, <1>2, <1>3, <1>4, NamesAreFetched, PageIsFetched, ActiveAreFetched DEF Refreshing

LEMMA KeysUndisturbed == ASSUME TInv, Undisturbed, Keys PROVE Undisturbed'
  <1>1. ASSUME NEW t, Begin("key", t) PROVE Undisturbed'
    BY <1>1, BeginEmpty, NothingFetched
  <1>2. ASSUME pc = "idle", UNCHANGED pc PROVE Undisturbed'
    BY <1>2, NothingFetched
  <1>3. CASE Refresh \/ CycleClient \/ CycleAlias \/ ChangePage
    BY <1>1, <1>3 DEF Refresh, CycleClient, CycleAlias, ChangePage
  <1>4. CASE Move \/ OpenOverlay \/ CloseOverlay \/ RequestFails
    BY <1>2, <1>4 DEF Move, OpenOverlay, CloseOverlay, RequestFails, KeyPressed, Overlay
  <1>5. CASE PerformAction \/ CreateToken
    BY <1>1, <1>2, <1>5 DEF PerformAction, CreateToken, Answered
  <1> QED
    BY <1>3, <1>4, <1>5 DEF Keys

LEMMA UndisturbedKept == TInv /\ Undisturbed /\ [AppNext]_appVars => Undisturbed'
  <1> SUFFICES ASSUME TInv, Undisturbed, [AppNext]_appVars PROVE Undisturbed'
    OBVIOUS
  <1>1. CASE Others
    BY <1>1 DEF Others, Undisturbed
  <1>2. CASE UNCHANGED appVars
    <2>1. UNCHANGED <<rows, filterVars, quiet, page, draft, pc>>
      BY <1>2 DEF appVars, serverVars
    <2>2. /\ Matching' = Matching /\ Active' = Active
          /\ KnownClients' = KnownClients /\ \A c : AliasesOf(c)' = AliasesOf(c)
      BY <2>1, SameMatching, SameRows
    <2>3. NamesFetched => NamesFetched'
      BY <2>1, <2>2 DEF NamesFetched
    <2>4. TotalFetched => TotalFetched'
      BY <2>1, <2>2 DEF TotalFetched, Pages
    <2>5. draft.records = PageOf(Matching, page, PageSize) => draft'.records = PageOf(Matching', page', PageSize)
      BY <2>1, <2>2
    <2>6. ItemsOf(draft.active) \subseteq Active => ItemsOf(draft'.active) \subseteq Active'
      BY <2>1, <2>2
    <2>7. /\ quiet' = quiet /\ pc' = pc
          /\ DOMAIN draft.aliasesOf = {} => DOMAIN draft'.aliasesOf = {}
      BY <2>1
    <2> QED
      BY <2>3, <2>4, <2>5, <2>6, <2>7 DEF Undisturbed, PageOf, NewestFirst, Sorted, ItemsOf
  <1> QED
    BY <1>1, <1>2, RefreshingUndisturbed, KeysUndisturbed DEF AppNext

LEMMA UndisturbedInitially == AppInit => Undisturbed
  BY DEF AppInit, Undisturbed, EmptyDraft

\* While nobody changes the server, everything that a refresh has fetched is
\* what the server holds, and the page it is on exists.
THEOREM FetchedIsHeld == AppSpec => []Undisturbed
  BY AppInitially, AppKeeps, UndisturbedInitially, UndisturbedKept, PTL DEF AppSpec

\* Rebuilding the lists of the two filters never changes what is selected in
\* them, whatever has happened to the clients and aliases they name.
THEOREM RefreshKeepsFilters == AppSpec => FiltersKept
  <1>1. TInv /\ [AppNext]_appVars =>
            [pc = "aliases" /\ cont # "new" =>
                CurrentClient' = CurrentClient /\ CurrentAlias' = CurrentAlias]_appVars
    <2> SUFFICES ASSUME TInv, AppNext, pc = "aliases", cont # "new"
                 PROVE  CurrentClient' = CurrentClient /\ CurrentAlias' = CurrentAlias
      OBVIOUS
    <2>1. CASE SetFilters
      BY <2>1, SetFiltersSelects DEF Wanted
    <2>2. CASE UNCHANGED filterVars
      BY <2>2, FiltersUntouched DEF TInv
    <2>3. ~Keys
      BY DEF Keys, Refresh, MayRefresh, CycleClient, CycleAlias, ChangePage, Move, OpenOverlay, CloseOverlay,
             PerformAction, CreateToken, RequestFails, KeyPressed
    <2>4. Refreshing /\ ~SetFilters => UNCHANGED filterVars
      BY DEF Refreshing, FetchFails, FetchClients, FetchAliases, FetchStats, FetchRecords, FetchAgain,
             FetchActive, FetchTokens, Fetched
    <2>5. Others => UNCHANGED filterVars
      BY DEF Others
    <2> QED
      BY <2>1, <2>2, <2>3, <2>4, <2>5 DEF AppNext
  <1> QED
    BY <1>1, InterfaceInvariant, PTL DEF AppSpec, FiltersKept
-----------------------------------------------------------------------------
(* What an undisturbed refresh offers and shows *)

\* Only at the end of refresh_filters are the requests for what is displayed next.
LEMMA ListsRebuilt ==
    ASSUME AppNext, pc = "aliases", pc' = "stats"
    PROVE  SetFilters /\ cont # "new"
  <1>1. ~Keys
    BY DEF Keys, Refresh, MayRefresh, CycleClient, CycleAlias, ChangePage, Move, OpenOverlay, CloseOverlay,
           PerformAction, CreateToken, RequestFails, KeyPressed
  <1>2. ~Others
    BY DEF Others
  <1>3. SetFilters
    BY <1>1, <1>2 DEF AppNext, Refreshing, FetchFails, FetchClients, FetchAliases, FetchStats, FetchRecords,
                      FetchAgain, FetchActive, FetchTokens, Fetched
  <1> QED
    BY <1>3 DEF SetFilters, Begin

LEMMA ClientsHaveRecords ==
    ASSUME ServerTypeOK, NamesFetched, NEW c \in draft.clients, NEW a,
           ClientHasAlias(draft.aliasesOf, c, a)
    PROVE  HasRecords(c, a)
  <1>1. CASE a = NONE
    <2>1. PICK id \in DOMAIN rows : rows[id].client = c
      BY DEF NamesFetched, KnownClients
    <2> QED
      BY <1>1, <2>1 DEF HasRecords, OfClient, HasAlias
  <1>2. CASE a # NONE
    <2>1. a \in AliasesOf(c)
      BY <1>2 DEF ClientHasAlias, NamesFetched
    <2>2. PICK id \in DOMAIN rows : OfClient(id, c) /\ rows[id].alias = a
      BY <2>1 DEF AliasesOf
    <2> QED
      BY <2>2 DEF HasRecords, HasAlias
  <1> QED
    BY <1>1, <1>2

LEMMA AliasesHaveRecords ==
    ASSUME NamesFetched, NEW c, NEW a \in AliasesOfClient(draft.aliasesOf, c)
    PROVE  HasRecords(c, a)
  <1>1. \A d \in DOMAIN draft.aliasesOf : a \in draft.aliasesOf[d] =>
            \E id \in DOMAIN rows : OfClient(id, d) /\ rows[id].alias = a
    BY DEF NamesFetched, AliasesOf
  <1>2. CASE c = GLOBAL
    <2>1. PICK d \in DOMAIN draft.aliasesOf : a \in draft.aliasesOf[d]
      BY <1>2 DEF AliasesOfClient
    <2>2. PICK id \in DOMAIN rows : rows[id].alias = a
      BY <1>1, <2>1
    <2> QED
      BY <1>2, <2>2 DEF HasRecords, OfClient, HasAlias
  <1>3. CASE c # GLOBAL
    <2>1. c \in DOMAIN draft.aliasesOf /\ a \in draft.aliasesOf[c]
      BY <1>3 DEF AliasesOfClient
    <2>2. PICK id \in DOMAIN rows : OfClient(id, c) /\ rows[id].alias = a
      BY <1>1, <2>1
    <2> QED
      BY <2>2 DEF HasRecords, HasAlias
  <1> QED
    BY <1>2, <1>3

\* Lists rebuilt while nobody changed the server offer, besides what is
\* selected, only what has records in combination with the other filter.
THEOREM OffersAreHeld == AppSpec => OffersHaveRecords
  <1>1. TInv /\ Undisturbed /\ [AppNext]_appVars =>
          [pc = "aliases" /\ pc' = "stats" /\ quiet =>
            /\ \A c \in ItemsOf(clientIds') \ {GLOBAL, CurrentClient} : HasRecords(c, CurrentAlias)
            /\ \A a \in ItemsOf(aliases') \ {NONE, CurrentAlias} : HasRecords(CurrentClient, a)]_appVars
    <2> SUFFICES ASSUME TInv, Undisturbed, AppNext, pc = "aliases", pc' = "stats", quiet
                 PROVE  /\ \A c \in ItemsOf(clientIds') \ {GLOBAL, CurrentClient} : HasRecords(c, CurrentAlias)
                        /\ \A a \in ItemsOf(aliases') \ {NONE, CurrentAlias} : HasRecords(CurrentClient, a)
      OBVIOUS
    <2>1. SetFilters /\ cont # "new"
      BY ListsRebuilt
    <2>2. Wanted.client = CurrentClient /\ Wanted.alias = CurrentAlias
      BY <2>1 DEF Wanted
    <2>3. /\ ItemsOf(clientIds') \subseteq
                {d \in draft.clients : ClientHasAlias(draft.aliasesOf, d, CurrentAlias)}
                    \cup {GLOBAL, CurrentClient}
          /\ ItemsOf(aliases') \subseteq
                AliasesOfClient(draft.aliasesOf, CurrentClient) \cup {NONE, CurrentAlias}
      BY <2>1, <2>2, SetFiltersSelects
    <2>4. NamesFetched /\ ServerTypeOK
      BY DEF Undisturbed, TInv
    <2>5. \A c \in ItemsOf(clientIds') \ {GLOBAL, CurrentClient} : HasRecords(c, CurrentAlias)
      BY <2>3, <2>4, ClientsHaveRecords
    <2>6. \A a \in ItemsOf(aliases') \ {NONE, CurrentAlias} : HasRecords(CurrentClient, a)
      BY <2>3, <2>4, AliasesHaveRecords
    <2> QED
      BY <2>5, <2>6
  <1> QED
    BY <1>1, InterfaceInvariant, FetchedIsHeld, PTL DEF AppSpec, OffersHaveRecords

\* A refresh in which nobody changed the server displays what the server holds
\* for the filters shown, and a page that exists.
THEOREM ShownIsHeld == AppSpec => ShowsServer
  <1>1. TInv /\ Undisturbed /\ [AppNext]_appVars =>
          [pc = "tokens" /\ pc' = "idle" /\ faults' = faults /\ quiet =>
            /\ records' = PageOf(Listed(CurrentClient, CurrentAlias), page, PageSize)
            /\ total' = Cardinality(Listed(CurrentClient, CurrentAlias))
            /\ page <= Pages(total')
            /\ ItemsOf(active') \subseteq Active]_appVars
    <2> SUFFICES ASSUME TInv, Undisturbed, AppNext, pc = "tokens", pc' = "idle", faults' = faults, quiet
                 PROVE  /\ records' = PageOf(Listed(CurrentClient, CurrentAlias), page, PageSize)
                        /\ total' = Cardinality(Listed(CurrentClient, CurrentAlias))
                        /\ page <= Pages(total')
                        /\ ItemsOf(active') \subseteq Active
      OBVIOUS
    <2>1. ~Keys
      BY DEF Keys, Refresh, MayRefresh, CycleClient, CycleAlias, ChangePage, Move, OpenOverlay, CloseOverlay,
             PerformAction, CreateToken, RequestFails, KeyPressed
    <2>2. ~Others
      BY DEF Others
    <2>3. ~FetchFails
      <3>1. faults \in Nat /\ faults' = faults
        BY AppAssumption DEF TInv, ProgressOK
      <3>2. faults' # faults + 1
        BY <3>1
      <3> QED
        BY <3>2 DEF FetchFails
    <2>4. FetchTokens
      BY <2>1, <2>2, <2>3 DEF AppNext, Refreshing, FetchClients, FetchAliases, SetFilters, FetchStats,
                              FetchRecords, FetchAgain, FetchActive
    <2>5. records' = draft.records /\ total' = draft.total /\ active' = draft.active
      BY <2>4 DEF FetchTokens
    <2>6. /\ TotalFetched /\ draft.records = PageOf(Matching, page, PageSize)
          /\ ItemsOf(draft.active) \subseteq Active
      BY DEF Undisturbed
    <2>7. page <= Pages(total') /\ total' = Cardinality(Matching)
      BY <2>5, <2>6 DEF TotalFetched
    <2> QED
      BY <2>5, <2>6, <2>7 DEF Matching
  <1> QED
    BY <1>1, InterfaceInvariant, FetchedIsHeld, PTL DEF AppSpec, ShowsServer

=============================================================================
