--------------------------- MODULE Reports_proofs ---------------------------
(***************************************************************************)
(* Proofs about Directory and Reports, for any requests, lists and things  *)
(* upstream.                                                               *)
(***************************************************************************)
EXTENDS Reports, FiniteSetTheorems, WellFoundedInduction, TLAPS

(* A non-empty set of naturals has a least one.                            *)
LEMMA LeastNatural ==
    ASSUME NEW T, T \subseteq Nat, T # {}
    PROVE  \E x \in T : \A y \in T : x <= y
<1>1. IsWellFoundedOn(OpToRel(<, Nat), Nat)
  BY NatLessThanWellFounded
<1>2. PICK x \in T : \A y \in T : ~(<<y, x>> \in OpToRel(<, Nat))
  BY <1>1, WFMin
<1>3. x \in Nat /\ \A y \in T : y \in Nat
  OBVIOUS
<1>4. ASSUME NEW y \in T PROVE ~(y < x)
  BY <1>2, <1>3, Zenon DEF OpToRel
<1>5. QED  BY <1>3, <1>4

(* The places of the members of K among the first n of list s.             *)
PlacesUpTo(s, K, n, f) ==
    /\ f \in SeqOf(DOMAIN s, n)
    /\ ToSet(f) = {i \in 1..n : s[i] \in K}
    /\ \A i, j \in DOMAIN f : i < j => f[i] < f[j]

(* They can be listed: those among none are none, and another one comes    *)
(* last.                                                                   *)
LEMMA PlacesExist ==
    ASSUME NEW S, NEW s \in Seq(S), NEW K
    PROVE  \E f : PlacesUpTo(s, K, Len(s), f)
<1> DEFINE Bad == {n \in 0..Len(s) : ~ \E f : PlacesUpTo(s, K, n, f)}
<1>1. Len(s) \in Nat /\ DOMAIN s = 1..Len(s)
  OBVIOUS
<1>2. ASSUME NEW m \in Nat, m + 1 <= Len(s), NEW f, PlacesUpTo(s, K, m, f)
      PROVE  \E g : PlacesUpTo(s, K, m + 1, g)
  <2>1. PICK k \in 0..m : f \in [1..k -> DOMAIN s]
    BY <1>2 DEF PlacesUpTo, SeqOf
  <2>2. \A i \in 1..k : f[i] \in 1..m
    BY <1>2, <2>1 DEF PlacesUpTo, ToSet
  <2>3. CASE s[m + 1] \notin K
    <3>1. f \in SeqOf(DOMAIN s, m + 1)
      BY <2>1 DEF SeqOf
    <3>2. {i \in 1..(m + 1) : s[i] \in K} = {i \in 1..m : s[i] \in K}
      BY <2>3
    <3>3. QED  BY <1>2, <3>1, <3>2 DEF PlacesUpTo
  <2>4. CASE s[m + 1] \in K
    <3> DEFINE g == [i \in 1..(k + 1) |-> IF i = k + 1 THEN m + 1 ELSE f[i]]
    <3>1. g \in [1..(k + 1) -> DOMAIN s] /\ k + 1 \in 0..(m + 1)
      BY <1>1, <1>2, <2>1
    <3>2. g \in SeqOf(DOMAIN s, m + 1)
      BY <3>1 DEF SeqOf
    <3>3. \A i, j \in DOMAIN g : i < j => g[i] < g[j]
      <4> TAKE i, j \in DOMAIN g
      <4> HAVE i < j
      <4>1. i \in 1..k /\ g[i] = f[i]
        OBVIOUS
      <4>2. CASE j = k + 1
        BY <2>2, <4>1, <4>2
      <4>3. CASE j # k + 1
        <5>1. j \in 1..k /\ g[j] = f[j]
          BY <4>3
        <5>2. QED  BY <1>2, <2>1, <4>1, <5>1 DEF PlacesUpTo
      <4>4. QED  BY <4>2, <4>3
    <3>4. ToSet(g) = {i \in 1..(m + 1) : s[i] \in K}
      <4>1. ToSet(f) = {i \in 1..m : s[i] \in K}
        BY <1>2 DEF PlacesUpTo
      <4>2. ASSUME NEW x \in ToSet(g)
            PROVE  x \in 1..(m + 1) /\ s[x] \in K
        <5>1. PICK i \in 1..(k + 1) : x = g[i]
          BY DEF ToSet
        <5>2. CASE i = k + 1
          BY <2>4, <5>1, <5>2
        <5>3. CASE i # k + 1
          <6>1. i \in DOMAIN f /\ x = f[i]
            BY <2>1, <5>1, <5>3
          <6>2. x \in ToSet(f)
            BY <6>1 DEF ToSet
          <6>3. QED  BY <4>1, <6>2
        <5>4. QED  BY <5>2, <5>3
      <4>3. ASSUME NEW x \in 1..(m + 1), s[x] \in K
            PROVE  x \in ToSet(g)
        <5>1. CASE x = m + 1
          <6>1. k + 1 \in DOMAIN g /\ g[k + 1] = x
            BY <5>1
          <6>2. QED  BY <6>1 DEF ToSet
        <5>2. CASE x # m + 1
          <6>1. x \in ToSet(f)
            BY <4>1, <4>3, <5>2
          <6>2. PICK i \in 1..k : x = f[i]
            BY <2>1, <6>1 DEF ToSet
          <6>3. i \in DOMAIN g /\ g[i] = x
            BY <6>2
          <6>4. QED  BY <6>3 DEF ToSet
        <5>3. QED  BY <5>1, <5>2
      <4>4. QED  BY <4>2, <4>3
    <3>5. PlacesUpTo(s, K, m + 1, g)
      BY <3>2, <3>3, <3>4 DEF PlacesUpTo
    <3>6. QED  BY <3>5
  <2>5. QED  BY <2>3, <2>4
<1>3. PlacesUpTo(s, K, 0, << >>)
  BY DEF PlacesUpTo, SeqOf, ToSet
<1>4. Bad = {}
  <2>1. SUFFICES ASSUME Bad # {} PROVE FALSE
    OBVIOUS
  <2>2. Bad \subseteq Nat
    BY <1>1
  <2>3. PICK n \in Bad : \A m \in Bad : n <= m
    BY <2>1, <2>2, LeastNatural
  <2>4. n # 0
    BY <1>3, <2>3
  <2>5. n - 1 \in 0..Len(s) /\ n - 1 \notin Bad
    BY <1>1, <2>3, <2>4
  <2>6. PICK f : PlacesUpTo(s, K, n - 1, f)
    BY <2>5
  <2>7. n - 1 \in Nat /\ (n - 1) + 1 <= Len(s) /\ (n - 1) + 1 = n
    BY <1>1, <2>3, <2>4
  <2>8. \E g : PlacesUpTo(s, K, (n - 1) + 1, g)
    BY <1>2, <2>6, <2>7
  <2>9. QED  BY <2>3, <2>7, <2>8
<1>5. QED  BY <1>1, <1>4

(* What is sifted out of a list are the members of K in it, as a list.     *)
LEMMA SiftProps ==
    ASSUME NEW S, NEW s \in Seq(S), NEW K
    PROVE  /\ Sift(s, K) \in Seq(S)
           /\ ToSet(Sift(s, K)) = ToSet(s) \cap K
           /\ Len(Sift(s, K)) \in 0..Len(s)
<1> DEFINE f == PlacesOf(s, K)
<1>1. Len(s) \in Nat /\ DOMAIN s = 1..Len(s)
  OBVIOUS
<1>2. \E g \in SeqOf(DOMAIN s, Len(s)) :
          /\ ToSet(g) = {i \in DOMAIN s : s[i] \in K}
          /\ \A i, j \in DOMAIN g : i < j => g[i] < g[j]
  BY <1>1, PlacesExist DEF PlacesUpTo
<1>3. f \in SeqOf(DOMAIN s, Len(s)) /\ ToSet(f) = {i \in DOMAIN s : s[i] \in K}
  BY <1>2 DEF PlacesOf
<1>4. PICK k \in 0..Len(s) : f \in [1..k -> DOMAIN s]
  BY <1>3 DEF SeqOf
<1> HIDE DEF f
<1>5. PICK t : t = [i \in 1..k |-> s[f[i]]]
  OBVIOUS
<1>6. Sift(s, K) = t
  BY <1>4, <1>5 DEF Sift, f
<1>7. t \in [1..k -> S]
  BY <1>4, <1>5
<1>8. t \in Seq(S) /\ Len(t) = k
  BY <1>1, <1>7
<1>9. ToSet(t) = ToSet(s) \cap K
  <2>1. ASSUME NEW x \in ToSet(t) PROVE x \in ToSet(s) \cap K
    <3>1. PICK i \in 1..k : x = s[f[i]]
      BY <1>5 DEF ToSet
    <3>2. f[i] \in ToSet(f)
      BY <1>4 DEF ToSet
    <3>3. f[i] \in DOMAIN s /\ s[f[i]] \in K
      BY <1>3, <3>2
    <3>4. QED  BY <3>1, <3>3 DEF ToSet
  <2>2. ASSUME NEW x \in ToSet(s) \cap K PROVE x \in ToSet(t)
    <3>1. PICK j \in DOMAIN s : x = s[j]
      BY DEF ToSet
    <3>2. j \in ToSet(f)
      BY <1>3, <3>1
    <3>3. PICK i \in 1..k : j = f[i]
      BY <1>4, <3>2 DEF ToSet
    <3>4. i \in DOMAIN t /\ t[i] = x
      BY <1>5, <3>1, <3>3
    <3>5. QED  BY <3>4 DEF ToSet
  <2>3. QED  BY <2>1, <2>2
<1>10. QED  BY <1>6, <1>8, <1>9
-----------------------------------------------------------------------------

(* Short id i of type t was given to x.                                    *)
Names(t, i, x) == i \in DOMAIN owner[t] /\ owner[t][i] = x

(* Redis leads from the long id of a thing to a short id that was given to *)
(* it, and from a short id to the details of the thing it was given to.    *)
RedisNames ==
    \A t \in Types :
        /\ \A x \in Named : <<t, x>> \in DOMAIN redis => Names(t, redis[<<t, x>>], x)
        /\ \A i \in Nat : <<t, i>> \in DOMAIN redis => Names(t, i, redis[<<t, i>>].id)

(* The calls of the requests on lists, on placements, on Koddi's           *)
(* advertisers, and of reports.                                            *)
ListKinds == {"contacts", "addresses", "advertisers", "campaign"}
ListCalls == {"list", "assign", "details", "save", "corporate"}
PlacementCalls == {"placement", "assign placement", "name placement", "detail placement"}
KoddiCalls == {"koddi", "brands", "keep brands", "koddi again", "advertiser", "lock", "create",
               "create unlocked", "keep"}
ReportCalls == {"advertisers", "scope", "filter", "search", "keep filter", "send",
                "longs", "shorts", "fetch", "keep longs", "keep shorts", "translate"}

TypeOf(q) ==
    CASE ask[q].kind = "contacts"   -> "CONTACT"
      [] ask[q].kind = "addresses"  -> "ADDRESS"
      [] ask[q].kind = "placements" -> "PLACEMENT"
      [] OTHER                      -> "ADVERTISER"

(* The short ids a request holds were given to the things it holds them    *)
(* for, and past its assignments it has one for each thing of its list.    *)
WorkOf(q) ==
    /\ \A x \in DOMAIN ids[q] : ids[q][x] = None \/ Names(TypeOf(q), ids[q][x], x)
    /\ ask[q].kind # "report" => todo[q] \in Seq(Named)
    /\ ask[q].kind \in ListKinds => ToSet(todo[q]) \subseteq DOMAIN ids[q]
    /\ ask[q].kind = "placements" => ToSet(todo[q]) \subseteq ToSet(Placements)
    /\ at[q] \in ListCalls => /\ ask[q].kind \in ListKinds
                              /\ at[q] = "corporate" => ask[q].kind = "addresses"
    /\ at[q] \in KoddiCalls => ask[q].kind = "koddi"
    /\ at[q] \in ReportCalls => ask[q].kind = "report"
    /\ at[q] \in {"details", "save"} => \A x \in ToSet(todo[q]) : ids[q][x] # None
    /\ at[q] \in PlacementCalls => ask[q].kind = "placements" /\ todo[q] # << >>
    /\ at[q] \in PlacementCalls \ {"placement"} => Head(todo[q]) \in DOMAIN ids[q]
    /\ at[q] \in {"name placement", "detail placement"} => ids[q][Head(todo[q])] # None
    /\ at[q] \notin Over /\ ask[q].kind = "contacts" => source[q] \in DOMAIN ContactsOf
    /\ at[q] \notin Over /\ ask[q].kind = "addresses" => source[q] \in DOMAIN AddressesOf
    /\ at[q] \notin Over /\ ask[q].kind = "advertisers" => source[q] \in DOMAIN BrandsOf

LocalShape ==
    /\ at \in [Clients -> Over \cup Calls]
    /\ DOMAIN source = Clients /\ DOMAIN todo = Clients /\ DOMAIN ids = Clients

DirectoryInv ==
    /\ owner \in [Types -> Seq(Named)]
    /\ ask \in Mixes
    /\ LocalShape
    /\ RedisNames
    /\ \A q \in Clients : WorkOf(q)
-----------------------------------------------------------------------------
(* What is given is never taken back.                                      *)
Grows ==
    \A t \in Types : \A i \in DOMAIN owner[t] :
        i \in DOMAIN owner'[t] /\ owner'[t][i] = owner[t][i]

LEMMA NamesStay ==
    ASSUME Grows, NEW t \in Types, NEW i, NEW x, Names(t, i, x)
    PROVE  Names(t, i, x)'
BY DEF Grows, Names

LEMMA OwnerGrows == UNCHANGED owner => Grows
BY DEF Grows

(* What is under a key when some entries are written.                      *)
LEMMA UnderMPut ==
    ASSUME NEW r, NEW type, NEW f, NEW t, NEW x, <<t, x>> \in DOMAIN MPut(r, type, f)
    PROVE  \/ t = type /\ x \in DOMAIN f /\ MPut(r, type, f)[<<t, x>>] = f[x]
           \/ /\ ~ (t = type /\ x \in DOMAIN f)
              /\ <<t, x>> \in DOMAIN r /\ MPut(r, type, f)[<<t, x>>] = r[<<t, x>>]
<1> DEFINE new == {<<type, y>> : y \in DOMAIN f}
<1>1. <<t, x>> \in new \/ <<t, x>> \in DOMAIN r
  BY DEF MPut, Onto
<1>2. CASE <<t, x>> \in new
  <2>1. t = type /\ x \in DOMAIN f
    BY <1>2
  <2>2. MPut(r, type, f)[<<t, x>>] = f[<<t, x>>[2]]
    BY <1>2 DEF MPut, Onto
  <2>3. QED  BY <2>1, <2>2
<1>3. CASE <<t, x>> \notin new
  <2>1. ~ (t = type /\ x \in DOMAIN f)
    BY <1>3
  <2>2. MPut(r, type, f)[<<t, x>>] = r[<<t, x>>]
    BY <1>1, <1>3 DEF MPut, Onto
  <2>3. QED  BY <1>1, <1>3, <2>1, <2>2
<1>4. QED  BY <1>2, <1>3

(* Writing one entry is writing entries of which there is one.             *)
LEMMA PutIsMPut ==
    ASSUME NEW r, NEW type, NEW x, NEW v
    PROVE  Put(r, type, x, v) = MPut(r, type, [y \in {x} |-> v])
<1> DEFINE one == [k \in {<<type, x>>} |-> v]
           f == [y \in {x} |-> v]
           many == [k \in {<<type, y>> : y \in DOMAIN f} |-> f[k[2]]]
<1>1. {<<type, y>> : y \in DOMAIN f} = {<<type, x>>}
  OBVIOUS
<1>2. f[<<type, x>>[2]] = v
  OBVIOUS
<1>3. one = many
  BY <1>1, <1>2
<1>4. QED  BY <1>3 DEF Put, MPut

(* Redis keeps leading where it should when what is written does, or is    *)
(* of another type.                                                        *)
LEMMA RedisGains ==
    ASSUME RedisNames, Grows, NEW type, NEW f, redis' = MPut(redis, type, f),
           type \in Types => \A x \in DOMAIN f : /\ x \in Named => Names(type, f[x], x)'
                                                 /\ x \in Nat => Names(type, x, f[x].id)'
    PROVE  RedisNames'
<1>1. ASSUME NEW t \in Types, NEW x \in Named, <<t, x>> \in DOMAIN redis'
      PROVE  Names(t, redis[<<t, x>>], x)'
  <2>1. PICK i : i = redis'[<<t, x>>]
    OBVIOUS
  <2>2. Names(t, i, x)'
    BY <1>1, <2>1, UnderMPut, NamesStay DEF RedisNames
  <2>3. QED  BY <2>1, <2>2 DEF Names
<1>2. ASSUME NEW t \in Types, NEW i \in Nat, <<t, i>> \in DOMAIN redis'
      PROVE  Names(t, i, redis[<<t, i>>].id)'
  <2>1. PICK x : x = redis'[<<t, i>>].id
    OBVIOUS
  <2>2. Names(t, i, x)'
    BY <1>2, <2>1, UnderMPut, NamesStay DEF RedisNames
  <2>3. QED  BY <2>1, <2>2 DEF Names
<1>3. QED  BY <1>1, <1>2 DEF RedisNames

LEMMA RedisStays ==
    ASSUME RedisNames, Grows, redis' = redis
    PROVE  RedisNames'
<1>1. ASSUME NEW t \in Types, NEW x \in Named, <<t, x>> \in DOMAIN redis'
      PROVE  Names(t, redis[<<t, x>>], x)'
  <2>1. PICK i : i = redis[<<t, x>>]
    OBVIOUS
  <2>2. Names(t, i, x)'
    BY <1>1, <2>1, NamesStay DEF RedisNames
  <2>3. QED  BY <2>1, <2>2 DEF Names
<1>2. ASSUME NEW t \in Types, NEW i \in Nat, <<t, i>> \in DOMAIN redis'
      PROVE  Names(t, i, redis[<<t, i>>].id)'
  <2>1. PICK x : x = redis[<<t, i>>].id
    OBVIOUS
  <2>2. Names(t, i, x)'
    BY <1>2, <2>1, NamesStay DEF RedisNames
  <2>3. QED  BY <2>1, <2>2 DEF Names
<1>3. QED  BY <1>1, <1>2 DEF RedisNames

LEMMA TypeIsOne == ASSUME NEW q PROVE TypeOf(q) \in Types
BY DEF TypeOf, Types

(* A request that takes no step has what it had.                           *)
LEMMA OtherWork ==
    ASSUME NEW q, WorkOf(q), Grows, ask' = ask, at'[q] = at[q], source'[q] = source[q],
           todo'[q] = todo[q], ids'[q] = ids[q]
    PROVE  WorkOf(q)'
<1>1. TypeOf(q)' = TypeOf(q)
  BY DEF TypeOf
<1>2. \A x \in DOMAIN ids[q] : ids[q][x] = None \/ Names(TypeOf(q), ids[q][x], x)'
  <2> TAKE x \in DOMAIN ids[q]
  <2>1. PICK i : i = ids[q][x]
    OBVIOUS
  <2>2. PICK t : t = TypeOf(q)
    OBVIOUS
  <2>3. Names(t, i, x) => Names(t, i, x)'
    BY <2>2, NamesStay, TypeIsOne
  <2>4. CASE i = None
    BY <2>1, <2>4
  <2>5. CASE Names(t, i, x)
    <3>1. Names(TypeOf(q), ids[q][x], x)'
      BY <1>1, <2>1, <2>2, <2>3, <2>5 DEF Names
    <3>2. QED  BY <3>1
  <2>6. QED  BY <2>1, <2>2, <2>4, <2>5 DEF WorkOf
<1>3. QED  BY <1>2 DEF WorkOf

(* One request takes a step, and nothing is taken back.                    *)
LEMMA OneRequest ==
    ASSUME DirectoryInv, NEW q \in Clients, Grows, ask' = ask,
           owner' \in [Types -> Seq(Named)], RedisNames', LocalShape', WorkOf(q)',
           \A p \in Clients \ {q} : /\ at'[p] = at[p] /\ source'[p] = source[p]
                                    /\ todo'[p] = todo[p] /\ ids'[p] = ids[p]
    PROVE  DirectoryInv'
<1>1. \A p \in Clients \ {q} : WorkOf(p)'
  BY OtherWork DEF DirectoryInv
<1>2. QED  BY <1>1 DEF DirectoryInv

(* Where a request goes, and what it keeps or forgets on its way.          *)
LEMMA Moved ==
    ASSUME LocalShape, NEW q \in Clients, NEW s \in Over \cup Calls, Goto(q, s),
           DOMAIN source' = Clients, DOMAIN todo' = Clients, DOMAIN ids' = Clients
    PROVE  /\ LocalShape' /\ at'[q] = s
           /\ \A p \in Clients \ {q} : at'[p] = at[p]
BY DEF LocalShape, Goto

LEMMA Forgotten ==
    ASSUME LocalShape, NEW q \in Clients, Forget(q)
    PROVE  /\ DOMAIN source' = Clients /\ DOMAIN todo' = Clients /\ DOMAIN ids' = Clients
           /\ todo'[q] = << >> /\ ids'[q] = << >>
           /\ \A p \in Clients \ {q} : /\ source'[p] = source[p]
                                       /\ todo'[p] = todo[p] /\ ids'[p] = ids[p]
BY DEF LocalShape, Forget, NoMemory

(* A request that is over and holds nothing.                               *)
LEMMA NothingHeld ==
    ASSUME NEW q, at[q] \in Over, todo[q] = << >>, ids[q] = << >>
    PROVE  WorkOf(q)
<1>1. todo[q] \in Seq(Named) /\ ToSet(todo[q]) = {} /\ DOMAIN ids[q] = {}
  BY DEF ToSet
<1>2. QED  BY <1>1 DEF WorkOf, Over, ListCalls, KoddiCalls, ReportCalls, PlacementCalls

(* A request ends and forgets what it held.                                *)
LEMMA EndKeeps ==
    ASSUME DirectoryInv, NEW q \in Clients, NEW s \in Over, Goto(q, s), Forget(q), ask' = ask,
           Grows, owner' \in [Types -> Seq(Named)], RedisNames'
    PROVE  DirectoryInv'
<1>1. LocalShape
  BY DEF DirectoryInv
<1>2. LocalShape' /\ at'[q] = s /\ \A p \in Clients \ {q} : at'[p] = at[p]
  BY <1>1, Forgotten, Moved
<1>3. /\ todo'[q] = << >> /\ ids'[q] = << >>
      /\ \A p \in Clients \ {q} : /\ source'[p] = source[p]
                                  /\ todo'[p] = todo[p] /\ ids'[p] = ids[p]
  BY <1>1, Forgotten
<1>4. WorkOf(q)'
  <2>1. todo'[q] \in Seq(Named) /\ ToSet(todo'[q]) = {} /\ DOMAIN ids'[q] = {}
    BY <1>3 DEF ToSet
  <2>2. QED  BY <1>2, <2>1 DEF WorkOf, Over, ListCalls, KoddiCalls, ReportCalls, PlacementCalls
<1>5. QED  BY <1>2, <1>3, <1>4, OneRequest

(* A request that goes on with what it has.                                *)
LEMMA GoOnKeeps ==
    ASSUME DirectoryInv, NEW q \in Clients, NEW s \in Over \cup Calls, Goto(q, s),
           UNCHANGED <<source, todo, ids, owner, ask>>, RedisNames',
           at[q] \notin Over \/ s \in Over,
           s \in ListCalls => /\ ask[q].kind \in ListKinds
                              /\ s = "corporate" => ask[q].kind = "addresses"
                              /\ s \in {"details", "save"} => \A x \in ToSet(todo[q]) : ids[q][x] # None,
           s \in KoddiCalls => ask[q].kind = "koddi",
           s \in ReportCalls => ask[q].kind = "report",
           s \in PlacementCalls =>
              /\ ask[q].kind = "placements" /\ todo[q] # << >>
              /\ s # "placement" => Head(todo[q]) \in DOMAIN ids[q]
              /\ s \in {"name placement", "detail placement"} => ids[q][Head(todo[q])] # None
    PROVE  DirectoryInv'
<1>1. LocalShape' /\ at'[q] = s /\ \A p \in Clients \ {q} : at'[p] = at[p]
  BY Moved DEF DirectoryInv, LocalShape
<1>2. WorkOf(q)
  BY DEF DirectoryInv
<1>3. \A x \in DOMAIN ids'[q] : ids'[q][x] = None \/ Names(TypeOf(q), ids[q][x], x)'
  BY <1>2 DEF WorkOf, Names, TypeOf
<1>4. WorkOf(q)'
  <2>1. /\ ask[q].kind # "report" => todo[q] \in Seq(Named)
        /\ ask[q].kind \in ListKinds => ToSet(todo[q]) \subseteq DOMAIN ids[q]
        /\ ask[q].kind = "placements" => ToSet(todo[q]) \subseteq ToSet(Placements)
    BY <1>2 DEF WorkOf
  <2>2. s \notin Over /\ ask[q].kind = "contacts" => source[q] \in DOMAIN ContactsOf
    BY <1>2 DEF WorkOf
  <2>3. s \notin Over /\ ask[q].kind = "addresses" => source[q] \in DOMAIN AddressesOf
    BY <1>2 DEF WorkOf
  <2>4. s \notin Over /\ ask[q].kind = "advertisers" => source[q] \in DOMAIN BrandsOf
    BY <1>2 DEF WorkOf
  <2>5. s \in {"details", "save"} => s \in ListCalls
    BY DEF ListCalls
  <2>6. s \in PlacementCalls \ {"placement"} => Head(todo[q]) \in DOMAIN ids[q]
    OBVIOUS
  <2>7. s \in {"name placement", "detail placement"} => s \in PlacementCalls
    BY DEF PlacementCalls
  <2>8. QED  BY <1>1, <1>3, <2>1, <2>2, <2>3, <2>4, <2>5, <2>6, <2>7 DEF WorkOf
<1>5. Grows /\ owner' \in [Types -> Seq(Named)]
  BY OwnerGrows DEF DirectoryInv
<1>6. QED  BY <1>1, <1>4, <1>5, OneRequest
-----------------------------------------------------------------------------
(* The advertisers of Koddi are kept under a type of their own.            *)
LEMMA KoddiKeeps ==
    ASSUME DirectoryInv, NEW q \in Clients,
           \/ ReadKoddi(q) \/ ListKoddi(q) \/ KeepBrands(q) \/ ReadKoddiAgain(q)
           \/ FindAdvertiser(q) \/ LockCreation(q) \/ Create(q) \/ KeepKoddi(q)
    PROVE  DirectoryInv'
<1> USE DEF storeVars, localVars
<1>1. WorkOf(q) /\ RedisNames
  BY DEF DirectoryInv
<1>2. at[q] \in KoddiCalls
  BY DEF KoddiCalls, ReadKoddi, ListKoddi, KeepBrands, ReadKoddiAgain, FindAdvertiser,
     LockCreation, Create, KeepKoddi
<1>3. ask[q].kind = "koddi" /\ at[q] \notin Over
  BY <1>1, <1>2 DEF WorkOf, KoddiCalls, Over
<1>4. /\ UNCHANGED <<owner, ask>>
      /\ redis' = redis \/ \E f : redis' = MPut(redis, "KODDI_ADVERTISER", f)
  BY DEF ReadKoddi, ListKoddi, KeepBrands, ReadKoddiAgain, FindAdvertiser,
     LockCreation, Create, KeepKoddi, SetKoddiAdvertisers
<1>5. Grows /\ RedisNames'
  <2>1. Grows
    BY <1>4, OwnerGrows
  <2>2. CASE redis' = redis
    BY <1>1, <2>1, <2>2, RedisStays
  <2>3. CASE \E f : redis' = MPut(redis, "KODDI_ADVERTISER", f)
    <3>1. "KODDI_ADVERTISER" \notin Types
      BY DEF Types
    <3>2. QED  BY <1>1, <2>1, <2>3, <3>1, RedisGains
  <2>4. QED  BY <1>4, <2>1, <2>2, <2>3
<1>6. CASE ReadKoddiAgain(q)
  <2>1. Goto(q, "done") /\ Forget(q) /\ "done" \in Over
    BY <1>6 DEF ReadKoddiAgain, Over
  <2>2. owner' \in [Types -> Seq(Named)]
    BY <1>4 DEF DirectoryInv
  <2>3. QED  BY <1>4, <1>5, <2>1, <2>2, EndKeeps
<1>7. CASE ~ ReadKoddiAgain(q)
  <2>1. UNCHANGED <<source, todo, ids>> /\ \E s \in KoddiCalls \cup Over : Goto(q, s)
    BY <1>7 DEF KoddiCalls, Over, ReadKoddi, ListKoddi, KeepBrands, FindAdvertiser, LockCreation, Create, KeepKoddi
  <2>2. PICK s \in KoddiCalls \cup Over : Goto(q, s)
    BY <2>1
  <2>3. s \in Calls \cup Over /\ s \notin ListCalls \cup ReportCalls \cup PlacementCalls
    BY DEF KoddiCalls, Over, Calls, ListCalls, ReportCalls, PlacementCalls
  <2>4. QED  BY <1>3, <1>4, <1>5, <2>1, <2>2, <2>3, GoOnKeeps
<1>8. QED  BY <1>6, <1>7

(* What is read under the long ids of things names them.                   *)
LEMMA ReadIdsName ==
    ASSUME RedisNames, NEW t \in Types, NEW X, X \subseteq Named
    PROVE  /\ DOMAIN MGet(redis, t, X) = X
           /\ \A x \in X : MGet(redis, t, X)[x] = None \/ Names(t, MGet(redis, t, X)[x], x)
BY DEF MGet, Get, RedisNames

(* A report that begins reads the ids of its advertisers.                  *)
LEMMA BeginReportKeeps ==
    ASSUME DirectoryInv, NEW q \in Clients, BeginReport(q)
    PROVE  DirectoryInv'
<1> USE DEF storeVars, reportVars
<1>1. /\ at[q] = "idle" /\ ask[q].kind = "report"
      /\ UNCHANGED <<redis, owner, ask, source, todo>>
      /\ ids' = [ids EXCEPT ![q] = MGet(redis, "ADVERTISER", ask[q].brands)]
  BY DEF BeginReport, AdvertiserIds
<1>2. PICK s \in {"failed", "advertisers"} : Goto(q, s)
  BY DEF BeginReport
<1>3. s \in Over \cup Calls
  BY DEF Over, Calls
<1>4. LocalShape' /\ at'[q] = s /\ \A p \in Clients \ {q} : at'[p] = at[p]
  BY <1>1, <1>2, <1>3, Moved DEF DirectoryInv, LocalShape
<1>5. /\ ids'[q] = MGet(redis, "ADVERTISER", ask[q].brands)
      /\ \A p \in Clients \ {q} : ids'[p] = ids[p]
  BY <1>1 DEF DirectoryInv, LocalShape
<1>6. ask[q].brands \subseteq Named
  BY <1>1, MixesAssumption DEF DirectoryInv
<1>7. WorkOf(q)'
  <2>1. TypeOf(q)' = "ADVERTISER"
    BY <1>1 DEF TypeOf
  <2>2. "ADVERTISER" \in Types
    BY DEF Types
  <2>3. \A x \in DOMAIN ids'[q] : ids'[q][x] = None \/ Names("ADVERTISER", ids'[q][x], x)
    BY <1>5, <1>6, <2>2, ReadIdsName DEF DirectoryInv
  <2>4. \A x \in DOMAIN ids'[q] : ids'[q][x] = None \/ Names(TypeOf(q), ids[q][x], x)'
    BY <1>1, <2>1, <2>3 DEF Names
  <2>5. QED  BY <1>1, <1>4, <2>4 DEF WorkOf, ListKinds, ListCalls, KoddiCalls, ReportCalls, PlacementCalls
<1>8. Grows /\ RedisNames' /\ owner' \in [Types -> Seq(Named)]
  BY <1>1, OwnerGrows, RedisStays DEF DirectoryInv
<1>9. QED  BY <1>1, <1>4, <1>5, <1>7, <1>8, OneRequest

(* The other calls of a report write nothing of a type of the directory.   *)
LEMMA ReportKeeps ==
    ASSUME DirectoryInv, NEW q \in Clients,
           \/ ReadAdvertisers(q) \/ BuildScope(q) \/ ReadFilter(q) \/ SearchFilter(q) \/ KeepFilter(q)
           \/ Send(q) \/ ReadLongs(q) \/ ReadShorts(q) \/ FetchMissing(q) \/ KeepLongs(q)
           \/ KeepShorts(q) \/ Translate(q)
    PROVE  DirectoryInv'
<1> USE DEF storeVars, localVars, reportVars
<1> DEFINE Elsewhere == {"CAMPAIGN", "CAMPAIGN:KODDI", "AD_GROUP", "AD_GROUP:KODDI"}
<1>1. WorkOf(q) /\ RedisNames
  BY DEF DirectoryInv
<1>2. at[q] \in ReportCalls
  BY DEF ReportCalls, ReadAdvertisers, BuildScope, ReadFilter, SearchFilter, KeepFilter, Send,
     ReadLongs, ReadShorts, FetchMissing, KeepLongs, KeepShorts, Translate
<1>3. ask[q].kind = "report" /\ at[q] \notin Over
  BY <1>1, <1>2 DEF WorkOf, ReportCalls, Over
<1>4. UNCHANGED <<owner, ask>> /\ (redis' = redis \/ \E type \in Elsewhere : \E f : redis' = MPut(redis, type, f))
  <2>1. CASE KeepFilter(q)
    BY <2>1 DEF KeepFilter, SetKoddiByShort
  <2>2. CASE KeepLongs(q)
    BY <2>2 DEF KeepLongs, SetCampaignByKoddi, SetAdGroupByKoddi
  <2>3. CASE KeepShorts(q)
    BY <2>3 DEF KeepShorts, SetShortCampaign, SetShortAdGroup
  <2>4. CASE ~ (KeepFilter(q) \/ KeepLongs(q) \/ KeepShorts(q))
    BY <2>4 DEF ReadAdvertisers, BuildScope, ReadFilter, SearchFilter, Send, ReadLongs, ReadShorts,
       FetchMissing, Translate
  <2>5. QED  BY <2>1, <2>2, <2>3, <2>4
<1>5. Grows /\ RedisNames' /\ owner' \in [Types -> Seq(Named)]
  <2>1. Grows /\ owner' \in [Types -> Seq(Named)]
    BY <1>4, OwnerGrows DEF DirectoryInv
  <2>2. CASE redis' = redis
    BY <1>1, <2>1, <2>2, RedisStays
  <2>3. CASE \E type \in Elsewhere : \E f : redis' = MPut(redis, type, f)
    <3>1. \A type \in Elsewhere : type \notin Types
      BY DEF Types
    <3>2. QED  BY <1>1, <2>1, <2>3, <3>1, RedisGains
  <2>4. QED  BY <1>4, <2>1, <2>2, <2>3
<1>6. CASE Translate(q) /\ doing[q] = "CAMPAIGN"
  <2>1. Goto(q, "done") /\ Forget(q) /\ "done" \in Over
    BY <1>6 DEF Translate, Over
  <2>2. QED  BY <1>4, <1>5, <2>1, EndKeeps
<1>7. CASE ReadFilter(q)
  <2>1. UNCHANGED <<source, ids>> /\ \E s \in {"search", "send"} : Goto(q, s)
    BY <1>7 DEF ReadFilter
  <2>2. PICK s \in {"search", "send"} : Goto(q, s)
    BY <2>1
  <2>3. s \in ReportCalls \cap Calls /\ s \notin Over \cup ListCalls \cup KoddiCalls \cup PlacementCalls
    BY DEF ReportCalls, Calls, Over, ListCalls, KoddiCalls, PlacementCalls
  <2>4. PICK list : todo' = [todo EXCEPT ![q] = list]
    BY <1>7 DEF ReadFilter
  <2>5. LocalShape' /\ at'[q] = s /\ \A p \in Clients \ {q} : at'[p] = at[p] /\ todo'[p] = todo[p]
    BY <2>1, <2>2, <2>3, <2>4, Moved DEF DirectoryInv, LocalShape
  <2>6. \A x \in DOMAIN ids'[q] : ids'[q][x] = None \/ Names(TypeOf(q), ids[q][x], x)'
    BY <1>1, <1>4, <2>1 DEF WorkOf, Names, TypeOf
  <2>7. s \notin {"details", "save", "name placement", "detail placement"}
    OBVIOUS
  <2>8. WorkOf(q)'
    BY <1>3, <1>4, <2>3, <2>5, <2>6, <2>7 DEF WorkOf, ListKinds
  <2>9. QED  BY <1>4, <1>5, <2>1, <2>5, <2>8, OneRequest
<1>8. CASE ~ ReadFilter(q) /\ ~ (Translate(q) /\ doing[q] = "CAMPAIGN")
  <2>1. UNCHANGED <<source, todo, ids>> /\ \E s \in ReportCalls \cup Over : Goto(q, s)
    BY <1>8 DEF ReportCalls, Over, ReadAdvertisers, BuildScope, FirstFilterCall, SearchFilter, KeepFilter,
       Send, ReadLongs, ReadShorts, FetchMissing, KeepLongs, KeepShorts, Translate
  <2>2. PICK s \in ReportCalls \cup Over : Goto(q, s)
    BY <2>1
  <2>3. s \in Calls \cup Over /\ s \notin ListCalls \cup KoddiCalls \cup PlacementCalls
    BY DEF KoddiCalls, Over, Calls, ListCalls, ReportCalls, PlacementCalls
  <2>4. QED  BY <1>3, <1>4, <1>5, <2>1, <2>2, <2>3, GoOnKeeps
<1>9. QED  BY <1>6, <1>7, <1>8
-----------------------------------------------------------------------------
(* New ids go to the things they are assigned to.                          *)
LEMMA AssignedNames ==
    ASSUME owner \in [Types -> Seq(Named)], NEW t \in Types, NEW names \in Seq(Named), Assign(t, names),
           NEW new, new = Assigned(names, NextId(t))
    PROVE  /\ Grows /\ owner' \in [Types -> Seq(Named)]
           /\ DOMAIN new = ToSet(names)
           /\ \A x \in ToSet(names) : new[x] \in Nat /\ Names(t, new[x], x)'
<1>1. PICK old \in Seq(Named) : old = owner[t]
  OBVIOUS
<1>2. owner' = [owner EXCEPT ![t] = old \o names]
  BY <1>1 DEF Assign
<1>3. old \o names \in Seq(Named) /\ owner'[t] = old \o names
  BY <1>2
<1>4. owner' \in [Types -> Seq(Named)]
  BY <1>2, <1>3
<1>5. /\ DOMAIN (old \o names) = 1..(Len(old) + Len(names))
      /\ \A i \in 1..Len(old) : (old \o names)[i] = old[i]
      /\ \A i \in 1..Len(names) : (old \o names)[Len(old) + i] = names[i]
  OBVIOUS
<1>6. Grows
  <2> SUFFICES ASSUME NEW s \in Types, NEW i \in DOMAIN owner[s]
               PROVE  i \in DOMAIN owner'[s] /\ owner'[s][i] = owner[s][i]
    BY DEF Grows
  <2>1. CASE s = t
    BY <1>1, <1>3, <1>5, <2>1
  <2>2. CASE s # t
    BY <1>2, <2>2
  <2>3. QED  BY <2>1, <2>2
<1>7. DOMAIN new = ToSet(names)
  BY DEF Assigned
<1>8. ASSUME NEW x \in ToSet(names)
      PROVE  new[x] \in Nat /\ Names(t, new[x], x)'
  <2>1. PICK i : i = CHOOSE j \in DOMAIN names : names[j] = x
    OBVIOUS
  <2>2. i \in 1..Len(names) /\ names[i] = x
    BY <1>8, <2>1 DEF ToSet
  <2>3. new[x] = Len(old) + i
    <3>1. new[x] = NextId(t) + i - 1
      BY <1>8, <2>1 DEF Assigned
    <3>2. NextId(t) = Len(old) + 1
      BY <1>1 DEF NextId
    <3>3. QED  BY <2>2, <3>1, <3>2
  <2>4. Len(old) + i \in DOMAIN (old \o names) /\ (old \o names)[Len(old) + i] = x
    BY <1>5, <2>2
  <2>5. Len(old) + i \in Nat
    BY <2>2
  <2>6. QED  BY <1>3, <2>3, <2>4, <2>5 DEF Names
<1>9. QED  BY <1>4, <1>6, <1>7, <1>8

(* What a request on a list and one on placements need at call s.          *)
ListWork(kind, s, list, held) ==
    /\ s \in ListCalls /\ kind \in ListKinds
    /\ s = "corporate" => kind = "addresses"
    /\ ToSet(list) \subseteq DOMAIN held
    /\ s \in {"details", "save"} => \A x \in ToSet(list) : held[x] # None

PlacementWork(kind, s, list, held) ==
    /\ s \in PlacementCalls /\ kind = "placements" /\ list # << >>
    /\ ToSet(list) \subseteq ToSet(Placements)
    /\ s # "placement" => Head(list) \in DOMAIN held
    /\ s \in {"name placement", "detail placement"} => held[Head(list)] # None

(* A request on a list or on placements goes on with a new list or ids.    *)
LEMMA WorkKeeps ==
    ASSUME DirectoryInv, NEW q \in Clients, NEW s \in Calls, Goto(q, s), ask' = ask, source' = source,
           Grows, owner' \in [Types -> Seq(Named)], RedisNames', at[q] \notin Over,
           NEW list, todo'[q] = list, DOMAIN todo' = Clients, \A p \in Clients \ {q} : todo'[p] = todo[p],
           NEW held, ids'[q] = held, DOMAIN ids' = Clients, \A p \in Clients \ {q} : ids'[p] = ids[p],
           list \in Seq(Named),
           NEW t, t = TypeOf(q), \A x \in DOMAIN held : held[x] = None \/ Names(t, held[x], x)',
           NEW kind, kind = ask[q].kind,
           ListWork(kind, s, list, held) \/ PlacementWork(kind, s, list, held)
    PROVE  DirectoryInv'
<1>1. LocalShape' /\ at'[q] = s /\ \A p \in Clients \ {q} : at'[p] = at[p]
  BY Moved DEF DirectoryInv, LocalShape
<1>2. \A x \in DOMAIN ids'[q] : ids'[q][x] = None \/ Names(TypeOf(q), ids[q][x], x)'
  BY DEF Names, TypeOf
<1>3. /\ ask[q].kind = "contacts" => source[q] \in DOMAIN ContactsOf
      /\ ask[q].kind = "addresses" => source[q] \in DOMAIN AddressesOf
      /\ ask[q].kind = "advertisers" => source[q] \in DOMAIN BrandsOf
  BY DEF DirectoryInv, WorkOf
<1>4. s \notin KoddiCalls \cup ReportCalls
  BY DEF ListWork, PlacementWork, ListCalls, PlacementCalls, KoddiCalls, ReportCalls
<1>5. WorkOf(q)'
  <2>1. CASE PlacementWork(kind, s, list, held)
    <3>1. s \in PlacementCalls /\ s \notin ListCalls \cup {"details", "save"}
      BY <2>1 DEF PlacementWork, PlacementCalls, ListCalls
    <3>2. ask[q].kind = "placements" /\ "placements" \notin ListKinds
      BY <2>1 DEF PlacementWork, ListKinds
    <3>3. QED  BY <1>1, <1>2, <1>3, <1>4, <2>1, <3>1, <3>2 DEF WorkOf, PlacementWork, PlacementCalls
  <2>2. CASE ListWork(kind, s, list, held)
    <3>1. s \in ListCalls /\ s \notin PlacementCalls \cup {"name placement", "detail placement"}
      BY <2>2 DEF ListWork, PlacementCalls, ListCalls
    <3>2. QED  BY <1>1, <1>2, <1>3, <1>4, <2>2, <3>1 DEF WorkOf, ListWork, ListKinds
  <2>3. QED  BY <2>1, <2>2
<1>6. QED  BY <1>1, <1>5, OneRequest

(* What upstream lists are things.                                         *)
LEMMA ListedAreNamed ==
    ASSUME DirectoryInv, NEW q \in Clients, at[q] \in ListCalls
    PROVE  ask[q].kind \in ListKinds /\ Listed(q) \in Seq(Named)
<1>1. WorkOf(q) /\ at[q] \notin Over
  BY DEF DirectoryInv, ListCalls, Over
<1>2. ask[q].kind \in ListKinds
  BY <1>1 DEF WorkOf
<1>3. CASE ask[q].kind = "contacts"
  BY <1>1, <1>3, ListsAssumption DEF WorkOf, Listed, ContactsUpstream
<1>4. CASE ask[q].kind = "addresses"
  <2>1. AddressesOf[source[q]] \in Seq(Named)
    BY <1>1, <1>4, ListsAssumption DEF WorkOf
  <2>2. QED  BY <1>4, <2>1, SiftProps DEF Listed, AddressesUpstream, ListKinds
<1>5. CASE ask[q].kind = "advertisers"
  BY <1>1, <1>5, ListsAssumption DEF WorkOf, Listed, BrandsUpstream, ListKinds
<1>6. CASE ask[q].kind = "campaign"
  BY <1>6, MixesAssumption DEF DirectoryInv, Listed, ListKinds
<1>7. QED  BY <1>2, <1>3, <1>4, <1>5, <1>6 DEF ListKinds

(* A request of the directory begins.                                      *)
LEMMA BeginKeeps ==
    ASSUME DirectoryInv, NEW q \in Clients, Begin(q)
    PROVE  DirectoryInv'
<1> USE DEF storeVars
<1> DEFINE kind == ask[q].kind
           s == FirstCall[kind]
<1>1. /\ kind \in {"contacts", "addresses", "advertisers", "campaign", "koddi", "placements"}
      /\ at[q] = "idle" /\ Goto(q, s)
      /\ UNCHANGED <<redis, owner, ask, ids>>
      /\ source' = [source EXCEPT ![q] = ask[q].account]
      /\ todo' = [todo EXCEPT ![q] = IF kind = "placements" THEN Placements ELSE << >>]
  BY DEF Begin, Enter, FirstCall
<1>2. /\ kind \in {"contacts", "advertisers", "campaign"} => s = "list"
      /\ kind = "addresses" => s = "corporate"
      /\ kind = "koddi" => s = "koddi"
      /\ kind = "placements" => s = "placement"
  BY DEF FirstCall
<1>3. s \in Calls /\ s \in {"list", "corporate", "koddi", "placement"}
  BY <1>1, <1>2 DEF Calls
<1> HIDE DEF s
<1>4. LocalShape' /\ at'[q] = s /\ \A p \in Clients \ {q} : at'[p] = at[p]
  BY <1>1, <1>3, Moved DEF DirectoryInv, LocalShape
<1>5. /\ source'[q] = ask[q].account
      /\ todo'[q] = IF kind = "placements" THEN Placements ELSE << >>
      /\ \A p \in Clients \ {q} : source'[p] = source[p] /\ todo'[p] = todo[p]
  BY <1>1 DEF DirectoryInv, LocalShape
<1>6. WorkOf(q)'
  <2>1. todo'[q] \in Seq(Named)
    BY <1>5, ListsAssumption
  <2>2. kind # "placements" => ToSet(todo'[q]) = {}
    BY <1>5 DEF ToSet
  <2>3. kind = "placements" => todo'[q] # << >> /\ ToSet(todo'[q]) \subseteq ToSet(Placements)
    BY <1>5, ListsAssumption
  <2>4. /\ kind = "contacts" => source'[q] \in DOMAIN ContactsOf
        /\ kind = "addresses" => source'[q] \in DOMAIN AddressesOf
        /\ kind = "advertisers" => source'[q] \in DOMAIN BrandsOf
    BY <1>5, MixesAssumption DEF DirectoryInv
  <2>5. \A x \in DOMAIN ids'[q] : ids'[q][x] = None \/ Names(TypeOf(q), ids[q][x], x)'
    BY <1>1 DEF DirectoryInv, WorkOf, Names, TypeOf
  <2>6. /\ s \in ListCalls => kind \in ListKinds /\ (s = "corporate" => kind = "addresses")
        /\ s \in KoddiCalls => kind = "koddi"
        /\ s \notin ReportCalls
        /\ s \in PlacementCalls => kind = "placements" /\ s = "placement"
    BY <1>1, <1>2, <1>3 DEF ListCalls, ListKinds, KoddiCalls, ReportCalls, PlacementCalls
  <2>7. kind = "placements" => kind \notin ListKinds
    BY DEF ListKinds
  <2>8. QED  BY <1>1, <1>3, <1>4, <2>1, <2>2, <2>3, <2>4, <2>5, <2>6, <2>7 DEF WorkOf
<1>7. Grows /\ RedisNames' /\ owner' \in [Types -> Seq(Named)]
  BY <1>1, OwnerGrows, RedisStays DEF DirectoryInv
<1>8. QED  BY <1>1, <1>4, <1>5, <1>6, <1>7, OneRequest

(* A list is read, and the ids its things have.                            *)
LEMMA ListKeeps ==
    ASSUME DirectoryInv, NEW q \in Clients, List(q)
    PROVE  DirectoryInv'
<1> USE DEF storeVars
<1>1. /\ at[q] = "list" /\ Goto(q, "assign")
      /\ UNCHANGED <<redis, owner, ask, source>>
      /\ todo' = [todo EXCEPT ![q] = Listed(q)]
      /\ ids' = [ids EXCEPT ![q] = IdsIn(q, ToSet(Listed(q)))]
  BY DEF List
<1>2. ask[q].kind \in ListKinds /\ Listed(q) \in Seq(Named)
  BY <1>1, ListedAreNamed DEF ListCalls
<1>3. PICK list \in Seq(Named) : list = Listed(q)
  BY <1>2
<1>4. ToSet(list) \subseteq Named
  BY DEF ToSet
<1>5. PICK t \in Types : t = TypeOf(q)
  BY TypeIsOne
<1>6. IdsIn(q, ToSet(list)) = MGet(redis, t, ToSet(list))
  BY <1>2, <1>5 DEF IdsIn, TypeOf, ListKinds, ContactIds, AddressIds, AdvertiserIds
<1>7. PICK held : held = MGet(redis, t, ToSet(list))
  OBVIOUS
<1>8. DOMAIN held = ToSet(list) /\ \A x \in DOMAIN held : held[x] = None \/ Names(t, held[x], x)
  BY <1>4, <1>7, ReadIdsName DEF DirectoryInv
<1>9. \A x \in DOMAIN held : held[x] = None \/ Names(t, held[x], x)'
  BY <1>1, <1>8 DEF Names
<1>10. /\ todo'[q] = list /\ DOMAIN todo' = Clients /\ \A p \in Clients \ {q} : todo'[p] = todo[p]
       /\ ids'[q] = held /\ DOMAIN ids' = Clients /\ \A p \in Clients \ {q} : ids'[p] = ids[p]
  BY <1>1, <1>3, <1>6, <1>7 DEF DirectoryInv, LocalShape
<1>11. Grows /\ RedisNames' /\ owner' \in [Types -> Seq(Named)]
  BY <1>1, OwnerGrows, RedisStays DEF DirectoryInv
<1>12. "assign" \in Calls /\ "assign" \in ListCalls /\ at[q] \notin Over
  BY <1>1 DEF Calls, ListCalls, Over
<1>13. PICK kind : kind = ask[q].kind
  OBVIOUS
<1>14. ListWork(kind, "assign", list, held)
  BY <1>2, <1>8, <1>12, <1>13 DEF ListWork
<1>15. QED  BY <1>1, <1>5, <1>9, <1>10, <1>11, <1>12, <1>13, <1>14, WorkKeeps

(* The missing ids of a list are those of its things that have none.       *)
LEMMA MissingProps ==
    ASSUME DirectoryInv, NEW q \in Clients, ask[q].kind \in ListKinds
    PROVE  /\ todo[q] \in Seq(Named) /\ Missing(q) \in Seq(Named)
           /\ ToSet(Missing(q)) = Lacking(q)
           /\ ToSet(todo[q]) \subseteq DOMAIN ids[q]
<1>1. todo[q] \in Seq(Named) /\ ToSet(todo[q]) \subseteq DOMAIN ids[q]
  BY DEF DirectoryInv, WorkOf, ListKinds
<1>2. Lacking(q) \subseteq ToSet(todo[q])
  BY DEF Lacking
<1>3. PICK list, K : list = todo[q] /\ K = Lacking(q)
  OBVIOUS
<1>4. Sift(list, K) \in Seq(Named) /\ ToSet(Sift(list, K)) = ToSet(list) \cap K
  BY <1>1, <1>3, SiftProps
<1>5. QED  BY <1>1, <1>2, <1>3, <1>4 DEF Missing

(* The missing ids of a list are assigned and kept.                        *)
LEMMA AssignBatchKeeps ==
    ASSUME DirectoryInv, NEW q \in Clients, AssignBatch(q)
    PROVE  DirectoryInv'
<1>1. at[q] = "assign" /\ ask[q].kind # "addresses" /\ ask[q].kind \in ListKinds
  BY DEF AssignBatch, DirectoryInv, WorkOf, ListCalls
<1>2. PICK t \in Types : t = TypeOf(q)
  BY TypeIsOne
<1>3. t = IF ask[q].kind = "contacts" THEN "CONTACT" ELSE "ADVERTISER"
  BY <1>1, <1>2 DEF TypeOf, ListKinds
<1>4. PICK names \in Seq(Named) : names = Missing(q)
  BY <1>1, MissingProps
<1>5. PICK new : new = Assigned(names, NextId(t))
  OBVIOUS
<1>6. /\ Assign(t, names) /\ ask' = ask
      /\ redis' = MPut(redis, t, new)
  BY <1>3, <1>4, <1>5 DEF AssignBatch, SetContactIds, SetAdvertiserIds
<1>7. /\ Grows /\ owner' \in [Types -> Seq(Named)] /\ DOMAIN new = ToSet(names)
      /\ \A x \in ToSet(names) : new[x] \in Nat /\ Names(t, new[x], x)'
  BY <1>5, <1>6, AssignedNames DEF DirectoryInv
<1>8. RedisNames'
  <2>1. ToSet(names) \subseteq Named
    BY DEF ToSet
  <2>2. \A x \in DOMAIN new : x \notin Nat /\ Names(t, new[x], x)'
    BY <1>7, <2>1, ListsAssumption
  <2>3. QED  BY <1>6, <1>7, <2>2, RedisGains DEF DirectoryInv
<1>9. CASE ask[q].kind = "campaign"
  <2>1. Forget(q) /\ Goto(q, "done") /\ "done" \in Over
    BY <1>9 DEF AssignBatch, Over
  <2>2. QED  BY <1>6, <1>7, <1>8, <2>1, EndKeeps
<1>10. CASE ask[q].kind # "campaign"
  <2>1. /\ ids' = [ids EXCEPT ![q] = Pair(q, NextId(t))] /\ Goto(q, "details")
        /\ UNCHANGED <<source, todo>>
    BY <1>3, <1>10 DEF AssignBatch
  <2>2. PICK held : held = Pair(q, NextId(t))
    OBVIOUS
  <2>3. PICK list \in Seq(Named) : list = todo[q]
    BY <1>1, MissingProps
  <2>4. DOMAIN held = ToSet(list)
    BY <2>2, <2>3 DEF Pair
  <2>5. ASSUME NEW x \in ToSet(list)
        PROVE  held[x] # None /\ Names(t, held[x], x)'
    <3>1. x \in DOMAIN ids[q] /\ ToSet(names) = Lacking(q)
      BY <1>1, <1>4, <2>3, MissingProps
    <3>2. CASE ids[q][x] = None
      <4>1. x \in ToSet(names)
        BY <2>3, <3>1, <3>2 DEF Lacking
      <4>2. held[x] = new[x]
        BY <1>4, <1>5, <2>2, <2>3, <3>2 DEF Pair
      <4>3. QED  BY <1>7, <4>1, <4>2, ListsAssumption
    <3>3. CASE ids[q][x] # None
      <4>1. PICK i : i = ids[q][x]
        OBVIOUS
      <4>2. held[x] = i
        BY <2>2, <2>3, <3>3, <4>1 DEF Pair
      <4>3. Names(t, i, x)
        BY <1>2, <3>1, <3>3, <4>1 DEF DirectoryInv, WorkOf
      <4>4. QED  BY <1>7, <3>3, <4>1, <4>2, <4>3, NamesStay
    <3>4. QED  BY <3>2, <3>3
  <2>6. /\ todo'[q] = list /\ DOMAIN todo' = Clients /\ \A p \in Clients \ {q} : todo'[p] = todo[p]
        /\ ids'[q] = held /\ DOMAIN ids' = Clients /\ \A p \in Clients \ {q} : ids'[p] = ids[p]
    BY <2>1, <2>2, <2>3 DEF DirectoryInv, LocalShape
  <2>7. "details" \in Calls /\ "details" \in ListCalls /\ at[q] \notin Over
    BY <1>1 DEF Calls, ListCalls, Over
  <2>8. source' = source
    BY <2>1
  <2>9. PICK kind : kind = ask[q].kind
    OBVIOUS
  <2>10. ListWork(kind, "details", list, held)
    BY <1>1, <2>4, <2>5, <2>7, <2>9 DEF ListWork
  <2>11. \A x \in DOMAIN held : held[x] = None \/ Names(t, held[x], x)'
    BY <2>4, <2>5
  <2>12. QED  BY <1>2, <1>6, <1>7, <1>8, <2>1, <2>6, <2>7, <2>8, <2>9, <2>10, <2>11, WorkKeeps
<1>11. QED  BY <1>9, <1>10

(* The details under the ids of a list are read.                           *)
LEMMA ReadDetailsKeeps ==
    ASSUME DirectoryInv, NEW q \in Clients, ReadDetails(q)
    PROVE  DirectoryInv'
<1> USE DEF storeVars
<1>1. /\ at[q] = "details" /\ Goto(q, "save")
      /\ UNCHANGED <<redis, owner, ask, source, todo, ids>>
  BY DEF ReadDetails
<1>2. /\ ask[q].kind \in ListKinds
      /\ \A x \in ToSet(todo[q]) : ids[q][x] # None
  BY <1>1 DEF DirectoryInv, WorkOf, ListCalls
<1>3. /\ "save" \in Over \cup Calls /\ "save" \in ListCalls
      /\ "save" \notin KoddiCalls \cup ReportCalls \cup PlacementCalls
      /\ at[q] \notin Over
  BY <1>1 DEF Over, Calls, ListCalls, KoddiCalls, ReportCalls, PlacementCalls
<1>4. RedisNames'
  BY <1>1, OwnerGrows, RedisStays DEF DirectoryInv
<1>5. PICK s \in Over \cup Calls : s = "save"
  BY <1>3
<1>6. s # "corporate"
  BY <1>5
<1>7. QED  BY <1>1, <1>2, <1>3, <1>4, <1>5, <1>6, GoOnKeeps

(* The details that a request saves under ids are of the things that have  *)
(* these ids.                                                              *)
LEMMA SavedNames ==
    ASSUME DirectoryInv, NEW q \in Clients, at[q] = "save",
           NEW X, X \subseteq ToSet(todo[q]),
           NEW under, DOMAIN under = {ids[q][x] : x \in X},
           \A i \in DOMAIN under : under[i].id = CHOOSE x \in X : ids[q][x] = i,
           NEW t, t = TypeOf(q), redis' = MPut(redis, t, under), owner' = owner
    PROVE  RedisNames' /\ Grows /\ owner' \in [Types -> Seq(Named)]
<1>1. Grows /\ owner' \in [Types -> Seq(Named)] /\ t \in Types
  BY OwnerGrows, TypeIsOne DEF DirectoryInv
<1>2. /\ ask[q].kind \in ListKinds /\ ToSet(todo[q]) \subseteq DOMAIN ids[q]
      /\ \A x \in ToSet(todo[q]) : ids[q][x] # None
  BY DEF DirectoryInv, WorkOf, ListCalls
<1>3. ASSUME NEW i \in DOMAIN under
      PROVE  i \notin Named /\ Names(t, i, under[i].id)
  <2>1. PICK y : y = CHOOSE x \in X : ids[q][x] = i
    OBVIOUS
  <2>2. y \in X /\ ids[q][y] = i
    BY <2>1
  <2>3. Names(t, i, y)
    BY <1>2, <2>2 DEF DirectoryInv, WorkOf
  <2>4. i \in Nat
    <3>1. PICK own \in Seq(Named) : own = owner[t]
      BY <1>1 DEF DirectoryInv
    <3>2. i \in DOMAIN own
      BY <2>3, <3>1 DEF Names
    <3>3. QED  BY <3>2
  <2>5. QED  BY <2>1, <2>3, <2>4, ListsAssumption
<1>4. \A i \in DOMAIN under : i \notin Named /\ Names(t, i, under[i].id)'
  BY <1>3 DEF Names
<1>5. QED  BY <1>1, <1>4, RedisGains DEF DirectoryInv

(* The user of an agency goes on with the list of the agency, the others   *)
(* are done.                                                               *)
LEMMA NextListKeeps ==
    ASSUME DirectoryInv, NEW q \in Clients, at[q] = "save", ask[q].kind \in ListKinds, NextList(q), ask' = ask,
           Grows, owner' \in [Types -> Seq(Named)], RedisNames'
    PROVE  DirectoryInv'
<1> DEFINE kind == ask[q].kind
<1>1. CASE ~ (kind \in {"contacts", "addresses"} /\ ask[q].agency \notin {None, source[q]})
  <2>1. Forget(q) /\ Goto(q, "done") /\ "done" \in Over
    BY <1>1 DEF NextList, Over
  <2>2. QED  BY <2>1, EndKeeps
<1>2. CASE kind \in {"contacts", "addresses"} /\ ask[q].agency \notin {None, source[q]}
  <2>1. PICK s : s = IF kind = "contacts" THEN "list" ELSE "corporate"
    OBVIOUS
  <2>2. /\ source' = [source EXCEPT ![q] = ask[q].agency] /\ Goto(q, s)
        /\ UNCHANGED <<todo, ids>>
    BY <1>2, <2>1 DEF NextList
  <2>3. s \in Calls /\ s \in ListCalls /\ s \notin KoddiCalls \cup ReportCalls \cup PlacementCalls
    BY <2>1 DEF Calls, ListCalls, KoddiCalls, ReportCalls, PlacementCalls
  <2>4. LocalShape' /\ at'[q] = s /\ \A p \in Clients \ {q} : at'[p] = at[p] /\ source'[p] = source[p]
    BY <2>2, <2>3, Moved DEF DirectoryInv, LocalShape
  <2>5. source'[q] = ask[q].agency
    BY <2>2 DEF DirectoryInv, LocalShape
  <2>6. /\ kind = "contacts" => source'[q] \in DOMAIN ContactsOf
        /\ kind = "addresses" => source'[q] \in DOMAIN AddressesOf
        /\ kind # "advertisers"
    BY <1>2, <2>5, MixesAssumption DEF DirectoryInv
  <2>7. WorkOf(q)
    BY DEF DirectoryInv
  <2>8. \A x \in DOMAIN ids'[q] : ids'[q][x] = None \/ Names(TypeOf(q), ids[q][x], x)'
    <3> TAKE x \in DOMAIN ids'[q]
    <3>1. PICK i : i = ids[q][x]
      OBVIOUS
    <3>2. PICK t \in Types : t = TypeOf(q)
      BY TypeIsOne
    <3>3. i = None \/ Names(t, i, x)
      BY <2>2, <2>7, <3>1, <3>2 DEF WorkOf
    <3>4. i = None \/ Names(t, i, x)'
      BY <3>3, NamesStay
    <3>5. TypeOf(q)' = t
      BY <3>2 DEF TypeOf
    <3>6. QED  BY <2>2, <3>1, <3>4, <3>5 DEF Names
  <2>9. /\ kind # "report" => todo'[q] \in Seq(Named)
        /\ kind \in ListKinds => ToSet(todo'[q]) \subseteq DOMAIN ids'[q]
    BY <2>2, <2>7 DEF WorkOf
  <2>10. s \notin {"details", "save", "name placement", "detail placement"} /\ (s = "corporate" => kind = "addresses")
    BY <1>2, <2>1
  <2>11. WorkOf(q)'
    BY <1>2, <2>3, <2>4, <2>6, <2>8, <2>9, <2>10 DEF WorkOf
  <2>12. QED  BY <2>2, <2>4, <2>11, OneRequest
<1>3. QED  BY <1>1, <1>2

LEMMA SaveContactsKeeps ==
    ASSUME DirectoryInv, NEW q \in Clients, SaveContacts(q)
    PROVE  DirectoryInv'
<1> DEFINE contact(x) == [id |-> x, accountIds |-> AccountIdsOf(q, details[q][ids[q][x]])]
           X == ToSet(todo[q])
           new == [i \in {ids[q][x] : x \in X} |-> contact(CHOOSE x \in X : ids[q][x] = i)]
<1>1. /\ at[q] = "save" /\ ask[q].kind = "contacts" /\ NextList(q) /\ UNCHANGED <<owner, ask>>
      /\ redis' = MPut(redis, "CONTACT", new)
  BY DEF SaveContacts, SetContactDetails
<1>2. PICK under : under = new
  OBVIOUS
<1>3. /\ DOMAIN under = {ids[q][x] : x \in X}
      /\ \A i \in DOMAIN under : under[i].id = CHOOSE x \in X : ids[q][x] = i
  BY <1>2
<1>4. "CONTACT" = TypeOf(q) /\ ask[q].kind \in ListKinds
  BY <1>1 DEF TypeOf, ListKinds
<1>5. RedisNames' /\ Grows /\ owner' \in [Types -> Seq(Named)]
  BY <1>1, <1>2, <1>3, <1>4, SavedNames
<1>6. QED  BY <1>1, <1>4, <1>5, NextListKeeps

LEMMA SaveAddressesKeeps ==
    ASSUME DirectoryInv, NEW q \in Clients, SaveAddresses(q)
    PROVE  DirectoryInv'
<1> DEFINE X == ToSet(todo[q])
           new == [i \in {ids[q][x] : x \in X} |-> [id |-> CHOOSE x \in X : ids[q][x] = i]]
<1>1. /\ at[q] = "save" /\ ask[q].kind = "addresses" /\ NextList(q) /\ UNCHANGED <<owner, ask>>
      /\ redis' = MPut(redis, "ADDRESS", new)
  BY DEF SaveAddresses, SetAddressDetails
<1>2. PICK under : under = new
  OBVIOUS
<1>3. /\ DOMAIN under = {ids[q][x] : x \in X}
      /\ \A i \in DOMAIN under : under[i].id = CHOOSE x \in X : ids[q][x] = i
  BY <1>2
<1>4. "ADDRESS" = TypeOf(q) /\ ask[q].kind \in ListKinds
  BY <1>1 DEF TypeOf, ListKinds
<1>5. RedisNames' /\ Grows /\ owner' \in [Types -> Seq(Named)]
  BY <1>1, <1>2, <1>3, <1>4, SavedNames
<1>6. QED  BY <1>1, <1>4, <1>5, NextListKeeps

LEMMA SaveAdvertisersKeeps ==
    ASSUME DirectoryInv, NEW q \in Clients, SaveAdvertisers(q)
    PROVE  DirectoryInv'
<1> DEFINE X == {x \in ToSet(todo[q]) : details[q][ids[q][x]] = None}
           new == [i \in {ids[q][x] : x \in X} |-> [id |-> CHOOSE x \in X : ids[q][x] = i]]
<1>1. /\ at[q] = "save" /\ ask[q].kind = "advertisers" /\ UNCHANGED <<owner, ask>>
      /\ Forget(q) /\ Goto(q, "done")
      /\ redis' = MPut(redis, "ADVERTISER", new)
  BY DEF SaveAdvertisers, SetAdvertiserDetails
<1>2. PICK under : under = new
  OBVIOUS
<1>3. /\ DOMAIN under = {ids[q][x] : x \in X} /\ X \subseteq ToSet(todo[q])
      /\ \A i \in DOMAIN under : under[i].id = CHOOSE x \in X : ids[q][x] = i
  BY <1>2
<1> HIDE DEF X
<1>4. "ADVERTISER" = TypeOf(q) /\ "done" \in Over
  BY <1>1 DEF TypeOf, Over
<1>5. RedisNames' /\ Grows /\ owner' \in [Types -> Seq(Named)]
  BY <1>1, <1>2, <1>3, <1>4, SavedNames
<1>6. QED  BY <1>1, <1>4, <1>5, EndKeeps
-----------------------------------------------------------------------------
(* The corporate address is kept under the account, which is no thing.     *)
LEMMA CacheCorporateKeeps ==
    ASSUME DirectoryInv, NEW q \in Clients, CacheCorporate(q)
    PROVE  DirectoryInv'
<1> USE DEF localVars
<1> DEFINE corporate == Sift(AddressesUpstream(q), Corporate)
<1>1. /\ at[q] = "corporate" /\ Goto(q, "list")
      /\ UNCHANGED <<owner, ask, source, todo, ids>>
      /\ redis' = IF corporate = << >> THEN redis ELSE Put(redis, "ADDRESS", source[q], Last(corporate))
  BY DEF CacheCorporate, SetCorporate
<1>2. /\ ask[q].kind = "addresses" /\ ask[q].kind \in ListKinds /\ source[q] \in DOMAIN AddressesOf
      /\ at[q] \notin Over
  BY <1>1 DEF DirectoryInv, WorkOf, ListCalls, ListKinds, Over
<1>3. Grows
  BY <1>1, OwnerGrows
<1>4. RedisNames'
  <2>1. CASE redis' = redis
    BY <1>3, <2>1, RedisStays DEF DirectoryInv
  <2>2. CASE redis' = Put(redis, "ADDRESS", source[q], Last(corporate))
    <3>1. PICK f : f = [y \in {source[q]} |-> Last(corporate)]
      OBVIOUS
    <3>2. redis' = MPut(redis, "ADDRESS", f)
      BY <2>2, <3>1, PutIsMPut
    <3>3. \A x \in DOMAIN f : x \notin Named /\ x \notin Nat
      BY <1>2, <3>1, ListsAssumption
    <3>4. QED  BY <1>3, <3>2, <3>3, RedisGains DEF DirectoryInv
  <2>3. QED  BY <1>1, <2>1, <2>2
<1>5. PICK s \in Over \cup Calls : s = "list"
  BY DEF Calls
<1>6. s \notin KoddiCalls \cup ReportCalls \cup PlacementCalls
  BY <1>5 DEF KoddiCalls, ReportCalls, PlacementCalls
<1>7. s \notin {"details", "save"}
  BY <1>5
<1>8. QED  BY <1>1, <1>2, <1>4, <1>5, <1>6, <1>7, GoOnKeeps

(* A single id is assigned, and kept under the long id of its thing.       *)
LEMMA AssignedOne ==
    ASSUME DirectoryInv, NEW t \in Types, NEW a \in Named, NEW i, i = NextId(t),
           Assign(t, <<a>>), redis' = Put(redis, t, a, i)
    PROVE  /\ Grows /\ owner' \in [Types -> Seq(Named)] /\ RedisNames'
           /\ i # None /\ Names(t, i, a)'
<1>1. PICK new : new = Assigned(<<a>>, NextId(t))
  OBVIOUS
<1>2. PICK names \in Seq(Named) : names = <<a>>
  <2>1. <<a>> \in Seq(Named)
    OBVIOUS
  <2>2. QED  BY <2>1, Zenon
<1>3. ToSet(names) = {a}
  <2>1. DOMAIN names = {1} /\ names[1] = a
    BY <1>2
  <2>2. QED  BY <2>1 DEF ToSet
<1>4. /\ Grows /\ owner' \in [Types -> Seq(Named)] /\ DOMAIN new = {a}
      /\ new[a] \in Nat /\ Names(t, new[a], a)'
  BY <1>1, <1>2, <1>3, AssignedNames DEF DirectoryInv
<1>5. new[a] = i
  <2>1. DOMAIN <<a>> = {1} /\ <<a>>[1] = a
    OBVIOUS
  <2>2. (CHOOSE j \in DOMAIN <<a>> : <<a>>[j] = a) = 1
    BY <2>1
  <2>3. new[a] = NextId(t) + 1 - 1
    BY <1>1, <1>2, <1>3, <2>2 DEF Assigned
  <2>4. PICK old \in Seq(Named) : old = owner[t]
    BY DEF DirectoryInv
  <2>5. NextId(t) \in Nat
    BY <2>4 DEF NextId
  <2>6. QED  BY <2>3, <2>5
<1>6. RedisNames'
  <2>1. PICK f : f = [y \in {a} |-> i]
    OBVIOUS
  <2>2. redis' = MPut(redis, t, f)
    BY <2>1, PutIsMPut
  <2>3. \A x \in DOMAIN f : x \notin Nat /\ Names(t, f[x], x)'
    BY <1>4, <1>5, <2>1, ListsAssumption
  <2>4. QED  BY <1>4, <2>2, <2>3, RedisGains DEF DirectoryInv
<1>7. QED  BY <1>4, <1>5, <1>6, ListsAssumption

(* Addresses get their ids one after the other.                            *)
LEMMA AssignAddressKeeps ==
    ASSUME DirectoryInv, NEW q \in Clients, AssignAddress(q)
    PROVE  DirectoryInv'
<1> USE DEF storeVars
<1>1. /\ at[q] = "assign" /\ ask[q].kind = "addresses" /\ UNCHANGED <<ask, source, todo>>
      /\ ask[q].kind \in ListKinds /\ at[q] \notin Over
  BY DEF AssignAddress, ListKinds, Over
<1>2. PICK list \in Seq(Named), names \in Seq(Named) :
          /\ list = todo[q] /\ names = Missing(q)
          /\ ToSet(names) = Lacking(q) /\ ToSet(list) \subseteq DOMAIN ids[q]
  BY <1>1, MissingProps
<1>3. CASE names = << >>
  <2>1. Goto(q, "save") /\ UNCHANGED <<redis, owner, ids>>
    BY <1>2, <1>3 DEF AssignAddress
  <2>2. \A x \in ToSet(todo[q]) : ids[q][x] # None
    <3>1. ToSet(names) = {}
      BY <1>3 DEF ToSet
    <3>2. QED  BY <1>2, <3>1 DEF Lacking
  <2>3. PICK s \in Over \cup Calls : s = "save"
    BY DEF Calls
  <2>4. s \notin KoddiCalls \cup ReportCalls \cup PlacementCalls /\ s # "corporate"
    BY <2>3 DEF KoddiCalls, ReportCalls, PlacementCalls
  <2>5. RedisNames'
    BY <2>1, OwnerGrows, RedisStays DEF DirectoryInv
  <2>6. QED  BY <1>1, <2>1, <2>2, <2>3, <2>4, <2>5, GoOnKeeps
<1>4. CASE names # << >>
  <2>1. PICK a \in Named : a = Head(names)
    BY <1>2, <1>4
  <2>2. PICK i : i = NextId("ADDRESS")
    OBVIOUS
  <2>3. /\ Assign("ADDRESS", <<a>>) /\ redis' = Put(redis, "ADDRESS", a, i)
        /\ ids' = [ids EXCEPT ![q][a] = i] /\ at' = at
    BY <1>2, <1>4, <2>1, <2>2 DEF AssignAddress
  <2>4. "ADDRESS" \in Types /\ TypeOf(q) = "ADDRESS"
    BY <1>1 DEF Types, TypeOf
  <2>5. /\ Grows /\ owner' \in [Types -> Seq(Named)] /\ RedisNames'
        /\ i # None /\ Names("ADDRESS", i, a)'
    BY <2>2, <2>3, <2>4, AssignedOne
  <2>6. PICK held : held = [ids[q] EXCEPT ![a] = i]
    OBVIOUS
  <2>7. /\ ids'[q] = held /\ DOMAIN ids' = Clients /\ \A p \in Clients \ {q} : ids'[p] = ids[p]
        /\ todo'[q] = list /\ DOMAIN todo' = Clients /\ \A p \in Clients \ {q} : todo'[p] = todo[p]
    BY <1>1, <1>2, <2>3, <2>6 DEF DirectoryInv, LocalShape
  <2>8. \A x \in DOMAIN held : held[x] = None \/ Names("ADDRESS", held[x], x)'
    <3> TAKE x \in DOMAIN held
    <3>1. CASE x = a
      BY <2>5, <2>6, <3>1
    <3>2. CASE x # a
      <4>1. PICK j : j = ids[q][x]
        OBVIOUS
      <4>2. held[x] = j /\ x \in DOMAIN ids[q]
        BY <2>6, <3>2, <4>1
      <4>3. j = None \/ Names("ADDRESS", j, x)
        BY <2>4, <4>1, <4>2 DEF DirectoryInv, WorkOf
      <4>4. QED  BY <2>4, <2>5, <4>2, <4>3, NamesStay
    <3>3. QED  BY <3>1, <3>2
  <2>9. PICK kind : kind = ask[q].kind
    OBVIOUS
  <2>10. PICK s \in Calls : s = "assign"
    BY DEF Calls
  <2>11. ListWork(kind, s, list, held)
    BY <1>1, <1>2, <2>6, <2>9, <2>10 DEF ListWork, ListCalls
  <2>12. Goto(q, s)
    BY <1>1, <2>3, <2>10 DEF Goto, DirectoryInv, LocalShape
  <2>13. PICK t : t = TypeOf(q)
    OBVIOUS
  <2>14. \A x \in DOMAIN held : held[x] = None \/ Names(t, held[x], x)'
    BY <2>4, <2>8, <2>13
  <2>15. QED  BY <1>1, <1>2, <2>5, <2>7, <2>9, <2>11, <2>12, <2>13, <2>14, WorkKeeps
<1>5. QED  BY <1>3, <1>4

(* The first of the placements that a request is left with.                *)
LEMMA HeadPlacement ==
    ASSUME DirectoryInv, NEW q \in Clients, at[q] \in PlacementCalls
    PROVE  /\ ask[q].kind = "placements" /\ at[q] \notin Over /\ TypeOf(q) = "PLACEMENT"
           /\ todo[q] \in Seq(Named) \ {<< >>} /\ ToSet(todo[q]) \subseteq ToSet(Placements)
           /\ Head(todo[q]) \in Named /\ Head(todo[q]) \in ToSet(todo[q])
<1>1. /\ ask[q].kind = "placements" /\ at[q] \notin Over
      /\ todo[q] \in Seq(Named) /\ todo[q] # << >> /\ ToSet(todo[q]) \subseteq ToSet(Placements)
  BY DEF DirectoryInv, WorkOf, PlacementCalls, Over
<1>2. PICK list \in Seq(Named) : list = todo[q]
  BY <1>1
<1>3. 1 \in DOMAIN list /\ Head(list) = list[1]
  BY <1>1, <1>2
<1>4. Head(list) \in Named /\ Head(list) \in ToSet(list)
  BY <1>3 DEF ToSet
<1>5. TypeOf(q) = "PLACEMENT"
  BY <1>1 DEF TypeOf
<1>6. QED  BY <1>1, <1>2, <1>4, <1>5

LEMMA ReadPlacementKeeps ==
    ASSUME DirectoryInv, NEW q \in Clients, ReadPlacement(q)
    PROVE  DirectoryInv'
<1> USE DEF storeVars
<1>1. at[q] = "placement" /\ at[q] \in PlacementCalls
  BY DEF ReadPlacement, PlacementCalls
<1>2. PICK list \in Seq(Named), p \in Named : list = todo[q] /\ p = Head(list) /\ list # << >>
  BY <1>1, HeadPlacement
<1>3. PICK id : id = Get(redis, "PLACEMENT", p)
  OBVIOUS
<1>4. PICK held : held = [x \in {p} |-> id]
  OBVIOUS
<1>5. PICK s : s = IF id = None THEN "assign placement" ELSE "name placement"
  OBVIOUS
<1>6. UNCHANGED <<redis, owner, ask, source, todo>> /\ ids' = [ids EXCEPT ![q] = held] /\ Goto(q, s)
  BY <1>2, <1>3, <1>4, <1>5 DEF ReadPlacement, PlacementId
<1>7. s \in Calls /\ s \in PlacementCalls
  BY <1>5 DEF Calls, PlacementCalls
<1>8. PICK t \in Types : t = TypeOf(q) /\ t = "PLACEMENT"
  BY <1>1, HeadPlacement, TypeIsOne
<1>9. id = None \/ Names(t, id, p)
  BY <1>3, <1>8 DEF DirectoryInv, RedisNames, Get
<1>10. \A x \in DOMAIN held : held[x] = None \/ Names(t, held[x], x)'
  BY <1>4, <1>6, <1>9 DEF Names
<1>11. Grows /\ RedisNames' /\ owner' \in [Types -> Seq(Named)]
  BY <1>6, OwnerGrows, RedisStays DEF DirectoryInv
<1>12. /\ ids'[q] = held /\ DOMAIN ids' = Clients /\ \A r \in Clients \ {q} : ids'[r] = ids[r]
       /\ todo'[q] = list /\ DOMAIN todo' = Clients /\ \A r \in Clients \ {q} : todo'[r] = todo[r]
  BY <1>2, <1>6 DEF DirectoryInv, LocalShape
<1>13. PICK kind : kind = ask[q].kind
  OBVIOUS
<1>14. PlacementWork(kind, s, list, held)
  <2>1. kind = "placements" /\ ToSet(list) \subseteq ToSet(Placements)
    BY <1>1, <1>2, <1>13, HeadPlacement
  <2>2. Head(list) \in DOMAIN held
    BY <1>2, <1>4
  <2>3. s \in {"name placement", "detail placement"} => held[Head(list)] # None
    BY <1>2, <1>4, <1>5
  <2>4. QED  BY <1>2, <1>7, <2>1, <2>2, <2>3 DEF PlacementWork
<1>15. at[q] \notin Over
  BY <1>1, HeadPlacement
<1>16. QED  BY <1>6, <1>7, <1>8, <1>10, <1>11, <1>12, <1>13, <1>14, <1>15, WorkKeeps

LEMMA AssignPlacementKeeps ==
    ASSUME DirectoryInv, NEW q \in Clients, AssignPlacement(q)
    PROVE  DirectoryInv'
<1>1. at[q] = "assign placement" /\ at[q] \in PlacementCalls
  BY DEF AssignPlacement, PlacementCalls
<1>2. PICK list \in Seq(Named), p \in Named :
          list = todo[q] /\ p = Head(list) /\ list # << >> /\ p \in DOMAIN ids[q]
  <2>1. Head(todo[q]) \in DOMAIN ids[q]
    BY <1>1 DEF DirectoryInv, WorkOf
  <2>2. QED  BY <1>1, <2>1, HeadPlacement
<1>3. PICK i : i = NextId("PLACEMENT")
  OBVIOUS
<1>4. PICK held : held = [ids[q] EXCEPT ![p] = i]
  OBVIOUS
<1>5. /\ Assign("PLACEMENT", <<p>>) /\ redis' = Put(redis, "PLACEMENT", p, i)
      /\ ids' = [ids EXCEPT ![q][p] = i] /\ Goto(q, "name placement")
      /\ UNCHANGED <<ask, source, todo>>
  BY <1>2, <1>3 DEF AssignPlacement
<1>6. PICK t \in Types : t = TypeOf(q) /\ t = "PLACEMENT"
  BY <1>1, HeadPlacement, TypeIsOne
<1>7. /\ Grows /\ owner' \in [Types -> Seq(Named)] /\ RedisNames'
      /\ i # None /\ Names(t, i, p)'
  BY <1>3, <1>5, <1>6, AssignedOne
<1>8. \A x \in DOMAIN held : held[x] = None \/ Names(t, held[x], x)'
  <2> TAKE x \in DOMAIN held
  <2>1. CASE x = p
    BY <1>2, <1>4, <1>7, <2>1
  <2>2. CASE x # p
    <3>1. PICK j : j = ids[q][x]
      OBVIOUS
    <3>2. held[x] = j /\ x \in DOMAIN ids[q]
      BY <1>4, <2>2, <3>1
    <3>3. j = None \/ Names(t, j, x)
      BY <1>6, <3>1, <3>2 DEF DirectoryInv, WorkOf
    <3>4. QED  BY <1>7, <3>2, <3>3, NamesStay
  <2>3. QED  BY <2>1, <2>2
<1>9. /\ ids'[q] = held /\ DOMAIN ids' = Clients /\ \A r \in Clients \ {q} : ids'[r] = ids[r]
      /\ todo'[q] = list /\ DOMAIN todo' = Clients /\ \A r \in Clients \ {q} : todo'[r] = todo[r]
  BY <1>2, <1>4, <1>5 DEF DirectoryInv, LocalShape
<1>10. PICK kind : kind = ask[q].kind
  OBVIOUS
<1>11. PICK s \in Calls : s = "name placement"
  BY DEF Calls
<1>12. PlacementWork(kind, s, list, held)
  <2>1. kind = "placements" /\ ToSet(list) \subseteq ToSet(Placements)
    BY <1>1, <1>2, <1>10, HeadPlacement
  <2>2. Head(list) \in DOMAIN held /\ held[Head(list)] # None
    BY <1>2, <1>4, <1>7
  <2>3. s \in PlacementCalls
    BY <1>11 DEF PlacementCalls
  <2>4. QED  BY <1>2, <2>1, <2>2, <2>3 DEF PlacementWork
<1>13. at[q] \notin Over
  BY <1>1, HeadPlacement
<1>14. QED  BY <1>5, <1>6, <1>7, <1>8, <1>9, <1>10, <1>11, <1>12, <1>13, WorkKeeps

(* The way from the name of a placement to its id is under a key that is   *)
(* no thing.                                                               *)
LEMMA NamePlacementKeeps ==
    ASSUME DirectoryInv, NEW q \in Clients, NamePlacement(q)
    PROVE  DirectoryInv'
<1> USE DEF localVars
<1>1. at[q] = "name placement" /\ at[q] \in PlacementCalls
  BY DEF NamePlacement, PlacementCalls
<1>2. PICK name, id : name = PlacementName[Head(todo[q])] /\ id = ids[q][Head(todo[q])]
  OBVIOUS
<1>3. /\ redis' = Put(redis, "PLACEMENT", name, id) /\ Goto(q, "detail placement")
      /\ UNCHANGED <<owner, ask, source, todo, ids>>
  BY <1>2 DEF NamePlacement, SetPlacementName
<1>4. name \notin Named \cup Nat
  BY <1>1, <1>2, HeadPlacement, ListsAssumption
<1>5. RedisNames'
  <2>1. PICK f : f = [y \in {name} |-> id]
    OBVIOUS
  <2>2. redis' = MPut(redis, "PLACEMENT", f)
    BY <1>3, <2>1, PutIsMPut
  <2>3. \A x \in DOMAIN f : x \notin Named /\ x \notin Nat
    BY <1>4, <2>1
  <2>4. Grows
    BY <1>3, OwnerGrows
  <2>5. QED  BY <2>2, <2>3, <2>4, RedisGains DEF DirectoryInv
<1>6. PICK s \in Over \cup Calls : s = "detail placement"
  BY DEF Calls
<1>7. /\ ask[q].kind = "placements" /\ todo[q] # << >> /\ at[q] \notin Over
      /\ Head(todo[q]) \in DOMAIN ids[q] /\ ids[q][Head(todo[q])] # None
  BY <1>1, HeadPlacement DEF DirectoryInv, WorkOf
<1>8. s \notin ListCalls \cup KoddiCalls \cup ReportCalls
  BY <1>6 DEF ListCalls, KoddiCalls, ReportCalls
<1>9. QED  BY <1>3, <1>5, <1>6, <1>7, <1>8, GoOnKeeps

LEMMA DetailPlacementKeeps ==
    ASSUME DirectoryInv, NEW q \in Clients, DetailPlacement(q)
    PROVE  DirectoryInv'
<1>1. at[q] = "detail placement" /\ at[q] \in PlacementCalls
  BY DEF DetailPlacement, PlacementCalls
<1>2. PICK list \in Seq(Named), p \in Named :
          /\ list = todo[q] /\ p = Head(list) /\ list # << >>
          /\ p \in DOMAIN ids[q] /\ ids[q][p] # None
  <2>1. Head(todo[q]) \in DOMAIN ids[q] /\ ids[q][Head(todo[q])] # None
    BY <1>1 DEF DirectoryInv, WorkOf, PlacementCalls
  <2>2. QED  BY <1>1, <2>1, HeadPlacement
<1>3. PICK t \in Types : t = TypeOf(q) /\ t = "PLACEMENT"
  BY <1>1, HeadPlacement, TypeIsOne
<1>4. PICK i, one : i = ids[q][p] /\ one = [id |-> p]
  OBVIOUS
<1>5. redis' = Put(redis, t, i, one) /\ UNCHANGED <<owner, ask>>
  BY <1>2, <1>3, <1>4 DEF DetailPlacement, SetPlacementDetails
<1>6. Names(t, i, p)
  BY <1>2, <1>3, <1>4 DEF DirectoryInv, WorkOf
<1>7. i \in Nat
  <2>1. PICK own \in Seq(Named) : own = owner[t]
    BY DEF DirectoryInv
  <2>2. i \in DOMAIN own
    BY <1>6, <2>1 DEF Names
  <2>3. QED  BY <2>2
<1>8. Grows /\ RedisNames' /\ owner' \in [Types -> Seq(Named)]
  <2>1. Grows /\ owner' \in [Types -> Seq(Named)]
    BY <1>5, OwnerGrows DEF DirectoryInv
  <2>2. PICK f : f = [y \in {i} |-> one]
    OBVIOUS
  <2>3. redis' = MPut(redis, t, f)
    BY <1>5, <2>2, PutIsMPut
  <2>4. \A x \in DOMAIN f : x \notin Named /\ f[x].id = p /\ x = i
    BY <1>4, <1>7, <2>2, ListsAssumption
  <2>5. Names(t, i, p)'
    BY <1>5, <1>6 DEF Names
  <2>6. QED  BY <2>1, <2>3, <2>4, <2>5, RedisGains DEF DirectoryInv
<1>9. CASE Tail(list) = << >>
  <2>1. Forget(q) /\ Goto(q, "done") /\ "done" \in Over
    BY <1>2, <1>9 DEF DetailPlacement, Over
  <2>2. QED  BY <1>5, <1>8, <2>1, EndKeeps
<1>10. CASE Tail(list) # << >>
  <2>1. PICK rest : rest = Tail(list)
    OBVIOUS
  <2>2. rest \in Seq(Named) /\ rest # << >> /\ ToSet(rest) \subseteq ToSet(list)
    <3>1. /\ Len(rest) = Len(list) - 1
          /\ \A j \in 1..Len(rest) : rest[j] = list[j + 1]
      BY <1>2, <2>1
    <3>2. rest \in Seq(Named) /\ rest # << >>
      BY <1>2, <1>10, <2>1
    <3>3. \A j \in DOMAIN rest : j + 1 \in DOMAIN list /\ rest[j] = list[j + 1]
      BY <3>1, <3>2
    <3>4. QED  BY <3>2, <3>3 DEF ToSet
  <2>3. /\ todo' = [todo EXCEPT ![q] = rest] /\ Goto(q, "placement")
        /\ UNCHANGED <<source, ids>>
    BY <1>2, <1>10, <2>1 DEF DetailPlacement
  <2>4. PICK held : held = ids[q]
    OBVIOUS
  <2>5. /\ ids'[q] = held /\ DOMAIN ids' = Clients /\ \A r \in Clients \ {q} : ids'[r] = ids[r]
        /\ todo'[q] = rest /\ DOMAIN todo' = Clients /\ \A r \in Clients \ {q} : todo'[r] = todo[r]
    BY <2>3, <2>4 DEF DirectoryInv, LocalShape
  <2>6. \A x \in DOMAIN held : held[x] = None \/ Names(t, held[x], x)'
    BY <1>3, <1>5, <2>4 DEF DirectoryInv, WorkOf, Names
  <2>7. PICK kind : kind = ask[q].kind
    OBVIOUS
  <2>8. PICK s \in Calls : s = "placement"
    BY DEF Calls
  <2>9. PlacementWork(kind, s, rest, held)
    <3>1. kind = "placements" /\ ToSet(rest) \subseteq ToSet(Placements)
      BY <1>1, <1>2, <2>2, <2>7, HeadPlacement
    <3>2. QED  BY <2>2, <2>8, <3>1 DEF PlacementWork, PlacementCalls
  <2>10. at[q] \notin Over
    BY <1>1, HeadPlacement
  <2>11. QED  BY <1>3, <1>5, <1>8, <2>2, <2>3, <2>5, <2>6, <2>7, <2>8, <2>9, <2>10, WorkKeeps
<1>11. QED  BY <1>9, <1>10
-----------------------------------------------------------------------------
(* Of the directory only these are steps with ids.                         *)
LEMMA DirectoryStepKeeps ==
    ASSUME DirectoryInv, NEW q \in Clients, DirectoryStep(q)
    PROVE  DirectoryInv'
BY BeginKeeps, ListKeeps, AssignBatchKeeps, ReadDetailsKeeps, SaveContactsKeeps, SaveAdvertisersKeeps,
   CacheCorporateKeeps, AssignAddressKeeps, SaveAddressesKeeps, ReadPlacementKeeps, AssignPlacementKeeps,
   NamePlacementKeeps, DetailPlacementKeeps, KoddiKeeps DEF DirectoryStep

LEMMA ReportStepKeeps ==
    ASSUME DirectoryInv, NEW q \in Clients, ReportStep(q)
    PROVE  DirectoryInv'
BY BeginReportKeeps, ReportKeeps DEF ReportStep

(* What others write, and failures, leave all that as it is.               *)
LEMMA FailReportKeeps ==
    ASSUME DirectoryInv, NEW q \in Clients, FailReport(q)
    PROVE  DirectoryInv'
<1>1. Goto(q, "failed") /\ Forget(q) /\ UNCHANGED <<redis, owner, ask>> /\ "failed" \in Over
  BY DEF FailReport, Fail, storeVars, Over
<1>2. Grows /\ RedisNames' /\ owner' \in [Types -> Seq(Named)]
  BY <1>1, OwnerGrows, RedisStays DEF DirectoryInv
<1>3. QED  BY <1>1, <1>2, EndKeeps

LEMMA OthersKeep ==
    ASSUME DirectoryInv, UNCHANGED <<owner, ask, at, source, todo, ids>>, RedisNames'
    PROVE  DirectoryInv'
<1>1. Grows
  BY OwnerGrows
<1>2. \A q \in Clients : WorkOf(q)'
  BY <1>1, OtherWork DEF DirectoryInv
<1>3. QED  BY <1>2 DEF DirectoryInv, LocalShape

LEMMA LookupFilledKeeps == DirectoryInv /\ LookupFilled => DirectoryInv'
<1> SUFFICES ASSUME DirectoryInv, LookupFilled PROVE DirectoryInv'
  OBVIOUS
<1>1. PICK s, l : redis' = Put(redis, "CAMPAIGN", s, l)
  BY DEF LookupFilled
<1>2. UNCHANGED <<owner, ask, at, source, todo, ids>>
  BY DEF LookupFilled, localVars
<1>3. RedisNames'
  <2>1. PICK f : f = [y \in {s} |-> l]
    OBVIOUS
  <2>2. redis' = MPut(redis, "CAMPAIGN", f)
    BY <1>1, <2>1, PutIsMPut
  <2>3. "CAMPAIGN" \notin Types /\ Grows
    BY <1>2, OwnerGrows DEF Types
  <2>4. QED  BY <2>2, <2>3, RedisGains DEF DirectoryInv
<1>4. QED  BY <1>2, <1>3, OthersKeep

LEMMA DirectoryInvInit == ReportInit => DirectoryInv
<1> SUFFICES ASSUME ReportInit PROVE DirectoryInv
  OBVIOUS
<1> USE DEF ReportInit, DirectoryInit
<1>1. owner \in [Types -> Seq(Named)] /\ ask \in Mixes
  OBVIOUS
<1>2. at \in [Clients -> Over \cup Calls]
  BY DEF Over
<1>3. LocalShape
  BY <1>2 DEF LocalShape
<1>4. RedisNames
  BY DEF RedisNames
<1>5. ASSUME NEW q \in Clients PROVE WorkOf(q)
  <2>1. at[q] \in Over /\ todo[q] = << >> /\ ids[q] = << >>
    BY DEF Over, NoMemory
  <2>2. QED  BY <2>1, NothingHeld
<1>6. QED  BY <1>1, <1>3, <1>4, <1>5 DEF DirectoryInv

LEMMA DirectoryInvNext == DirectoryInv /\ [Next]_vars => DirectoryInv'
<1> SUFFICES ASSUME DirectoryInv, [Next]_vars PROVE DirectoryInv'
  OBVIOUS
<1>1. ASSUME UNCHANGED <<redis, owner, ask, at, source, todo, ids>> PROVE DirectoryInv'
  BY <1>1, OwnerGrows, RedisStays, OthersKeep DEF DirectoryInv
<1>2. CASE \E q \in Clients : ReportStep(q)
  BY <1>2, ReportStepKeeps
<1>3. CASE \E q \in Clients : DirectoryStep(q)
  BY <1>3, DirectoryStepKeeps
<1>4. CASE \E q \in Clients : FailReport(q)
  BY <1>4, FailReportKeeps
<1>5. CASE LeaseRunsOut
  BY <1>1, <1>5 DEF LeaseRunsOut, storeVars, localVars
<1>6. CASE LookupFilled
  BY <1>6, LookupFilledKeeps
<1>7. CASE Partner
  BY <1>1, <1>7 DEF Partner, dirVars, storeVars, localVars
<1>8. CASE UNCHANGED vars
  BY <1>1, <1>8 DEF vars, dirVars, storeVars, localVars
<1>9. QED  BY <1>2, <1>3, <1>4, <1>5, <1>6, <1>7, <1>8 DEF Next

(* Redis leads from every thing to an id that was given to it, and from an *)
(* id to the thing it was given to; so do the ids a request holds, at any  *)
(* call. [contact_service.py:79, lookup_service.py]                        *)
THEOREM DirectoryInvHolds == Spec => []DirectoryInv
<1>1. ReportInit => DirectoryInv
  BY DirectoryInvInit
<1>2. DirectoryInv /\ [Next]_vars => DirectoryInv'
  BY DirectoryInvNext
<1>3. QED  BY <1>1, <1>2, PTL DEF Spec

(* A short id a client is told keeps naming what it was given for.         *)
(* [contact_service.py:79, address_service.py:92, placement_service.py:68] *)
THEOREM IdsKeepTheirDetails == Spec => []DetailsNameTheirEntity
<1>1. DirectoryInv => DetailsNameTheirEntity
  <2> SUFFICES ASSUME DirectoryInv, NEW t \in Types, NEW i \in Detailed(t)
               PROVE  i \in DOMAIN owner[t] /\ Get(redis, t, i).id = owner[t][i]
    BY DEF DetailsNameTheirEntity
  <2>1. i \in Nat /\ <<t, i>> \in DOMAIN redis
    <3>1. PICK k \in DOMAIN redis : k = <<t, k[2]>> /\ k[2] \in Nat /\ i = k[2]
      BY DEF Detailed
    <3>2. QED  BY <3>1
  <2>2. Names(t, i, redis[<<t, i>>].id)
    BY <2>1 DEF DirectoryInv, RedisNames
  <2>3. QED  BY <2>1, <2>2 DEF Names, Get
<1>2. QED  BY <1>1, DirectoryInvHolds, PTL
-----------------------------------------------------------------------------
(* Requests of the directory that run at the same time have met.           *)
MetInv ==
    /\ met \in [Clients -> SUBSET Clients]
    /\ \A q \in Clients : q \notin met[q] /\ (at[q] = "idle" => met[q] = {})
    /\ \A p, q \in Clients :
          p # q /\ {at[p], at[q]} \cap Over = {} /\ "report" \notin {ask[p].kind, ask[q].kind}
          => p \in met[q]

(* The calls that have nothing to do with Koddi's advertisers.             *)
ListStep(q) ==
    \/ List(q) \/ AssignBatch(q) \/ ReadDetails(q) \/ SaveContacts(q) \/ SaveAdvertisers(q)
    \/ CacheCorporate(q) \/ AssignAddress(q) \/ SaveAddresses(q)
    \/ ReadPlacement(q) \/ AssignPlacement(q) \/ NamePlacement(q) \/ DetailPlacement(q)

KoddiStep(q) ==
    \/ ReadKoddi(q) \/ ListKoddi(q) \/ KeepBrands(q) \/ ReadKoddiAgain(q)
    \/ FindAdvertiser(q) \/ LockCreation(q) \/ Create(q) \/ KeepKoddi(q)

(* A request that runs goes on, or a report begins; the others stay where  *)
(* they are.                                                               *)
OneGoes(q) ==
    /\ at[q] \notin Over \/ ask[q].kind = "report"
    /\ at'[q] # "idle"
    /\ \A p \in Clients \ {q} : at'[p] = at[p]

(* A step with no part in Koddi's advertisers.                             *)
Elsewhere(q) ==
    /\ UNCHANGED <<advertisers, creating, koddi>>
    /\ \A p \in Clients \ {q} : details'[p] = details[p]
    /\ redis' = redis \/ \E type, f : type # "KODDI_ADVERTISER" /\ redis' = MPut(redis, type, f)

LEMMA Went ==
    ASSUME LocalShape, NEW q \in Clients, NEW s \in (Over \cup Calls) \ {"idle"}, Goto(q, s)
    PROVE  at'[q] # "idle" /\ \A p \in Clients \ {q} : at'[p] = at[p]
BY DEF LocalShape, Goto

LEMMA ListStepGoes ==
    ASSUME DirectoryInv, NEW q \in Clients, ListStep(q)
    PROVE  OneGoes(q) /\ UNCHANGED <<ask, met>>
<1>1. LocalShape
  BY DEF DirectoryInv
<1>2. UNCHANGED <<ask, met>> /\ at[q] \notin Over
  BY DEF ListStep, Over, List, AssignBatch, ReadDetails, SaveContacts, SaveAdvertisers, CacheCorporate,
     AssignAddress, SaveAddresses, ReadPlacement, AssignPlacement, NamePlacement, DetailPlacement
<1>3. UNCHANGED at \/ \E s \in (Over \cup Calls) \ {"idle"} : Goto(q, s)
  <2>1. {"list", "assign", "details", "save", "corporate", "placement", "assign placement",
         "name placement", "detail placement", "done"} \subseteq (Over \cup Calls) \ {"idle"}
    BY DEF Over, Calls
  <2>2. NextList(q) => \E s \in (Over \cup Calls) \ {"idle"} : Goto(q, s)
    BY <2>1 DEF NextList
  <2>3. QED
    BY <2>1, <2>2 DEF ListStep, List, AssignBatch, ReadDetails, SaveContacts, SaveAdvertisers, CacheCorporate,
       AssignAddress, SaveAddresses, ReadPlacement, AssignPlacement, NamePlacement, DetailPlacement
<1>4. at'[q] # "idle" /\ \A p \in Clients \ {q} : at'[p] = at[p]
  BY <1>1, <1>2, <1>3, Went DEF Over
<1>5. QED  BY <1>2, <1>4 DEF OneGoes

LEMMA KoddiStepGoes ==
    ASSUME DirectoryInv, NEW q \in Clients, KoddiStep(q)
    PROVE  OneGoes(q) /\ UNCHANGED <<ask, met>> /\ ask[q].kind = "koddi"
<1> USE DEF storeVars, localVars
<1>1. LocalShape
  BY DEF DirectoryInv
<1>2. UNCHANGED <<ask, met>> /\ at[q] \in KoddiCalls
  BY DEF KoddiStep, KoddiCalls, ReadKoddi, ListKoddi, KeepBrands, ReadKoddiAgain, FindAdvertiser,
     LockCreation, Create, KeepKoddi
<1>3. \E s \in (Over \cup Calls) \ {"idle"} : Goto(q, s)
  BY DEF Over, Calls, KoddiStep, ReadKoddi, ListKoddi, KeepBrands, ReadKoddiAgain, FindAdvertiser,
     LockCreation, Create, KeepKoddi
<1>4. at'[q] # "idle" /\ \A p \in Clients \ {q} : at'[p] = at[p]
  BY <1>1, <1>3, Went
<1>5. ask[q].kind = "koddi" /\ at[q] \notin Over
  BY <1>2 DEF DirectoryInv, WorkOf, KoddiCalls, Over
<1>6. QED  BY <1>2, <1>4, <1>5 DEF OneGoes

LEMMA ReportStepGoes ==
    ASSUME DirectoryInv, NEW q \in Clients, ReportStep(q)
    PROVE  OneGoes(q) /\ UNCHANGED <<ask, met>> /\ ask[q].kind = "report"
<1> USE DEF storeVars, localVars, reportVars
<1>1. LocalShape
  BY DEF DirectoryInv
<1>2. UNCHANGED <<ask, met>> /\ (at[q] \in ReportCalls \/ ask[q].kind = "report")
  BY DEF ReportStep, ReportCalls, BeginReport, ReadAdvertisers, BuildScope, ReadFilter, SearchFilter, KeepFilter,
     Send, ReadLongs, ReadShorts, FetchMissing, KeepLongs, KeepShorts, Translate
<1>3. \E s \in (Over \cup Calls) \ {"idle"} : Goto(q, s)
  BY DEF Over, Calls, ReportStep, BeginReport, ReadAdvertisers, BuildScope, FirstFilterCall, ReadFilter, SearchFilter,
     KeepFilter, Send, ReadLongs, ReadShorts, FetchMissing, KeepLongs, KeepShorts, Translate
<1>4. at'[q] # "idle" /\ \A p \in Clients \ {q} : at'[p] = at[p]
  BY <1>1, <1>3, Went
<1>5. ask[q].kind = "report"
  BY <1>2 DEF DirectoryInv, WorkOf
<1>6. QED  BY <1>2, <1>4, <1>5 DEF OneGoes

LEMMA FailReportGoes ==
    ASSUME DirectoryInv, NEW q \in Clients, FailReport(q)
    PROVE  OneGoes(q) /\ UNCHANGED <<ask, met>>
BY Went DEF FailReport, Fail, DirectoryInv, OneGoes, Over

(* Nobody meets anybody by going on.                                       *)
LEMMA MetStays ==
    ASSUME MetInv, NEW q \in Clients, OneGoes(q), UNCHANGED <<ask, met>>
    PROVE  MetInv'
BY DEF MetInv, OneGoes, Over

LEMMA BeginMeets ==
    ASSUME DirectoryInv, MetInv, NEW q \in Clients, Begin(q)
    PROVE  MetInv' /\ \A p \in Clients : met[p] \subseteq met'[p]
<1>1. /\ at[q] = "idle" /\ ask' = ask /\ \E s : Goto(q, s)
      /\ met' = [x \in Clients |-> IF x = q THEN Running ELSE IF x \in Running THEN met[x] \cup {q} ELSE met[x]]
  <2>1. q \notin Running
    BY DEF Begin, Enter, Running, Over
  <2>2. met' = [x \in Clients |-> CASE x = q -> Running [] x \in Running -> met[x] \cup {q} [] OTHER -> met[x]]
    BY DEF Begin, Enter
  <2>3. \A x \in Clients : (CASE x = q -> Running [] x \in Running -> met[x] \cup {q} [] OTHER -> met[x])
           = (IF x = q THEN Running ELSE IF x \in Running THEN met[x] \cup {q} ELSE met[x])
    BY <2>1
  <2>4. QED  BY <2>2, <2>3 DEF Begin, Enter
<1>2. PICK s : Goto(q, s)
  BY <1>1
<1>3. FirstCall[ask[q].kind] # "idle" /\ Goto(q, FirstCall[ask[q].kind])
  BY DEF Begin, Enter, FirstCall
<1>4. at'[q] # "idle" /\ \A p \in Clients \ {q} : at'[p] = at[p]
  BY <1>3 DEF Goto, DirectoryInv, LocalShape
<1>5. met' \in [Clients -> SUBSET Clients] /\ \A p \in Clients : met[p] \subseteq met'[p]
  BY <1>1 DEF MetInv, Running
<1>6. \A p \in Clients : p \notin met'[p] /\ (at'[p] = "idle" => met'[p] = {})
  BY <1>1, <1>4 DEF MetInv, Running, Over
<1>7. ASSUME NEW p \in Clients, NEW r \in Clients, p # r, {at'[p], at'[r]} \cap Over = {},
             "report" \notin {ask[p].kind, ask[r].kind}
      PROVE  p \in met'[r]
  <2>1. CASE r = q
    BY <1>1, <1>4, <1>7, <2>1 DEF Running
  <2>2. CASE r # q
    <3>1. r \in Running
      BY <1>4, <1>7, <2>2 DEF Running
    <3>2. met'[r] = met[r] \cup {q}
      BY <1>1, <2>2, <3>1
    <3>3. CASE p = q
      BY <3>2, <3>3
    <3>4. CASE p # q
      BY <1>4, <1>7, <2>2, <3>2, <3>4 DEF MetInv
    <3>5. QED  BY <3>3, <3>4
  <2>3. QED  BY <2>1, <2>2
<1>8. QED  BY <1>1, <1>5, <1>6, <1>7 DEF MetInv

LEMMA ListStepElsewhere ==
    ASSUME DirectoryInv, NEW q \in Clients, DOMAIN details = Clients, ListStep(q)
    PROVE  Elsewhere(q) /\ DOMAIN details' = Clients /\ ask[q].kind # "koddi"
<1> USE DEF storeVars, localVars
<1>1. UNCHANGED <<advertisers, creating, koddi>>
  BY DEF ListStep, List, AssignBatch, ReadDetails, SaveContacts, SaveAdvertisers, CacheCorporate,
     AssignAddress, SaveAddresses, ReadPlacement, AssignPlacement, NamePlacement, DetailPlacement
<1>2. details' = details \/ \E d : details' = [details EXCEPT ![q] = d]
  <2>1. Forget(q) \/ NextList(q) => details' = details \/ \E d : details' = [details EXCEPT ![q] = d]
    BY DEF Forget, NextList
  <2>2. QED
    BY <2>1 DEF ListStep, List, AssignBatch, ReadDetails, SaveContacts, SaveAdvertisers, CacheCorporate,
       AssignAddress, SaveAddresses, ReadPlacement, AssignPlacement, NamePlacement, DetailPlacement
<1>3. redis' = redis \/ \E type \in Types : \E f : redis' = MPut(redis, type, f)
  <2>1. ASSUME NEW t \in Types, NEW x, NEW v, redis' = Put(redis, t, x, v)
        PROVE  \E type \in Types : \E f : redis' = MPut(redis, type, f)
    BY <2>1, PutIsMPut
  <2>2. CASE AssignBatch(q) \/ SaveContacts(q) \/ SaveAdvertisers(q) \/ SaveAddresses(q)
    BY <2>2 DEF Types, AssignBatch, SaveContacts, SaveAdvertisers, SaveAddresses, SetContactIds,
       SetAdvertiserIds, SetContactDetails, SetAdvertiserDetails, SetAddressDetails
  <2>3. CASE CacheCorporate(q) \/ AssignAddress(q) \/ AssignPlacement(q) \/ NamePlacement(q) \/ DetailPlacement(q)
    <3>1. redis' = redis \/ \E t \in Types : \E x, v : redis' = Put(redis, t, x, v)
      BY <2>3 DEF Types, CacheCorporate, AssignAddress, AssignPlacement, NamePlacement, DetailPlacement,
         SetCorporate, SetPlacementName, SetPlacementDetails
    <3>2. QED  BY <2>1, <3>1
  <2>4. CASE List(q) \/ ReadDetails(q) \/ ReadPlacement(q)
    BY <2>4 DEF List, ReadDetails, ReadPlacement
  <2>5. QED  BY <2>2, <2>3, <2>4 DEF ListStep
<1>4. \A type \in Types : type # "KODDI_ADVERTISER"
  BY DEF Types
<1>5. at[q] \in ListCalls \cup PlacementCalls
  BY DEF ListStep, ListCalls, PlacementCalls, List, AssignBatch, ReadDetails, SaveContacts, SaveAdvertisers,
     CacheCorporate, AssignAddress, SaveAddresses, ReadPlacement, AssignPlacement, NamePlacement, DetailPlacement
<1>6. ask[q].kind # "koddi"
  BY <1>5 DEF DirectoryInv, WorkOf, ListKinds
<1>7. QED  BY <1>1, <1>2, <1>3, <1>4, <1>6 DEF Elsewhere

LEMMA ReportStepElsewhere ==
    ASSUME DirectoryInv, NEW q \in Clients, DOMAIN details = Clients, ReportStep(q)
    PROVE  Elsewhere(q) /\ DOMAIN details' = Clients
<1> USE DEF storeVars, localVars, reportVars
<1>1. UNCHANGED <<advertisers, creating, koddi>>
  BY DEF ReportStep, BeginReport, ReadAdvertisers, BuildScope, ReadFilter, SearchFilter, KeepFilter,
     Send, ReadLongs, ReadShorts, FetchMissing, KeepLongs, KeepShorts, Translate
<1>2. details' = details \/ \E d : details' = [details EXCEPT ![q] = d]
  BY DEF Forget, ReportStep, BeginReport, ReadAdvertisers, BuildScope, ReadFilter, SearchFilter, KeepFilter,
     Send, ReadLongs, ReadShorts, FetchMissing, KeepLongs, KeepShorts, Translate
<1>3. redis' = redis \/ \E type \in {"CAMPAIGN", "CAMPAIGN:KODDI", "AD_GROUP", "AD_GROUP:KODDI"} : \E f :
                            redis' = MPut(redis, type, f)
  <2>1. CASE KeepFilter(q) \/ KeepLongs(q) \/ KeepShorts(q)
    BY <2>1 DEF KeepFilter, KeepLongs, KeepShorts, SetKoddiByShort, SetCampaignByKoddi, SetAdGroupByKoddi,
       SetShortCampaign, SetShortAdGroup
  <2>2. CASE ~ (KeepFilter(q) \/ KeepLongs(q) \/ KeepShorts(q))
    BY <2>2 DEF ReportStep, BeginReport, ReadAdvertisers, BuildScope, ReadFilter, SearchFilter, Send,
       ReadLongs, ReadShorts, FetchMissing, Translate
  <2>3. QED  BY <2>1, <2>2
<1>4. QED  BY <1>1, <1>2, <1>3 DEF Elsewhere
-----------------------------------------------------------------------------
(* Koddi's advertiser k is of the brands and the agency q asks for, and    *)
(* what is kept under x is of the brand and the agency x.                  *)
Fits(k, q) ==
    /\ k \in DOMAIN advertisers
    /\ advertisers[k].brands = ToSet(ask[q].brands) /\ advertisers[k].agency = ask[q].agency

KeptFor(x, k) ==
    /\ k \in DOMAIN advertisers
    /\ advertisers[k].brands = {x[1]} /\ advertisers[k].agency = x[2]

RedisKoddi ==
    \A key \in DOMAIN redis : key[1] = "KODDI_ADVERTISER" => KeptFor(key[2], redis[key])

(* What a request has found is what it looks for, and past its look-up     *)
(* whatever fits was created by a request it has met.                      *)
KoddiOf(q) ==
    /\ koddi[q] # None => Fits(koddi[q], q)
    /\ at[q] = "keep" => koddi[q] # None /\ OneBrand(q)
    /\ at[q] \in {"brands", "keep brands", "koddi again"} => OneBrand(q) /\ ask[q].agency = None
    /\ at[q] = "keep brands" => \A x \in DOMAIN details[q] : KeptFor(x, details[q][x])
    /\ at[q] \in {"lock", "create", "create unlocked"} =>
          \A k \in DOMAIN advertisers : Fits(k, q) => advertisers[k].by \in met[q]

(* Of two advertisers alike the later one's creator has met the other's.   *)
TwinsMet ==
    \A j, k \in DOMAIN advertisers :
        (j < k /\ advertisers[j].brands = advertisers[k].brands
               /\ advertisers[j].agency = advertisers[k].agency)
        => advertisers[k].by # None /\ advertisers[j].by \in met[advertisers[k].by]

KoddiShape ==
    /\ advertisers \in Seq(ToSet(advertisers))
    /\ \A k \in DOMAIN advertisers : advertisers[k].by \in Clients \cup {None}
    /\ DOMAIN details = Clients /\ DOMAIN koddi = Clients

(* A lock on a creation is held by a request that creates or was stopped   *)
(* there.                                                                  *)
LocksInv ==
    \A l \in creating :
        /\ l.by \in Clients /\ l = [key |-> LockKey(l.by), by |-> l.by]
        /\ at[l.by] \in {"create", "failed"}

KoddiInv == MetInv /\ KoddiShape /\ RedisKoddi /\ (\A q \in Clients : KoddiOf(q)) /\ TwinsMet

LEMMA UnderKey ==
    ASSUME NEW r, NEW type, NEW f, NEW key \in DOMAIN MPut(r, type, f)
    PROVE  \/ \E x \in DOMAIN f : key = <<type, x>> /\ MPut(r, type, f)[key] = f[x]
           \/ key \in DOMAIN r /\ MPut(r, type, f)[key] = r[key]
<1> DEFINE new == {<<type, y>> : y \in DOMAIN f}
<1>1. CASE key \in new
  <2>1. PICK x \in DOMAIN f : key = <<type, x>>
    BY <1>1
  <2>2. MPut(r, type, f)[key] = f[key[2]]
    BY <1>1 DEF MPut, Onto
  <2>3. QED  BY <2>1, <2>2
<1>2. CASE key \notin new
  BY <1>2 DEF MPut, Onto
<1>3. QED  BY <1>1, <1>2

(* What fits stays, as Koddi's advertisers do.                             *)
AdvertisersStay ==
    \A k \in DOMAIN advertisers : k \in DOMAIN advertisers' /\ advertisers'[k] = advertisers[k]

LEMMA RedisKoddiStays ==
    ASSUME RedisKoddi, AdvertisersStay,
           redis' = redis \/ \E type, f : type # "KODDI_ADVERTISER" /\ redis' = MPut(redis, type, f)
    PROVE  RedisKoddi'
<1>1. ASSUME NEW key \in DOMAIN redis', key[1] = "KODDI_ADVERTISER"
      PROVE  key \in DOMAIN redis /\ redis'[key] = redis[key]
  <2>1. CASE redis' = redis
    BY <2>1
  <2>2. CASE redis' # redis
    <3>1. PICK type, f : type # "KODDI_ADVERTISER" /\ redis' = MPut(redis, type, f)
      BY <2>2
    <3>2. ~ \E x \in DOMAIN f : key = <<type, x>>
      BY <1>1, <3>1
    <3>3. QED  BY <3>1, <3>2, UnderKey
  <2>3. QED  BY <2>1, <2>2
<1>2. QED  BY <1>1 DEF RedisKoddi, KeptFor, AdvertisersStay

LEMMA RedisKoddiGains ==
    ASSUME RedisKoddi, UNCHANGED advertisers, NEW f, redis' = MPut(redis, "KODDI_ADVERTISER", f),
           \A x \in DOMAIN f : KeptFor(x, f[x])
    PROVE  RedisKoddi'
<1>1. ASSUME NEW key \in DOMAIN redis', key[1] = "KODDI_ADVERTISER"
      PROVE  KeptFor(key[2], redis'[key])
  BY <1>1, UnderKey DEF RedisKoddi
<1>2. QED  BY <1>1 DEF RedisKoddi, KeptFor

(* A request that takes no step keeps what it found.                       *)
LEMMA KoddiOfStays ==
    ASSUME NEW q \in Clients, KoddiOf(q), UNCHANGED <<advertisers, ask>>, koddi'[q] = koddi[q], at'[q] = at[q],
           details'[q] = details[q], met[q] \subseteq met'[q]
    PROVE  KoddiOf(q)'
BY DEF KoddiOf, Fits, KeptFor, OneBrand

(* A request that has nothing to do with Koddi.                            *)
LEMMA NoKoddiOf ==
    ASSUME NEW q \in Clients, at[q] \notin KoddiCalls, koddi[q] # None => Fits(koddi[q], q)
    PROVE  KoddiOf(q)
BY DEF KoddiOf, KoddiCalls

(* One request takes a step, and Koddi's advertisers stay as they are.     *)
LEMMA KoddiOne ==
    ASSUME KoddiInv, NEW q \in Clients, OneGoes(q), UNCHANGED <<ask, met, advertisers>>,
           DOMAIN details' = Clients, DOMAIN koddi' = Clients,
           \A p \in Clients \ {q} : details'[p] = details[p] /\ koddi'[p] = koddi[p],
           RedisKoddi', KoddiOf(q)'
    PROVE  KoddiInv'
<1>1. MetInv'
  BY MetStays DEF KoddiInv
<1>2. KoddiShape' /\ TwinsMet'
  BY DEF KoddiInv, KoddiShape, TwinsMet
<1>3. \A p \in Clients \ {q} : at'[p] = at[p] /\ KoddiOf(p)'
  BY KoddiOfStays DEF KoddiInv, OneGoes
<1>4. QED  BY <1>1, <1>2, <1>3 DEF KoddiInv

LEMMA KoddiElsewhere ==
    ASSUME DirectoryInv', KoddiInv, NEW q \in Clients, OneGoes(q), UNCHANGED <<ask, met>>,
           Elsewhere(q), DOMAIN details' = Clients, ask[q].kind # "koddi"
    PROVE  KoddiInv'
<1>1. at'[q] \notin KoddiCalls
  BY DEF DirectoryInv, WorkOf
<1>2. RedisKoddi' /\ UNCHANGED <<advertisers, koddi>>
  BY RedisKoddiStays DEF Elsewhere, KoddiInv, AdvertisersStay
<1>3. KoddiOf(q)'
  BY <1>1, <1>2 DEF KoddiInv, KoddiOf, Fits, KoddiCalls
<1>4. DOMAIN koddi' = Clients
  BY <1>2 DEF KoddiInv, KoddiShape
<1>5. QED  BY <1>2, <1>3, <1>4, KoddiOne DEF Elsewhere

(* A request for advertisers of Koddi names some.                          *)
LEMMA KoddiAsked ==
    ASSUME DirectoryInv, NEW q \in Clients, ask[q].kind = "koddi"
    PROVE  /\ ask[q].brands \in Seq(Named)
           /\ OneBrand(q) => ToSet(ask[q].brands) = {Brand(q)}
<1>1. ask[q].brands \in Seq(Named)
  BY MixesAssumption DEF DirectoryInv
<1>2. PICK list \in Seq(Named) : list = ask[q].brands
  BY <1>1
<1>3. ASSUME Len(list) = 1 PROVE ToSet(list) = {Head(list)}
  <2>1. DOMAIN list = {1} /\ Head(list) = list[1]
    BY <1>3
  <2>2. QED  BY <2>1 DEF ToSet
<1>4. QED  BY <1>1, <1>2, <1>3 DEF OneBrand, Brand

(* What is read of Redis fits.                                             *)
LEMMA CachedFits ==
    ASSUME DirectoryInv, KoddiInv, NEW q \in Clients, ask[q].kind = "koddi", OneBrand(q),
           NEW k, k = KoddiAdvertiser(redis, Brand(q), ask[q].agency), k # None
    PROVE  Fits(k, q)
<1>1. PICK x : x = <<Brand(q), ask[q].agency>>
  OBVIOUS
<1>2. PICK key : key = <<"KODDI_ADVERTISER", x>>
  OBVIOUS
<1>3. key \in DOMAIN redis /\ k = redis[key]
  BY <1>1, <1>2 DEF KoddiAdvertiser, Get
<1>4. KeptFor(x, k)
  BY <1>2, <1>3 DEF KoddiInv, RedisKoddi
<1>5. ToSet(ask[q].brands) = {Brand(q)}
  BY KoddiAsked
<1>6. QED  BY <1>1, <1>4, <1>5 DEF KeptFor, Fits

LEMMA ReadKoddiFits ==
    ASSUME DirectoryInv, KoddiInv, NEW q \in Clients, ReadKoddi(q), ask[q].kind = "koddi",
           OneGoes(q), UNCHANGED <<ask, met>>
    PROVE  KoddiInv'
<1> USE DEF storeVars
<1>1. PICK k : k = KoddiAdvertiser(redis, Brand(q), ask[q].agency)
  OBVIOUS
<1>2. KoddiShape /\ RedisKoddi /\ KoddiOf(q) /\ LocalShape
  BY DEF KoddiInv, DirectoryInv
<1>3. UNCHANGED <<redis, advertisers, details>>
  BY DEF ReadKoddi
<1>4. CASE OneBrand(q) /\ k # None
  <2>1. koddi' = [koddi EXCEPT ![q] = k] /\ Goto(q, "done")
    BY <1>1, <1>4 DEF ReadKoddi
  <2>2. at'[q] = "done" /\ koddi'[q] = k
    BY <1>2, <2>1 DEF Goto, LocalShape, KoddiShape
  <2>3. Fits(k, q)
    BY <1>1, <1>4, CachedFits
  <2>4. KoddiOf(q)'
    BY <1>3, <2>2, <2>3 DEF KoddiOf, Fits
  <2>5. QED  BY <1>2, <1>3, <2>1, <2>4, KoddiOne DEF KoddiShape, RedisKoddi, KeptFor
<1>5. CASE ~ (OneBrand(q) /\ k # None)
  <2>1. koddi' = koddi /\ Goto(q, IF OneBrand(q) /\ ask[q].agency = None THEN "brands" ELSE "advertiser")
    BY <1>1, <1>5 DEF ReadKoddi
  <2>2. at'[q] = IF OneBrand(q) /\ ask[q].agency = None THEN "brands" ELSE "advertiser"
    BY <1>2, <2>1 DEF Goto, LocalShape
  <2>3. KoddiOf(q)'
    BY <1>2, <1>3, <2>1, <2>2 DEF KoddiOf, Fits, OneBrand
  <2>4. QED  BY <1>2, <1>3, <2>1, <2>3, KoddiOne DEF KoddiShape, RedisKoddi, KeptFor
<1>6. QED  BY <1>4, <1>5

(* A non-empty set of places has a last one.                               *)
LEMMA GreatestPlace ==
    ASSUME NEW n \in Nat, NEW T, T \subseteq 1..n, T # {}
    PROVE  Max(T) \in T
<1> DEFINE Back == {n - x : x \in T}
<1>1. Back \subseteq Nat /\ Back # {}
  <2>1. ASSUME NEW x \in T PROVE n - x \in Nat
    <3>1. x \in 1..n
      OBVIOUS
    <3>2. QED  BY <3>1
  <2>2. PICK x \in T : TRUE
    OBVIOUS
  <2>3. n - x \in Back
    OBVIOUS
  <2>4. QED  BY <2>1, <2>3
<1>2. PICK b \in Back : \A y \in Back : b <= y
  BY <1>1, LeastNatural
<1>3. PICK x \in T : b = n - x
  OBVIOUS
<1>4. \A y \in T : x >= y
  <2> TAKE y \in T
  <2>1. n - x <= n - y
    BY <1>2, <1>3
  <2>2. x \in 1..n /\ y \in 1..n
    OBVIOUS
  <2>3. QED  BY <2>1, <2>2
<1>5. QED  BY <1>4 DEF Max

LEMMA ListKoddiFits ==
    ASSUME DirectoryInv, KoddiInv, NEW q \in Clients, ListKoddi(q), ask[q].kind = "koddi",
           OneGoes(q), UNCHANGED <<ask, met>>
    PROVE  KoddiInv'
<1> USE DEF storeVars
<1> DEFINE all == WithBrands(ask[q].brands)
           of(g) == {k \in all : advertisers[k].agency = g}
           new == [x \in {<<Brand(q), advertisers[k].agency>> : k \in all} |-> Max(of(x[2]))]
<1>1. KoddiShape /\ RedisKoddi /\ KoddiOf(q) /\ LocalShape
  BY DEF KoddiInv, DirectoryInv
<1>2. /\ at[q] = "brands" /\ UNCHANGED <<redis, advertisers, koddi>> /\ Goto(q, "keep brands")
      /\ details' = [details EXCEPT ![q] = new]
  BY DEF ListKoddi
<1>3. OneBrand(q) /\ ask[q].agency = None /\ ToSet(ask[q].brands) = {Brand(q)}
  BY <1>1, <1>2, KoddiAsked DEF KoddiOf
<1>4. PICK n \in Nat : DOMAIN advertisers = 1..n
  <2>1. PICK s \in Seq(ToSet(advertisers)) : s = advertisers
    BY <1>1 DEF KoddiShape
  <2>2. DOMAIN s = 1..Len(s) /\ Len(s) \in Nat
    OBVIOUS
  <2>3. QED  BY <2>1, <2>2
<1>5. ASSUME NEW x \in DOMAIN new
      PROVE  KeptFor(x, new[x])
  <2>1. PICK k \in all : x = <<Brand(q), advertisers[k].agency>>
    OBVIOUS
  <2>2. k \in of(x[2]) /\ x[1] = Brand(q) /\ of(x[2]) \subseteq 1..n
    BY <1>4, <2>1 DEF WithBrands
  <2>3. PICK T : T = of(x[2])
    OBVIOUS
  <2>4. Max(T) \in T
    BY <1>4, <2>2, <2>3, GreatestPlace
  <2>5. new[x] = Max(T)
    BY <2>3
  <2>6. QED  BY <1>3, <2>2, <2>3, <2>4, <2>5 DEF KeptFor, WithBrands
<1>6. PICK kept : kept = new
  OBVIOUS
<1>7. at'[q] = "keep brands" /\ details'[q] = kept
  BY <1>1, <1>2, <1>6 DEF Goto, LocalShape, KoddiShape
<1>8. KoddiOf(q)'
  <2>1. \A x \in DOMAIN kept : KeptFor(x, kept[x])'
    BY <1>2, <1>5, <1>6 DEF KeptFor
  <2>2. koddi'[q] # None => Fits(koddi[q], q)'
    BY <1>1, <1>2 DEF KoddiOf, Fits
  <2>3. OneBrand(q)' /\ ask'[q].agency = None
    BY <1>3 DEF OneBrand
  <2>4. QED  BY <1>7, <2>1, <2>2, <2>3 DEF KoddiOf, KeptFor
<1>9. QED  BY <1>1, <1>2, <1>8, KoddiOne DEF KoddiShape, RedisKoddi, KeptFor

LEMMA KeepBrandsFits ==
    ASSUME DirectoryInv, KoddiInv, NEW q \in Clients, KeepBrands(q), ask[q].kind = "koddi",
           OneGoes(q), UNCHANGED <<ask, met>>
    PROVE  KoddiInv'
<1> USE DEF localVars
<1>1. KoddiShape /\ RedisKoddi /\ KoddiOf(q) /\ LocalShape
  BY DEF KoddiInv, DirectoryInv
<1>2. /\ at[q] = "keep brands" /\ UNCHANGED <<advertisers, koddi, details>> /\ Goto(q, "koddi again")
      /\ redis' = MPut(redis, "KODDI_ADVERTISER", details[q])
  BY DEF KeepBrands, SetKoddiAdvertisers
<1>3. \A x \in DOMAIN details[q] : KeptFor(x, details[q][x])
  BY <1>1, <1>2 DEF KoddiOf
<1>4. RedisKoddi'
  BY <1>1, <1>2, <1>3, RedisKoddiGains
<1>5. at'[q] = "koddi again"
  BY <1>1, <1>2 DEF Goto, LocalShape
<1>6. KoddiOf(q)'
  BY <1>1, <1>2, <1>5 DEF KoddiOf, Fits, OneBrand
<1>7. QED  BY <1>1, <1>2, <1>4, <1>6, KoddiOne DEF KoddiShape

LEMMA ReadKoddiAgainFits ==
    ASSUME DirectoryInv, KoddiInv, NEW q \in Clients, ReadKoddiAgain(q), ask[q].kind = "koddi",
           OneGoes(q), UNCHANGED <<ask, met>>
    PROVE  KoddiInv'
<1> USE DEF storeVars
<1>1. KoddiShape /\ RedisKoddi /\ KoddiOf(q) /\ LocalShape
  BY DEF KoddiInv, DirectoryInv
<1>2. /\ at[q] = "koddi again" /\ UNCHANGED <<redis, advertisers>> /\ Goto(q, "done")
      /\ details' = [details EXCEPT ![q] = NoMemory]
  BY DEF ReadKoddiAgain, Forget
<1>3. OneBrand(q) /\ ask[q].agency = None
  BY <1>1, <1>2 DEF KoddiOf
<1>4. PICK k : k = KoddiAdvertiser(redis, Brand(q), ask[q].agency)
  OBVIOUS
<1>5. koddi' = [koddi EXCEPT ![q] = k]
  BY <1>3, <1>4 DEF ReadKoddiAgain
<1>6. at'[q] = "done" /\ koddi'[q] = k
  BY <1>1, <1>2, <1>5 DEF Goto, LocalShape, KoddiShape
<1>7. k # None => Fits(k, q)
  BY <1>3, <1>4, CachedFits
<1>8. KoddiOf(q)'
  BY <1>2, <1>6, <1>7 DEF KoddiOf, Fits
<1>9. QED  BY <1>1, <1>2, <1>5, <1>8, KoddiOne DEF KoddiShape, RedisKoddi, KeptFor

(* A non-empty set of naturals has a least one.                            *)
LEMMA LeastPlace ==
    ASSUME NEW T, T \subseteq Nat, T # {}
    PROVE  Min(T) \in T
BY LeastNatural DEF Min

(* What is found fits, and when nothing is found nothing does.             *)
LEMMA FoundFits ==
    ASSUME KoddiShape, NEW q \in Clients, NEW k, k = Found(q)
    PROVE  IF k = None THEN \A j \in DOMAIN advertisers : ~ Fits(j, q) ELSE Fits(k, q)
<1> DEFINE mine == {j \in WithBrands(ask[q].brands) : advertisers[j].agency = ask[q].agency}
<1>1. DOMAIN advertisers \subseteq Nat
  <2>1. PICK s \in Seq(ToSet(advertisers)) : s = advertisers
    BY DEF KoddiShape
  <2>2. DOMAIN s \subseteq Nat
    OBVIOUS
  <2>3. QED  BY <2>1, <2>2
<1>2. mine \subseteq DOMAIN advertisers /\ \A j \in mine : Fits(j, q)
  BY DEF WithBrands, Fits
<1>3. \A j \in DOMAIN advertisers : Fits(j, q) => j \in mine
  BY DEF WithBrands, Fits
<1>4. k = IF mine = {} THEN None ELSE Min(mine)
  BY DEF Found
<1>5. CASE mine = {}
  BY <1>3, <1>4, <1>5
<1>6. CASE mine # {}
  <2>1. k \in mine
    BY <1>1, <1>2, <1>4, <1>6, LeastPlace
  <2>2. k # None
    BY <1>1, <1>2, <2>1, ListsAssumption
  <2>3. QED  BY <1>2, <2>1, <2>2
<1>7. QED  BY <1>5, <1>6

LEMMA FindAdvertiserFits ==
    ASSUME DirectoryInv, KoddiInv, NEW q \in Clients, FindAdvertiser(q), ask[q].kind = "koddi",
           OneGoes(q), UNCHANGED <<ask, met>>
    PROVE  KoddiInv'
<1> USE DEF storeVars
<1>1. KoddiShape /\ RedisKoddi /\ KoddiOf(q) /\ LocalShape
  BY DEF KoddiInv, DirectoryInv
<1>2. PICK k : k = Found(q)
  OBVIOUS
<1>3. PICK s : s = IF k = None THEN "lock" ELSE IF OneBrand(q) THEN "keep" ELSE "done"
  OBVIOUS
<1>4. /\ UNCHANGED <<redis, advertisers, details>> /\ Goto(q, s) /\ koddi' = [koddi EXCEPT ![q] = k]
  BY <1>2, <1>3 DEF FindAdvertiser
<1>5. IF k = None THEN \A j \in DOMAIN advertisers : ~ Fits(j, q) ELSE Fits(k, q)
  BY <1>1, <1>2, FoundFits
<1>6. (s = "lock" /\ k = None) \/ (s = "keep" /\ OneBrand(q) /\ k # None) \/ (s = "done" /\ k # None)
  BY <1>3
<1>7. at'[q] = s /\ koddi'[q] = k
  BY <1>1, <1>4, <1>6 DEF Goto, LocalShape, KoddiShape
<1>8. KoddiOf(q)'
  <2>1. koddi'[q] # None => Fits(koddi[q], q)'
    BY <1>4, <1>5, <1>7 DEF Fits
  <2>2. s = "lock" => \A j \in DOMAIN advertisers' : ~ Fits(j, q)'
    BY <1>4, <1>5, <1>6 DEF Fits
  <2>3. OneBrand(q)' = OneBrand(q)
    BY DEF OneBrand
  <2>4. QED  BY <1>4, <1>6, <1>7, <2>1, <2>2, <2>3 DEF KoddiOf
<1>9. QED  BY <1>1, <1>4, <1>8, KoddiOne DEF KoddiShape, RedisKoddi, KeptFor

LEMMA LockCreationFits ==
    ASSUME DirectoryInv, KoddiInv, NEW q \in Clients, LockCreation(q), ask[q].kind = "koddi",
           OneGoes(q), UNCHANGED <<ask, met>>
    PROVE  KoddiInv'
<1> USE DEF storeVars, localVars
<1>1. KoddiShape /\ RedisKoddi /\ KoddiOf(q) /\ LocalShape
  BY DEF KoddiInv, DirectoryInv
<1>2. /\ at[q] = "lock" /\ UNCHANGED <<redis, advertisers, koddi, details>>
      /\ \E s \in {"create", "create unlocked"} : Goto(q, s)
  BY DEF LockCreation
<1>3. at'[q] \in {"create", "create unlocked"}
  BY <1>1, <1>2 DEF Goto, LocalShape
<1>4. \A k \in DOMAIN advertisers : Fits(k, q) => advertisers[k].by \in met[q]
  BY <1>1, <1>2 DEF KoddiOf
<1>5. KoddiOf(q)'
  BY <1>1, <1>2, <1>3, <1>4 DEF KoddiOf, Fits
<1>6. QED  BY <1>1, <1>2, <1>5, KoddiOne DEF KoddiShape, RedisKoddi, KeptFor

LEMMA KeepKoddiFits ==
    ASSUME DirectoryInv, KoddiInv, NEW q \in Clients, KeepKoddi(q), ask[q].kind = "koddi",
           OneGoes(q), UNCHANGED <<ask, met>>
    PROVE  KoddiInv'
<1> USE DEF localVars
<1>1. KoddiShape /\ RedisKoddi /\ KoddiOf(q) /\ LocalShape
  BY DEF KoddiInv, DirectoryInv
<1>2. PICK f : f = [x \in {<<Brand(q), ask[q].agency>>} |-> koddi[q]]
  OBVIOUS
<1>3. /\ at[q] = "keep" /\ UNCHANGED <<advertisers, koddi, details>> /\ Goto(q, "done")
      /\ redis' = MPut(redis, "KODDI_ADVERTISER", f)
  BY <1>2 DEF KeepKoddi, SetKoddiAdvertisers
<1>4. Fits(koddi[q], q) /\ ToSet(ask[q].brands) = {Brand(q)}
  BY <1>1, <1>3, KoddiAsked DEF KoddiOf
<1>5. \A x \in DOMAIN f : KeptFor(x, f[x])
  BY <1>2, <1>4 DEF Fits, KeptFor
<1>6. RedisKoddi'
  BY <1>1, <1>3, <1>5, RedisKoddiGains
<1>7. at'[q] = "done"
  BY <1>1, <1>3 DEF Goto, LocalShape
<1>8. KoddiOf(q)'
  BY <1>1, <1>3, <1>7 DEF KoddiOf, Fits
<1>9. QED  BY <1>1, <1>3, <1>6, <1>8, KoddiOne DEF KoddiShape

(* A sequence is one of what is in it.                                     *)
LEMMA OfItsOwn ==
    ASSUME NEW S, NEW s \in Seq(S)
    PROVE  s \in Seq(ToSet(s))
<1>1. Len(s) \in Nat /\ s \in [1..Len(s) -> S]
  OBVIOUS
<1>2. \A i \in 1..Len(s) : s[i] \in ToSet(s)
  BY <1>1 DEF ToSet
<1>3. s \in [1..Len(s) -> ToSet(s)]
  BY <1>1, <1>2
<1>4. QED  BY <1>1, <1>3

LEMMA Appended ==
    ASSUME NEW s, s \in Seq(ToSet(s)), NEW r
    PROVE  /\ Append(s, r) \in Seq(ToSet(Append(s, r)))
           /\ \E n \in Nat : /\ n = Len(s) /\ DOMAIN s = 1..n /\ DOMAIN Append(s, r) = 1..(n + 1)
                             /\ \A i \in 1..n : Append(s, r)[i] = s[i]
                             /\ Append(s, r)[n + 1] = r
<1>1. PICK S : S = ToSet(s) \cup {r}
  OBVIOUS
<1>2. s \in Seq(S) /\ r \in S
  <2>1. Len(s) \in Nat /\ s \in [1..Len(s) -> ToSet(s)]
    OBVIOUS
  <2>2. s \in [1..Len(s) -> S]
    BY <1>1, <2>1
  <2>3. QED  BY <1>1, <2>1, <2>2
<1>3. Append(s, r) \in Seq(S)
  BY <1>2
<1>4. Append(s, r) \in Seq(ToSet(Append(s, r)))
  BY <1>3, OfItsOwn
<1>5. PICK n \in Nat : n = Len(s)
  BY <1>2
<1>6. /\ DOMAIN s = 1..n /\ DOMAIN Append(s, r) = 1..(n + 1)
      /\ \A i \in 1..n : Append(s, r)[i] = s[i]
      /\ Append(s, r)[n + 1] = r
  BY <1>2, <1>5
<1>7. QED  BY <1>4, <1>5, <1>6

(* Who creates an advertiser has met all who run at that time.             *)
LEMMA CreateFits ==
    ASSUME DirectoryInv, KoddiInv, NEW q \in Clients, Create(q), ask[q].kind = "koddi",
           OneGoes(q), UNCHANGED <<ask, met>>
    PROVE  KoddiInv'
<1> USE DEF storeVars
<1>1. KoddiShape /\ RedisKoddi /\ KoddiOf(q) /\ LocalShape /\ MetInv /\ TwinsMet
  BY DEF KoddiInv, DirectoryInv
<1>2. PICK r : r = [brands |-> ToSet(ask[q].brands), agency |-> ask[q].agency, by |-> q]
  OBVIOUS
<1>3. /\ at[q] \in {"create", "create unlocked"} /\ UNCHANGED <<redis, details>>
      /\ advertisers' = Append(advertisers, r)
  BY <1>2 DEF Create
<1>4. /\ advertisers' \in Seq(ToSet(advertisers'))
      /\ \E n \in Nat : /\ n = Len(advertisers) /\ DOMAIN advertisers = 1..n /\ DOMAIN advertisers' = 1..(n + 1)
                        /\ \A i \in 1..n : advertisers'[i] = advertisers[i]
                        /\ advertisers'[n + 1] = r
  <2>1. PICK s : s = advertisers /\ s \in Seq(ToSet(s))
    BY <1>1 DEF KoddiShape
  <2>2. PICK t : t = Append(s, r)
    OBVIOUS
  <2>3. /\ t \in Seq(ToSet(t))
        /\ \E n \in Nat : /\ n = Len(s) /\ DOMAIN s = 1..n /\ DOMAIN t = 1..(n + 1)
                          /\ \A i \in 1..n : t[i] = s[i]
                          /\ t[n + 1] = r
    BY <2>1, <2>2, Appended
  <2>4. advertisers' = t
    BY <1>3, <2>1, <2>2
  <2>5. QED  BY <2>1, <2>3, <2>4
<1>5. PICK n \in Nat : /\ DOMAIN advertisers = 1..n /\ DOMAIN advertisers' = 1..(n + 1)
                       /\ \A i \in 1..n : advertisers'[i] = advertisers[i]
                       /\ advertisers'[n + 1] = r
  BY <1>4
<1>6. /\ AdvertisersStay /\ n + 1 \in DOMAIN advertisers'
      /\ \A k \in DOMAIN advertisers' : k \in DOMAIN advertisers \/ k = n + 1
  BY <1>5 DEF AdvertisersStay
<1>7. r.brands = ToSet(ask[q].brands) /\ r.agency = ask[q].agency /\ r.by = q
  BY <1>2
<1>8. MetInv' /\ RedisKoddi'
  BY <1>1, <1>3, <1>6, MetStays, RedisKoddiStays
<1>9. \/ UNCHANGED koddi /\ Goto(q, "failed")
      \/ koddi' = [koddi EXCEPT ![q] = n + 1] /\ Goto(q, IF OneBrand(q) THEN "keep" ELSE "done")
  <2>1. Len(advertisers') = n + 1
    BY <1>4, <1>5
  <2>2. QED  BY <2>1 DEF Create
<1>10. KoddiShape'
  <2>1. \A k \in DOMAIN advertisers' : advertisers'[k].by \in Clients \cup {None}
    BY <1>1, <1>5, <1>6, <1>7 DEF KoddiShape
  <2>2. DOMAIN koddi' = Clients /\ DOMAIN details' = Clients
    BY <1>1, <1>3, <1>9 DEF KoddiShape
  <2>3. QED  BY <1>4, <2>1, <2>2 DEF KoddiShape
<1>11. KoddiOf(q)'
  <2>1. CASE UNCHANGED koddi /\ Goto(q, "failed")
    <3>1. at'[q] = "failed"
      BY <1>1, <2>1 DEF Goto, LocalShape
    <3>2. koddi'[q] # None => Fits(koddi[q], q)'
      BY <1>1, <1>6, <2>1 DEF KoddiOf, Fits, AdvertisersStay
    <3>3. QED  BY <3>1, <3>2 DEF KoddiOf
  <2>2. CASE koddi' = [koddi EXCEPT ![q] = n + 1] /\ Goto(q, IF OneBrand(q) THEN "keep" ELSE "done")
    <3>1. koddi'[q] = n + 1 /\ at'[q] = IF OneBrand(q) THEN "keep" ELSE "done"
      BY <1>1, <2>2 DEF Goto, LocalShape, KoddiShape
    <3>2. Fits(n + 1, q)'
      BY <1>5, <1>6, <1>7 DEF Fits
    <3>3. n + 1 # None
      BY ListsAssumption
    <3>4. OneBrand(q)' = OneBrand(q)
      BY DEF OneBrand
    <3>5. Fits(koddi[q], q)'
      BY <3>1, <3>2 DEF Fits
    <3>6. QED  BY <3>1, <3>3, <3>4, <3>5 DEF KoddiOf
  <2>3. QED  BY <1>9, <2>1, <2>2
<1>12. ASSUME NEW p \in Clients \ {q}
       PROVE  KoddiOf(p)'
  <2>1. at'[p] = at[p] /\ koddi'[p] = koddi[p] /\ details'[p] = details[p] /\ KoddiOf(p)
    BY <1>1, <1>3, <1>9 DEF OneGoes, KoddiShape, KoddiInv
  <2>2. koddi'[p] # None => Fits(koddi[p], p)'
    BY <1>6, <2>1 DEF KoddiOf, Fits, AdvertisersStay
  <2>3. at[p] = "keep brands" => \A x \in DOMAIN details[p] : KeptFor(x, details[p][x])'
    BY <1>6, <2>1 DEF KoddiOf, KeptFor, AdvertisersStay
  <2>4. ASSUME at[p] \in {"lock", "create", "create unlocked"}, NEW k \in DOMAIN advertisers', Fits(k, p)'
        PROVE  advertisers'[k].by \in met[p]
    <3>1. CASE k \in DOMAIN advertisers
      <4>1. advertisers'[k] = advertisers[k] /\ Fits(k, p)
        BY <1>6, <2>4, <3>1 DEF AdvertisersStay, Fits
      <4>2. QED  BY <2>1, <2>4, <3>1, <4>1 DEF KoddiOf
    <3>2. CASE k = n + 1
      <4>1. ask[p].kind = "koddi" /\ {at[p], at[q]} \cap Over = {}
        BY <1>3, <2>4 DEF DirectoryInv, WorkOf, KoddiCalls, Over
      <4>2. q \in met[p]
        BY <1>1, <4>1 DEF MetInv
      <4>3. QED  BY <1>5, <1>7, <3>2, <4>2
    <3>3. QED  BY <1>6, <3>1, <3>2
  <2>5. OneBrand(p)' = OneBrand(p)
    BY DEF OneBrand
  <2>6. QED  BY <2>1, <2>2, <2>3, <2>4, <2>5 DEF KoddiOf, KeptFor
<1>13. TwinsMet'
  <2>1. SUFFICES ASSUME NEW j \in DOMAIN advertisers', NEW k \in DOMAIN advertisers', j < k,
                        advertisers'[j].brands = advertisers'[k].brands,
                        advertisers'[j].agency = advertisers'[k].agency
                 PROVE  advertisers'[k].by # None /\ advertisers'[j].by \in met'[advertisers'[k].by]
    BY DEF TwinsMet
  <2>2. j \in 1..n
    BY <1>5, <2>1
  <2>3. CASE k \in 1..n
    BY <1>1, <1>5, <2>1, <2>2, <2>3 DEF TwinsMet
  <2>4. CASE k = n + 1
    <3>1. advertisers'[k].by = q /\ q # None
      BY <1>5, <1>7, <2>4, KoddiAssumption
    <3>2. Fits(j, q) /\ advertisers'[j] = advertisers[j]
      BY <1>5, <1>7, <2>1, <2>2, <2>4 DEF Fits
    <3>3. advertisers[j].by \in met[q]
      BY <1>1, <1>3, <1>5, <2>2, <3>2 DEF KoddiOf
    <3>4. QED  BY <3>1, <3>2, <3>3
  <2>5. QED  BY <1>5, <2>3, <2>4
<1>14. QED  BY <1>8, <1>10, <1>11, <1>12, <1>13 DEF KoddiInv

LEMMA KoddiStepFits ==
    ASSUME DirectoryInv, KoddiInv, NEW q \in Clients, KoddiStep(q)
    PROVE  KoddiInv'
<1>1. OneGoes(q) /\ UNCHANGED <<ask, met>> /\ ask[q].kind = "koddi"
  BY KoddiStepGoes
<1>2. QED
  BY <1>1, ReadKoddiFits, ListKoddiFits, KeepBrandsFits, ReadKoddiAgainFits, FindAdvertiserFits,
     LockCreationFits, CreateFits, KeepKoddiFits DEF KoddiStep

LEMMA BeginFits ==
    ASSUME DirectoryInv, DirectoryInv', KoddiInv, NEW q \in Clients, Begin(q)
    PROVE  KoddiInv'
<1> USE DEF storeVars
<1>1. MetInv' /\ \A p \in Clients : met[p] \subseteq met'[p]
  BY BeginMeets DEF KoddiInv
<1>2. UNCHANGED <<redis, advertisers, ask, details, koddi>> /\ KoddiShape /\ RedisKoddi /\ TwinsMet
  BY DEF Begin, KoddiInv
<1>3. at'[q] \in {"list", "corporate", "koddi", "placement"} /\ \A p \in Clients \ {q} : at'[p] = at[p]
  <2>1. ask[q].kind \in {"contacts", "addresses", "advertisers", "campaign", "koddi", "placements"}
    BY DEF Begin, FirstCall
  <2>2. PICK s : s = FirstCall[ask[q].kind]
    OBVIOUS
  <2>3. s \in {"list", "corporate", "koddi", "placement"}
    BY <2>1, <2>2 DEF FirstCall
  <2>4. Goto(q, s)
    BY <2>2 DEF Begin, Enter
  <2>5. QED  BY <2>3, <2>4 DEF Goto, DirectoryInv, LocalShape
<1>4. KoddiOf(q)'
  BY <1>2, <1>3 DEF KoddiInv, KoddiOf, Fits
<1>5. \A p \in Clients \ {q} : KoddiOf(p)'
  BY <1>1, <1>2, <1>3, KoddiOfStays DEF KoddiInv
<1>6. TwinsMet'
  <2>1. SUFFICES ASSUME NEW j \in DOMAIN advertisers, NEW k \in DOMAIN advertisers, j < k,
                        advertisers[j].brands = advertisers[k].brands,
                        advertisers[j].agency = advertisers[k].agency
                 PROVE  advertisers[k].by # None /\ advertisers[j].by \in met'[advertisers[k].by]
    BY <1>2 DEF TwinsMet
  <2>2. advertisers[k].by # None /\ advertisers[j].by \in met[advertisers[k].by]
    BY <1>2, <2>1 DEF TwinsMet
  <2>3. advertisers[k].by \in Clients
    BY <1>2, <2>2 DEF KoddiShape
  <2>4. QED  BY <1>1, <2>2, <2>3
<1>7. KoddiShape' /\ RedisKoddi'
  BY <1>2 DEF KoddiShape, RedisKoddi, KeptFor
<1>8. QED  BY <1>1, <1>4, <1>5, <1>6, <1>7 DEF KoddiInv

LEMMA FailReportFits ==
    ASSUME DirectoryInv, KoddiInv, NEW q \in Clients, FailReport(q)
    PROVE  KoddiInv'
<1>1. OneGoes(q) /\ UNCHANGED <<ask, met>>
  BY FailReportGoes
<1>2. /\ Goto(q, "failed") /\ UNCHANGED <<redis, advertisers, koddi>>
      /\ details' = [details EXCEPT ![q] = NoMemory]
  BY DEF FailReport, Fail, Forget, storeVars
<1>3. KoddiShape /\ RedisKoddi /\ KoddiOf(q)
  BY DEF KoddiInv
<1>4. at'[q] = "failed"
  BY <1>2 DEF Goto, DirectoryInv, LocalShape
<1>5. KoddiOf(q)'
  BY <1>1, <1>2, <1>3, <1>4 DEF KoddiOf, Fits
<1>6. QED  BY <1>1, <1>2, <1>3, <1>5, KoddiOne DEF KoddiShape, RedisKoddi, KeptFor

LEMMA KoddiUntouched ==
    ASSUME KoddiInv, UNCHANGED <<advertisers, koddi, ask, at, details, met>>, RedisKoddi'
    PROVE  KoddiInv'
<1>1. \A q \in Clients : KoddiOf(q)'
  BY KoddiOfStays DEF KoddiInv
<1>2. QED  BY <1>1 DEF KoddiInv, MetInv, KoddiShape, TwinsMet

LEMMA KoddiInvNext ==
    ASSUME DirectoryInv, DirectoryInv', KoddiInv, [Next]_vars
    PROVE  KoddiInv'
<1> USE DEF storeVars, localVars
<1>1. DOMAIN details = Clients
  BY DEF KoddiInv, KoddiShape
<1>2. CASE \E q \in Clients : ReportStep(q)
  <2>1. PICK q \in Clients : ReportStep(q)
    BY <1>2
  <2>2. OneGoes(q) /\ UNCHANGED <<ask, met>> /\ ask[q].kind # "koddi"
    BY <2>1, ReportStepGoes
  <2>3. QED  BY <1>1, <2>1, <2>2, ReportStepElsewhere, KoddiElsewhere
<1>3. CASE \E q \in Clients : DirectoryStep(q)
  <2>1. PICK q \in Clients : Begin(q) \/ ListStep(q) \/ KoddiStep(q)
    BY <1>3 DEF DirectoryStep, ListStep, KoddiStep
  <2>2. ListStep(q) => KoddiInv'
    BY <1>1, ListStepGoes, ListStepElsewhere, KoddiElsewhere
  <2>3. QED  BY <2>1, <2>2, BeginFits, KoddiStepFits
<1>4. CASE \E q \in Clients : FailReport(q)
  BY <1>4, FailReportFits
<1>5. CASE LookupFilled
  <2>1. PICK s, l : redis' = Put(redis, "CAMPAIGN", s, l)
    BY <1>5 DEF LookupFilled
  <2>2. UNCHANGED <<advertisers, koddi, ask, at, details, met>>
    BY <1>5 DEF LookupFilled
  <2>3. \E type, f : type # "KODDI_ADVERTISER" /\ redis' = MPut(redis, type, f)
    BY <2>1, PutIsMPut
  <2>4. RedisKoddi'
    BY <2>2, <2>3, RedisKoddiStays DEF KoddiInv, AdvertisersStay
  <2>5. QED  BY <2>2, <2>4, KoddiUntouched
<1>6. ASSUME UNCHANGED <<redis, advertisers, koddi, ask, at, details, met>> PROVE KoddiInv'
  <2>1. RedisKoddi'
    BY <1>6 DEF KoddiInv, RedisKoddi, KeptFor
  <2>2. QED  BY <1>6, <2>1, KoddiUntouched
<1>7. CASE LeaseRunsOut
  BY <1>6, <1>7 DEF LeaseRunsOut
<1>8. CASE Partner
  BY <1>6, <1>8 DEF Partner, dirVars
<1>9. CASE UNCHANGED vars
  BY <1>6, <1>9 DEF vars, dirVars
<1>10. QED  BY <1>2, <1>3, <1>4, <1>5, <1>7, <1>8, <1>9 DEF Next

LEMMA KoddiInvInit == ReportInit => KoddiInv
<1> SUFFICES ASSUME ReportInit PROVE KoddiInv
  OBVIOUS
<1> USE DEF ReportInit, DirectoryInit
<1>1. MetInv
  BY DEF MetInv, Over
<1>2. KoddiShape /\ TwinsMet
  <2>1. \A k \in DOMAIN advertisers : k \in Nat
    <3>1. PICK s \in Seq(ToSet(KoddiBefore)) : s = KoddiBefore
      BY KoddiAssumption
    <3>2. \A k \in DOMAIN s : k \in Nat
      OBVIOUS
    <3>3. QED  BY <3>1, <3>2
  <2>2. QED  BY <2>1, KoddiAssumption DEF KoddiShape, TwinsMet
<1>3. RedisKoddi
  BY DEF RedisKoddi
<1>4. \A q \in Clients : KoddiOf(q)
  BY DEF KoddiOf
<1>5. QED  BY <1>1, <1>2, <1>3, <1>4 DEF KoddiInv

(* What a request or Redis keeps of Koddi's advertisers fits, and two that *)
(* are alike were created by requests that met.                            *)
THEOREM KoddiInvHolds == Spec => []KoddiInv
<1>1. ReportInit => KoddiInv
  BY KoddiInvInit
<1>2. DirectoryInv /\ DirectoryInv' /\ KoddiInv /\ [Next]_vars => KoddiInv'
  BY KoddiInvNext
<1>3. QED  BY <1>1, <1>2, DirectoryInvHolds, PTL DEF Spec

(* Koddi has one advertiser for the brands of an agency, the one the       *)
(* client is answered with, unless two requests that ran together both     *)
(* found none. [koddi_sso_gateway.py:86, advertiser_service.py:148]        *)
THEOREM AdvertisersAreOne == Spec => []OneAdvertiserEach
<1>1. KoddiInv => OneAdvertiserEach
  <2> SUFFICES ASSUME KoddiInv PROVE OneAdvertiserEach
    OBVIOUS
  <2>1. \A q \in Clients : koddi[q] # None => Fits(koddi[q], q)
    BY DEF KoddiInv, KoddiOf
  <2>2. QED  BY <2>1 DEF OneAdvertiserEach, KoddiInv, TwinsMet, Fits
<1>2. QED  BY <1>1, KoddiInvHolds, PTL
-----------------------------------------------------------------------------
(* What Redis keeps of campaigns and ad groups: under the Koddi id of one  *)
(* its long id, under its long id its short id.  Campaigns also have their *)
(* Koddi id and their long id under their short id, and numbers are        *)
(* numbers: under CAMPAIGN:KODDI both kinds may meet.                      *)
Leads(t, x, v) ==
    /\ t = "CAMPAIGN:KODDI" =>
          \E e \in Of("CAMPAIGN") : (e.koddi = x /\ v = e.long) \/ (e.short = x /\ v = e.koddi)
    /\ t = "CAMPAIGN" =>
          \E e \in Of("CAMPAIGN") : (e.long = x /\ v = e.short) \/ (e.short = x /\ v = e.long)
    /\ t = "AD_GROUP:KODDI" => \E e \in Of("AD_GROUP") : e.koddi = x /\ v = e.long
    /\ t = "AD_GROUP" => \E e \in Of("AD_GROUP") : e.long = x /\ v = e.short

RedisEntities == \A key \in DOMAIN redis : Leads(key[1], key[2], redis[key])

RowTypes == {"AD_GROUP", "CAMPAIGN"}
KoddiKey(t) == IF t = "CAMPAIGN" THEN "CAMPAIGN:KODDI" ELSE "AD_GROUP:KODDI"

(* The calls of a report that translate its rows.                          *)
Filling == {"keep longs", "keep shorts", "translate"}
Translating == {"shorts", "fetch"} \cup Filling
RowCalls == {"longs"} \cup Translating

LongOk(t, k, l) == l = None \/ Leads(KoddiKey(t), k, l)
Own(t, k, s) == \E e \in Of(t) : e.koddi = k /\ e.short = s
ShortOk(t, k, s) == s = None \/ Own(t, k, s)
Fetched(t, k, g) == \E e \in Of(t) : e.koddi = k /\ g = Both(e.long, e.short)

(* What was missing has been fetched, and the rest is what was read.       *)
Filled(t, k, c, g) ==
    \/ Fetched(t, k, g)
    \/ g = c /\ ShortOk(t, k, g.short) /\ (t = "CAMPAIGN" => g.short # None)

(* The rows of a report are of things Koddi has an id for, and stage by    *)
(* stage what is put under their ids is their own.                         *)
RowsOf(q) ==
    /\ doing[q] \in RowTypes
    /\ \A t \in RowTypes : rows[q][t] \subseteq {e.koddi : e \in Of(t)}
    /\ at[q] \notin {"fetch", "failed"} \cup Filling => cached[q] = Nothing
    /\ DOMAIN cached[q] \in {{}, DOMAIN group[q]}
    /\ at[q] \in Translating => DOMAIN group[q] \subseteq {e.koddi : e \in Of(doing[q])}
    /\ at[q] = "shorts" => \A k \in DOMAIN group[q] : LongOk(doing[q], k, group[q][k].long)
    /\ at[q] = "fetch" => /\ cached[q] = group[q]
                          /\ \A k \in DOMAIN group[q] : ShortOk(doing[q], k, group[q][k].short)
    /\ at[q] \in Filling => /\ DOMAIN cached[q] = DOMAIN group[q]
                            /\ \A k \in DOMAIN group[q] : Filled(doing[q], k, cached[q][k], group[q][k])
    /\ DOMAIN told[q] = RowTypes
    /\ \A k \in DOMAIN told[q]["AD_GROUP"] : ShortOk("AD_GROUP", k, told[q]["AD_GROUP"][k])
    /\ \A k \in DOMAIN told[q]["CAMPAIGN"] : Own("CAMPAIGN", k, told[q]["CAMPAIGN"][k])

(* The short ids in scope of one of Koddi's advertisers are of its brands. *)
InScope(k, i) ==
    /\ k \in DOMAIN advertisers /\ i \in DOMAIN owner["ADVERTISER"]
    /\ owner["ADVERTISER"][i] \in advertisers[k].brands

ScopeOf(q) ==
    /\ at[q] = "advertisers" => \A b \in ask[q].brands : b \in DOMAIN ids[q] /\ ids[q][b] # None
    /\ at[q] = "scope" => \A i \in DOMAIN details[q] : Names("ADVERTISER", i, details[q][i].id)
    /\ \A k \in DOMAIN scope[q] : \A i \in scope[q][k] : InScope(k, i)

(* The Koddi ids in the filter are those of the campaigns named, but for   *)
(* the ones that remain to be looked for.                                  *)
Clear(q) == ask[q].campaigns # << >> /\ \A s \in ToSet(ask[q].campaigns) : ~ Confused(s)

FilterOf(q) ==
    /\ at[q] = "keep filter" =>
          \A s \in DOMAIN details[q] : \E e \in Of("CAMPAIGN") : e.short = s /\ details[q][s] = e.koddi
    /\ at[q] = "search" => todo[q] \in Seq(Nat) /\ ToSet(todo[q]) \subseteq ToSet(ask[q].campaigns)
    /\ at[q] \in {"search", "keep filter", "send"} \cup RowCalls /\ Clear(q) =>
          \/ filter[q] = KoddiIds(ToSet(ask[q].campaigns)) \ KoddiIds(ToSet(todo[q]))
          \/ at[q] # "search" /\ filter[q] = KoddiIds(ToSet(ask[q].campaigns))

RowsShape ==
    /\ partnered \subseteq Entities
    /\ DOMAIN scope = Clients /\ DOMAIN filter = Clients /\ DOMAIN rows = Clients /\ DOMAIN doing = Clients
    /\ DOMAIN cached = Clients /\ DOMAIN group = Clients /\ DOMAIN told = Clients

RowsInv ==
    /\ RowsShape /\ RedisEntities
    /\ \A q \in Clients : RowsOf(q) /\ ScopeOf(q) /\ FilterOf(q)
-----------------------------------------------------------------------------
(* What Koddi has an id for keeps it, and what leads somewhere goes on to. *)
LEMMA LeadsStay ==
    ASSUME partnered \subseteq partnered', NEW t, NEW x, NEW v, Leads(t, x, v)
    PROVE  Leads(t, x, v)'
BY DEF Leads, Of

LEMMA OwnStays ==
    ASSUME partnered \subseteq partnered', NEW t, NEW k, NEW s
    PROVE  /\ Own(t, k, s) => Own(t, k, s)'
           /\ ShortOk(t, k, s) => ShortOk(t, k, s)'
           /\ LongOk(t, k, s) => LongOk(t, k, s)'
           /\ Fetched(t, k, s) => Fetched(t, k, s)'
<1>1. Of(t) \subseteq Of(t)'
  BY DEF Of
<1>2. LongOk(t, k, s) => LongOk(t, k, s)'
  BY LeadsStay DEF LongOk
<1>3. QED  BY <1>1, <1>2 DEF Own, ShortOk, Fetched

LEMMA FilledStays ==
    ASSUME partnered \subseteq partnered', NEW t, NEW k, NEW c, NEW g, Filled(t, k, c, g)
    PROVE  Filled(t, k, c, g)'
<1>1. PICK s : s = g.short
  OBVIOUS
<1>2. ShortOk(t, k, s) => ShortOk(t, k, s)'
  BY OwnStays
<1>3. Fetched(t, k, g) => Fetched(t, k, g)'
  BY OwnStays
<1>4. QED  BY <1>1, <1>2, <1>3 DEF Filled

LEMMA EntitiesStay ==
    ASSUME RedisEntities, partnered \subseteq partnered', redis' = redis
    PROVE  RedisEntities'
<1>1. ASSUME NEW key \in DOMAIN redis PROVE Leads(key[1], key[2], redis[key])'
  <2>1. PICK t, x, v : t = key[1] /\ x = key[2] /\ v = redis[key]
    OBVIOUS
  <2>2. Leads(t, x, v)'
    BY <2>1, LeadsStay DEF RedisEntities
  <2>3. QED  BY <2>1, <2>2
<1>2. QED  BY <1>1 DEF RedisEntities

(* Redis goes on leading where it should when what is written does.        *)
LEMMA EntitiesGain ==
    ASSUME RedisEntities, partnered' = partnered, NEW type, NEW f, redis' = MPut(redis, type, f),
           \A x \in DOMAIN f : Leads(type, x, f[x])
    PROVE  RedisEntities'
<1>1. ASSUME NEW key \in DOMAIN redis' PROVE Leads(key[1], key[2], redis'[key])
  <2>1. CASE \E x \in DOMAIN f : key = <<type, x>> /\ redis'[key] = f[x]
    <3>1. PICK x \in DOMAIN f : key = <<type, x>> /\ redis'[key] = f[x]
      BY <2>1
    <3>2. key[1] = type /\ key[2] = x
      BY <3>1
    <3>3. QED  BY <3>1, <3>2
  <2>2. CASE key \in DOMAIN redis /\ redis'[key] = redis[key]
    BY <2>2 DEF RedisEntities
  <2>3. QED  BY <2>1, <2>2, UnderKey
<1>2. ASSUME NEW t, NEW x, NEW v, Leads(t, x, v) PROVE Leads(t, x, v)'
  BY <1>2, LeadsStay
<1>3. ASSUME NEW key \in DOMAIN redis' PROVE Leads(key[1], key[2], redis[key])'
  <2>1. PICK t, x, v : t = key[1] /\ x = key[2] /\ v = redis'[key]
    OBVIOUS
  <2>2. Leads(t, x, v)'
    BY <1>1, <1>2, <2>1
  <2>3. QED  BY <2>1, <2>2
<1>4. QED  BY <1>3 DEF RedisEntities

(* What is read leads where it should.                                     *)
LEMMA WhatIsRead ==
    ASSUME RedisEntities, NEW t, NEW xs, NEW x \in xs
    PROVE  MGet(redis, t, xs)[x] = None \/ Leads(t, x, MGet(redis, t, xs)[x])
<1>1. CASE <<t, x>> \in DOMAIN redis
  <2>1. PICK key : key = <<t, x>>
    OBVIOUS
  <2>2. Leads(key[1], key[2], redis[key]) /\ key[1] = t /\ key[2] = x
    BY <1>1, <2>1 DEF RedisEntities
  <2>3. QED  BY <1>1, <2>1, <2>2 DEF MGet, Get
<1>2. QED  BY <1>1 DEF MGet, Get
-----------------------------------------------------------------------------
(* A request that takes no step has what it had.                           *)
Same(q) ==
    /\ at'[q] = at[q] /\ ids'[q] = ids[q] /\ details'[q] = details[q] /\ todo'[q] = todo[q]
    /\ scope'[q] = scope[q] /\ filter'[q] = filter[q] /\ rows'[q] = rows[q] /\ doing'[q] = doing[q]
    /\ cached'[q] = cached[q] /\ group'[q] = group[q] /\ told'[q] = told[q]

LEMMA RowsOfStay ==
    ASSUME NEW q, RowsOf(q), Same(q), partnered \subseteq partnered'
    PROVE  RowsOf(q)'
<1>1. PICK d, g, c : d = doing[q] /\ g = group[q] /\ c = cached[q]
  OBVIOUS
<1>2. \A t : {e.koddi : e \in Of(t)} \subseteq {e.koddi : e \in Of(t)'}
  BY DEF Of
<1>3. at[q] = "shorts" => \A k \in DOMAIN g : LongOk(d, k, g[k].long)'
  BY <1>1, OwnStays DEF RowsOf
<1>4. at[q] = "fetch" => \A k \in DOMAIN g : ShortOk(d, k, g[k].short)'
  BY <1>1, OwnStays DEF RowsOf
<1>5. at[q] \in Filling => \A k \in DOMAIN g : Filled(d, k, c[k], g[k])'
  BY <1>1, FilledStays DEF RowsOf
<1>6. \A k \in DOMAIN told[q]["AD_GROUP"] : ShortOk("AD_GROUP", k, told[q]["AD_GROUP"][k])'
  <2> TAKE k \in DOMAIN told[q]["AD_GROUP"]
  <2>1. PICK s : s = told[q]["AD_GROUP"][k]
    OBVIOUS
  <2>2. told'[q] = told[q]
    BY DEF Same
  <2>3. ShortOk("AD_GROUP", k, s)'
    BY <2>1, OwnStays DEF RowsOf
  <2>4. QED  BY <2>1, <2>2, <2>3
<1>7. \A k \in DOMAIN told[q]["CAMPAIGN"] : Own("CAMPAIGN", k, told[q]["CAMPAIGN"][k])'
  <2> TAKE k \in DOMAIN told[q]["CAMPAIGN"]
  <2>1. PICK s : s = told[q]["CAMPAIGN"][k]
    OBVIOUS
  <2>2. told'[q] = told[q]
    BY DEF Same
  <2>3. Own("CAMPAIGN", k, s)'
    BY <2>1, OwnStays DEF RowsOf
  <2>4. QED  BY <2>1, <2>2, <2>3
<1>8. QED  BY <1>1, <1>2, <1>3, <1>4, <1>5, <1>6, <1>7 DEF RowsOf, Same

LEMMA InScopeStays ==
    ASSUME Grows, AdvertisersStay, NEW k, NEW i, InScope(k, i)
    PROVE  InScope(k, i)'
BY DEF InScope, Grows, AdvertisersStay, Types

LEMMA ScopeOfStays ==
    ASSUME NEW q, ScopeOf(q), Same(q), ask' = ask, Grows, AdvertisersStay
    PROVE  ScopeOf(q)'
<1>1. PICK d, m : d = details[q] /\ m = scope[q]
  OBVIOUS
<1>2. "ADVERTISER" \in Types
  BY DEF Types
<1>3. at[q] = "scope" => \A i \in DOMAIN d : Names("ADVERTISER", i, d[i].id)'
  BY <1>1, <1>2, NamesStay DEF ScopeOf
<1>4. \A k \in DOMAIN m : \A i \in m[k] : InScope(k, i)'
  BY <1>1, InScopeStays DEF ScopeOf
<1>5. QED  BY <1>1, <1>3, <1>4 DEF ScopeOf, Same

LEMMA FilterOfStays ==
    ASSUME NEW q, FilterOf(q), Same(q), ask' = ask, partnered \subseteq partnered'
    PROVE  FilterOf(q)'
<1>1. Of("CAMPAIGN") \subseteq Of("CAMPAIGN")'
  BY DEF Of
<1>2. PICK d : d = details[q]
  OBVIOUS
<1>3. at[q] = "keep filter" =>
          \A s \in DOMAIN d : \E e \in Of("CAMPAIGN")' : e.short = s /\ d[s] = e.koddi
  BY <1>1, <1>2 DEF FilterOf
<1>4. d = details'[q] /\ UNCHANGED Clear(q)
  BY <1>2 DEF Same, Clear, Confused
<1>5. QED  BY <1>3, <1>4 DEF FilterOf, Same, KoddiIds

(* One request takes a step, and the others have what they had.            *)
LEMMA RowsOne ==
    ASSUME RowsInv, NEW q \in Clients, ask' = ask, partnered \subseteq partnered', Grows, AdvertisersStay,
           RowsShape', RedisEntities', \A p \in Clients \ {q} : Same(p),
           RowsOf(q)', ScopeOf(q)', FilterOf(q)'
    PROVE  RowsInv'
<1>1. ASSUME NEW p \in Clients, p # q PROVE (RowsOf(p) /\ ScopeOf(p) /\ FilterOf(p))'
  BY <1>1, RowsOfStay, ScopeOfStays, FilterOfStays DEF RowsInv
<1>2. QED  BY <1>1 DEF RowsInv
-----------------------------------------------------------------------------
(* What the directory writes is of other types.                            *)
LEMMA DirectoryWrites ==
    ASSUME NEW q, DirectoryStep(q)
    PROVE  redis' = redis \/ \E type \in Types \cup {"KODDI_ADVERTISER"} : \E f : redis' = MPut(redis, type, f)
<1> DEFINE T == Types \cup {"KODDI_ADVERTISER"}
<1> USE DEF storeVars, localVars
<1>1. ASSUME NEW t \in T, NEW x, NEW v, redis' = Put(redis, t, x, v)
      PROVE  \E type \in T : \E f : redis' = MPut(redis, type, f)
  BY <1>1, PutIsMPut
<1>2. CASE AssignBatch(q) \/ SaveContacts(q) \/ SaveAdvertisers(q) \/ SaveAddresses(q)
  BY <1>2 DEF Types, AssignBatch, SaveContacts, SaveAdvertisers, SaveAddresses, SetContactIds,
     SetAdvertiserIds, SetContactDetails, SetAdvertiserDetails, SetAddressDetails
<1>3. CASE CacheCorporate(q) \/ AssignAddress(q) \/ AssignPlacement(q) \/ NamePlacement(q) \/ DetailPlacement(q)
  <2>1. redis' = redis \/ \E t \in T : \E x, v : redis' = Put(redis, t, x, v)
    BY <1>3 DEF Types, CacheCorporate, AssignAddress, AssignPlacement, NamePlacement, DetailPlacement,
       SetCorporate, SetPlacementName, SetPlacementDetails
  <2>2. QED  BY <1>1, <2>1
<1>4. CASE KeepBrands(q) \/ KeepKoddi(q)
  BY <1>4 DEF KeepBrands, KeepKoddi, SetKoddiAdvertisers
<1>5. CASE Begin(q) \/ List(q) \/ ReadDetails(q) \/ ReadPlacement(q) \/ ReadKoddi(q) \/ ListKoddi(q) \/ ReadKoddiAgain(q)
           \/ FindAdvertiser(q) \/ LockCreation(q) \/ Create(q)
  BY <1>5 DEF Begin, List, ReadDetails, ReadPlacement, ReadKoddi, ListKoddi, ReadKoddiAgain, FindAdvertiser,
     LockCreation, Create
<1>6. QED  BY <1>2, <1>3, <1>4, <1>5 DEF DirectoryStep

LEMMA DirectoryLeads ==
    ASSUME RedisEntities, partnered' = partnered, NEW q, DirectoryStep(q)
    PROVE  RedisEntities'
<1>1. CASE redis' = redis
  BY <1>1, EntitiesStay
<1>2. ASSUME NEW type \in Types \cup {"KODDI_ADVERTISER"}, NEW f, redis' = MPut(redis, type, f)
      PROVE  RedisEntities'
  <2>1. \A x \in DOMAIN f : Leads(type, x, f[x])
    BY DEF Leads, Types
  <2>2. QED  BY <1>2, <2>1, EntitiesGain
<1>3. QED  BY <1>1, <1>2, DirectoryWrites

(* Ids are only given, and advertisers only added.                         *)
LEMMA AssignGrows ==
    ASSUME DirectoryInv, NEW t \in Types, NEW names \in Seq(Named), Assign(t, names)
    PROVE  Grows
<1>1. PICK new : new = Assigned(names, NextId(t))
  OBVIOUS
<1>2. QED  BY <1>1, AssignedNames DEF DirectoryInv

LEMMA OwnerOnlyGrows ==
    ASSUME DirectoryInv, NEW q \in Clients, DirectoryStep(q)
    PROVE  Grows
<1> USE DEF storeVars
<1>1. CASE AssignBatch(q)
  <2>1. ask[q].kind \in ListKinds
    BY <1>1 DEF AssignBatch, DirectoryInv, WorkOf, ListCalls
  <2>2. \E t \in Types : Assign(t, Missing(q))
    BY <1>1 DEF AssignBatch, Types
  <2>3. QED  BY <2>1, <2>2, MissingProps, AssignGrows
<1>2. CASE AssignAddress(q)
  <2>1. ask[q].kind \in ListKinds
    BY <1>2 DEF AssignAddress, DirectoryInv, WorkOf, ListCalls
  <2>2. CASE Missing(q) = << >>
    BY <1>2, <2>2 DEF AssignAddress, Grows
  <2>3. CASE Missing(q) # << >>
    <3>1. Head(Missing(q)) \in Named
      BY <2>1, <2>3, MissingProps
    <3>2. <<Head(Missing(q))>> \in Seq(Named)
      BY <3>1
    <3>3. Assign("ADDRESS", <<Head(Missing(q))>>) /\ "ADDRESS" \in Types
      BY <1>2, <2>3 DEF AssignAddress, Types
    <3>4. QED  BY <3>2, <3>3, AssignGrows
  <2>4. QED  BY <2>2, <2>3
<1>3. CASE AssignPlacement(q)
  <2>1. Head(todo[q]) \in Named
    BY <1>3, HeadPlacement DEF AssignPlacement, PlacementCalls
  <2>2. <<Head(todo[q])>> \in Seq(Named)
    BY <2>1
  <2>3. Assign("PLACEMENT", <<Head(todo[q])>>) /\ "PLACEMENT" \in Types
    BY <1>3 DEF AssignPlacement, Types
  <2>4. QED  BY <2>2, <2>3, AssignGrows
<1>4. CASE owner' = owner
  BY <1>4, OwnerGrows
<1>5. ~ (AssignBatch(q) \/ AssignAddress(q) \/ AssignPlacement(q)) => owner' = owner
  BY DEF DirectoryStep, Begin, List, ReadDetails, SaveContacts, SaveAdvertisers, CacheCorporate, SaveAddresses,
     ReadPlacement, NamePlacement, DetailPlacement, ReadKoddi, ListKoddi, KeepBrands, ReadKoddiAgain,
     FindAdvertiser, LockCreation, Create, KeepKoddi
<1>6. QED  BY <1>1, <1>2, <1>3, <1>4, <1>5

LEMMA AdvertisersOnlyAdded ==
    ASSUME KoddiInv, NEW q \in Clients, DirectoryStep(q)
    PROVE  AdvertisersStay
<1> USE DEF storeVars
<1>1. CASE Create(q)
  <2>1. PICK s, r : /\ s = advertisers /\ s \in Seq(ToSet(s)) /\ advertisers' = Append(s, r)
    BY <1>1 DEF Create, KoddiInv, KoddiShape
  <2>2. PICK n \in Nat : /\ DOMAIN s = 1..n /\ DOMAIN Append(s, r) = 1..(n + 1)
                         /\ \A i \in 1..n : Append(s, r)[i] = s[i]
    BY <2>1, Appended
  <2>3. QED  BY <2>1, <2>2 DEF AdvertisersStay
<1>2. CASE advertisers' = advertisers
  BY <1>2 DEF AdvertisersStay
<1>3. ~ Create(q) => advertisers' = advertisers
  BY DEF DirectoryStep, Begin, List, AssignBatch, ReadDetails, SaveContacts, SaveAdvertisers, CacheCorporate,
     AssignAddress, SaveAddresses, ReadPlacement, AssignPlacement, NamePlacement, DetailPlacement, ReadKoddi,
     ListKoddi, KeepBrands, ReadKoddiAgain, FindAdvertiser, LockCreation, KeepKoddi
<1>4. QED  BY <1>1, <1>2, <1>3

(* A request of another kind goes about it.                                *)
LEMMA Apart ==
    ASSUME RowsInv, NEW q \in Clients, at[q] \notin ReportCalls \cup {"failed"}, at'[q] \notin ReportCalls,
           ask' = ask, UNCHANGED reportVars, Grows, AdvertisersStay, RedisEntities',
           \A p \in Clients \ {q} : /\ at'[p] = at[p] /\ ids'[p] = ids[p] /\ details'[p] = details[p]
                                    /\ todo'[p] = todo[p]
    PROVE  RowsInv'
<1> USE DEF reportVars
<1>1. \A p \in Clients \ {q} : Same(p)
  BY DEF Same
<1>2. at[q] \notin {"fetch", "failed"} \cup Filling /\ at'[q] \notin {"fetch"} \cup Filling \cup Translating
  BY DEF ReportCalls, Filling, Translating
<1>3. RowsOf(q)
  BY DEF RowsInv
<1>4. RowsOf(q)'
  <2>1. PICK m : m = told[q]
    OBVIOUS
  <2>2. /\ \A k \in DOMAIN m["AD_GROUP"] : ShortOk("AD_GROUP", k, m["AD_GROUP"][k])'
        /\ \A k \in DOMAIN m["CAMPAIGN"] : Own("CAMPAIGN", k, m["CAMPAIGN"][k])'
    BY <1>3, <2>1 DEF RowsOf, ShortOk, Own, Of
  <2>3. {e.koddi : e \in Of("AD_GROUP")}' = {e.koddi : e \in Of("AD_GROUP")}
    BY DEF Of
  <2>4. \A t \in RowTypes : rows[q][t] \subseteq {e.koddi : e \in Of(t)'}
    BY <1>3 DEF RowsOf, Of
  <2>5. QED  BY <1>2, <1>3, <2>1, <2>2, <2>4 DEF RowsOf, Translating, Filling
<1>5. ScopeOf(q)'
  <2>1. PICK m : m = scope[q]
    OBVIOUS
  <2>2. \A k \in DOMAIN m : \A i \in m[k] : InScope(k, i)'
    BY <2>1, InScopeStays DEF RowsInv, ScopeOf
  <2>3. QED  BY <2>1, <2>2 DEF ScopeOf, ReportCalls
<1>6. FilterOf(q)'
  BY DEF FilterOf, ReportCalls, RowCalls, Translating, Filling
<1>7. RowsShape'
  BY DEF RowsInv, RowsShape
<1>8. QED  BY <1>1, <1>4, <1>5, <1>6, <1>7, RowsOne DEF RowsInv
-----------------------------------------------------------------------------
(* Requests of other kinds make calls of their own.                        *)
LEMMA DirectoryStepBy ==
    ASSUME DirectoryInv, NEW q \in Clients, DirectoryStep(q)
    PROVE  ask[q].kind # "report" /\ at[q] \notin ReportCalls \cup {"failed"} /\ ask' = ask
<1>1. at[q] \in {"idle"} \cup ListCalls \cup PlacementCalls \cup KoddiCalls /\ ask' = ask
  BY DEF DirectoryStep, Begin, Enter, List, AssignBatch, ReadDetails, SaveContacts, SaveAdvertisers, CacheCorporate,
     AssignAddress, SaveAddresses, ReadPlacement, AssignPlacement, NamePlacement, DetailPlacement, ReadKoddi,
     ListKoddi, KeepBrands, ReadKoddiAgain, FindAdvertiser, LockCreation, Create, KeepKoddi,
     ListCalls, PlacementCalls, KoddiCalls
<1>2. at[q] = "idle" => Begin(q)
  BY DEF DirectoryStep, Begin, Enter, List, AssignBatch, ReadDetails, SaveContacts, SaveAdvertisers, CacheCorporate,
     AssignAddress, SaveAddresses, ReadPlacement, AssignPlacement, NamePlacement, DetailPlacement, ReadKoddi,
     ListKoddi, KeepBrands, ReadKoddiAgain, FindAdvertiser, LockCreation, Create, KeepKoddi
<1>3. Begin(q) => ask[q].kind # "report"
  BY DEF Begin, FirstCall
<1>4. at[q] \in ListCalls \cup PlacementCalls \cup KoddiCalls => ask[q].kind # "report"
  BY DEF DirectoryInv, WorkOf, ListKinds
<1>5. QED  BY <1>1, <1>2, <1>3, <1>4 DEF ListCalls, PlacementCalls, KoddiCalls, ReportCalls

LEMMA DirectoryStepAlone ==
    ASSUME DirectoryInv, DOMAIN details = Clients, NEW q \in Clients, DirectoryStep(q), NEW p \in Clients \ {q}
    PROVE  at'[p] = at[p] /\ ids'[p] = ids[p] /\ details'[p] = details[p] /\ todo'[p] = todo[p]
<1> USE DEF localVars
<1>1. DOMAIN at = Clients /\ DOMAIN ids = Clients /\ DOMAIN todo = Clients
  BY DEF DirectoryInv, LocalShape
<1>2. at'[p] = at[p]
  BY <1>1 DEF DirectoryStep, Begin, Enter, List, AssignBatch, ReadDetails, SaveContacts, SaveAdvertisers, CacheCorporate,
     AssignAddress, SaveAddresses, ReadPlacement, AssignPlacement, NamePlacement, DetailPlacement, ReadKoddi,
     ListKoddi, KeepBrands, ReadKoddiAgain, FindAdvertiser, LockCreation, Create, KeepKoddi, Goto, NextList
<1>3. ids'[p] = ids[p]
  BY <1>1 DEF DirectoryStep, Begin, List, AssignBatch, ReadDetails, SaveContacts, SaveAdvertisers, CacheCorporate,
     AssignAddress, SaveAddresses, ReadPlacement, AssignPlacement, NamePlacement, DetailPlacement, ReadKoddi,
     ListKoddi, KeepBrands, ReadKoddiAgain, FindAdvertiser, LockCreation, Create, KeepKoddi, NextList, Forget
<1>4. details'[p] = details[p]
  BY DEF DirectoryStep, Begin, List, AssignBatch, ReadDetails, SaveContacts, SaveAdvertisers, CacheCorporate,
     AssignAddress, SaveAddresses, ReadPlacement, AssignPlacement, NamePlacement, DetailPlacement, ReadKoddi,
     ListKoddi, KeepBrands, ReadKoddiAgain, FindAdvertiser, LockCreation, Create, KeepKoddi, NextList, Forget
<1>5. todo'[p] = todo[p]
  BY <1>1 DEF DirectoryStep, Begin, List, AssignBatch, ReadDetails, SaveContacts, SaveAdvertisers, CacheCorporate,
     AssignAddress, SaveAddresses, ReadPlacement, AssignPlacement, NamePlacement, DetailPlacement, ReadKoddi,
     ListKoddi, KeepBrands, ReadKoddiAgain, FindAdvertiser, LockCreation, Create, KeepKoddi, NextList, Forget
<1>6. QED  BY <1>2, <1>3, <1>4, <1>5

LEMMA DirectoryStepRows ==
    ASSUME DirectoryInv, DirectoryInv', KoddiInv, RowsInv, NEW q \in Clients, DirectoryStep(q), UNCHANGED reportVars
    PROVE  RowsInv'
<1>1. ask[q].kind # "report" /\ at[q] \notin ReportCalls \cup {"failed"} /\ ask' = ask
  BY DirectoryStepBy
<1>2. at'[q] \notin ReportCalls
  BY <1>1 DEF DirectoryInv, WorkOf
<1>3. partnered' = partnered
  BY DEF reportVars
<1>4. Grows /\ AdvertisersStay /\ RedisEntities'
  BY <1>3, OwnerOnlyGrows, AdvertisersOnlyAdded, DirectoryLeads DEF RowsInv
<1>5. DOMAIN details = Clients
  BY DEF KoddiInv, KoddiShape
<1>6. QED  BY <1>1, <1>2, <1>4, <1>5, DirectoryStepAlone, Apart

(* Koddi's ids, and the look-ups of others.                                *)
LEMMA AllSame ==
    ASSUME RowsInv, ask' = ask, partnered \subseteq partnered', Grows, AdvertisersStay, RowsShape', RedisEntities',
           \A p \in Clients : Same(p)
    PROVE  RowsInv'
<1>1. ASSUME NEW p \in Clients PROVE (RowsOf(p) /\ ScopeOf(p) /\ FilterOf(p))'
  BY <1>1, RowsOfStay, ScopeOfStays, FilterOfStays DEF RowsInv
<1>2. QED  BY <1>1 DEF RowsInv

LEMMA UntouchedRows ==
    ASSUME RowsInv, UNCHANGED <<owner, advertisers, ask, at, ids, details, todo, scope, filter, rows, doing,
                                cached, group, told>>,
           partnered \subseteq partnered', partnered' \subseteq Entities, RedisEntities'
    PROVE  RowsInv'
<1>1. Grows /\ AdvertisersStay
  BY OwnerGrows DEF AdvertisersStay
<1>2. \A p \in Clients : Same(p)
  BY DEF Same
<1>3. RowsShape'
  BY DEF RowsInv, RowsShape
<1>4. QED  BY <1>1, <1>2, <1>3, AllSame

LEMMA PartnerRows ==
    ASSUME RowsInv, Partner
    PROVE  RowsInv'
<1>1. partnered \subseteq partnered' /\ partnered' \subseteq Entities
  BY DEF Partner, RowsInv, RowsShape
<1>2. UNCHANGED <<redis, owner, advertisers, ask, at, ids, details, todo, scope, filter, rows, doing, cached, group, told>>
  BY DEF Partner, dirVars, storeVars, localVars
<1>3. RedisEntities'
  BY <1>1, <1>2, EntitiesStay DEF RowsInv
<1>4. QED  BY <1>1, <1>2, <1>3, UntouchedRows

LEMMA LookupFilledRows ==
    ASSUME RowsInv, LookupFilled
    PROVE  RowsInv'
<1>1. UNCHANGED <<partnered, owner, advertisers, ask, at, ids, details, todo, scope, filter, rows, doing, cached, group, told>>
  BY DEF LookupFilled, localVars, reportVars
<1>2. PICK e \in Of("CAMPAIGN") : redis' = Put(redis, "CAMPAIGN", e.short, e.long)
  BY DEF LookupFilled
<1>3. PICK f : f = [y \in {e.short} |-> e.long]
  OBVIOUS
<1>4. redis' = MPut(redis, "CAMPAIGN", f)
  BY <1>2, <1>3, PutIsMPut
<1>5. \A x \in DOMAIN f : Leads("CAMPAIGN", x, f[x])
  BY <1>2, <1>3 DEF Leads
<1>6. RedisEntities'
  BY <1>1, <1>4, <1>5, EntitiesGain DEF RowsInv
<1>7. QED  BY <1>1, <1>6, UntouchedRows DEF RowsInv, RowsShape

LEMMA LeaseRows ==
    ASSUME RowsInv, LeaseRunsOut \/ UNCHANGED dirVars, UNCHANGED reportVars
    PROVE  RowsInv'
<1>1. UNCHANGED <<redis, partnered, owner, advertisers, ask, at, ids, details, todo, scope, filter, rows, doing,
                  cached, group, told>>
  BY DEF LeaseRunsOut, dirVars, localVars, storeVars, reportVars
<1>2. RedisEntities'
  BY <1>1, EntitiesStay DEF RowsInv
<1>3. QED  BY <1>1, <1>2, UntouchedRows DEF RowsInv, RowsShape

(* A report that fails has nothing any more.                               *)
LEMMA FailReportRows ==
    ASSUME DirectoryInv, KoddiInv, RowsInv, NEW q \in Clients, FailReport(q)
    PROVE  RowsInv'
<1> USE DEF storeVars, NoMemory, Nothing
<1>1. /\ UNCHANGED <<redis, owner, advertisers, ask, partnered>> /\ Goto(q, "failed")
      /\ todo' = [todo EXCEPT ![q] = << >>] /\ ids' = [ids EXCEPT ![q] = NoMemory]
      /\ details' = [details EXCEPT ![q] = NoMemory]
  BY DEF FailReport, Fail, Forget
<1>2. /\ DOMAIN at = Clients /\ DOMAIN ids = Clients /\ DOMAIN todo = Clients /\ DOMAIN details = Clients
      /\ RowsShape
  BY DEF DirectoryInv, LocalShape, KoddiInv, KoddiShape, RowsInv
<1>3. \A p \in Clients \ {q} : Same(p)
  BY <1>1, <1>2 DEF Same, FailReport, Goto, RowsShape
<1>4. /\ at'[q] = "failed" /\ cached'[q] = Nothing /\ group'[q] = Nothing /\ told'[q] = Untold
      /\ rows'[q] = NoRows /\ doing'[q] = "AD_GROUP" /\ scope'[q] = Nothing
  BY <1>1, <1>2 DEF FailReport, Goto, RowsShape
<1>5. RowsOf(q)'
  BY <1>4 DEF RowsOf, Translating, Filling, RowTypes, Untold, NoRows
<1>6. ScopeOf(q)' /\ FilterOf(q)'
  BY <1>4 DEF ScopeOf, FilterOf, RowCalls, Translating, Filling
<1>7. RedisEntities' /\ Grows /\ AdvertisersStay
  BY <1>1, EntitiesStay, OwnerGrows DEF RowsInv, AdvertisersStay
<1>8. RowsShape'
  BY <1>1, <1>2 DEF FailReport, RowsShape
<1>9. QED  BY <1>1, <1>3, <1>5, <1>6, <1>7, <1>8, RowsOne DEF RowsInv
-----------------------------------------------------------------------------
(* A step of a report is its own.                                          *)
LEMMA ReportGoes ==
    ASSUME DirectoryInv, KoddiInv, RowsInv, NEW q \in Clients, ReportStep(q)
    PROVE  /\ UNCHANGED <<ask, partnered, owner, advertisers>> /\ Grows /\ AdvertisersStay /\ RowsShape'
           /\ \A p \in Clients \ {q} : Same(p)
<1> USE DEF storeVars, localVars, reportVars, ReportStep
<1>1. UNCHANGED <<ask, partnered, owner, advertisers>>
  BY DEF BeginReport, ReadAdvertisers, BuildScope, ReadFilter, SearchFilter, KeepFilter, Send, ReadLongs, ReadShorts,
     FetchMissing, KeepLongs, KeepShorts, Translate
<1>2. /\ DOMAIN at = Clients /\ DOMAIN ids = Clients /\ DOMAIN todo = Clients /\ DOMAIN details = Clients
      /\ RowsShape
  BY DEF DirectoryInv, LocalShape, KoddiInv, KoddiShape, RowsInv
<1>3. ASSUME NEW p \in Clients \ {q} PROVE Same(p)
  <2> USE DEF RowsShape
  <2>1. at'[p] = at[p]
    BY <1>2 DEF BeginReport, ReadAdvertisers, BuildScope, ReadFilter, SearchFilter, KeepFilter, Send, ReadLongs,
       ReadShorts, FetchMissing, KeepLongs, KeepShorts, Translate, Goto
  <2>2. ids'[p] = ids[p] /\ details'[p] = details[p] /\ todo'[p] = todo[p]
    BY <1>2 DEF BeginReport, ReadAdvertisers, BuildScope, ReadFilter, SearchFilter, KeepFilter, Send, ReadLongs,
       ReadShorts, FetchMissing, KeepLongs, KeepShorts, Translate, Forget
  <2>3. scope'[p] = scope[p] /\ filter'[p] = filter[p] /\ rows'[p] = rows[p] /\ doing'[p] = doing[p]
    BY <1>2 DEF BeginReport, ReadAdvertisers, BuildScope, ReadFilter, SearchFilter, KeepFilter, Send, ReadLongs,
       ReadShorts, FetchMissing, KeepLongs, KeepShorts, Translate
  <2>4. cached'[p] = cached[p] /\ group'[p] = group[p] /\ told'[p] = told[p]
    BY <1>2 DEF BeginReport, ReadAdvertisers, BuildScope, ReadFilter, SearchFilter, KeepFilter, Send, ReadLongs,
       ReadShorts, FetchMissing, KeepLongs, KeepShorts, Translate
  <2>5. QED  BY <2>1, <2>2, <2>3, <2>4 DEF Same
<1>4. RowsShape'
  <2>1. DOMAIN scope' = Clients /\ DOMAIN filter' = Clients /\ DOMAIN rows' = Clients /\ DOMAIN doing' = Clients
    BY <1>2 DEF RowsShape, BeginReport, ReadAdvertisers, BuildScope, ReadFilter, SearchFilter, KeepFilter, Send,
       ReadLongs, ReadShorts, FetchMissing, KeepLongs, KeepShorts, Translate
  <2>2. DOMAIN cached' = Clients /\ DOMAIN group' = Clients /\ DOMAIN told' = Clients
    BY <1>2 DEF RowsShape, BeginReport, ReadAdvertisers, BuildScope, ReadFilter, SearchFilter, KeepFilter, Send,
       ReadLongs, ReadShorts, FetchMissing, KeepLongs, KeepShorts, Translate
  <2>3. QED  BY <1>1, <1>2, <2>1, <2>2 DEF RowsShape
<1>5. QED  BY <1>1, <1>3, <1>4, OwnerGrows DEF AdvertisersStay

LEMMA ReportOne ==
    ASSUME DirectoryInv, KoddiInv, RowsInv, NEW q \in Clients, ReportStep(q),
           redis' = redis \/ RedisEntities', RowsOf(q)', ScopeOf(q)', FilterOf(q)'
    PROVE  RowsInv'
<1>1. RedisEntities'
  BY ReportGoes, EntitiesStay DEF RowsInv
<1>2. QED  BY <1>1, ReportGoes, RowsOne

(* What a step leaves alone goes on to hold.                               *)
LEMMA RowsKept ==
    ASSUME NEW q, RowsOf(q), at[q] \notin {"fetch", "failed"} \cup Filling, at'[q] \notin Translating,
           UNCHANGED partnered, doing'[q] = doing[q], rows'[q] = rows[q], cached'[q] = cached[q],
           group'[q] = group[q], told'[q] = told[q]
    PROVE  RowsOf(q)'
<1>1. PICK m : m = told[q]
  OBVIOUS
<1>2. /\ \A k \in DOMAIN m["AD_GROUP"] : ShortOk("AD_GROUP", k, m["AD_GROUP"][k])'
      /\ \A k \in DOMAIN m["CAMPAIGN"] : Own("CAMPAIGN", k, m["CAMPAIGN"][k])'
  BY <1>1 DEF RowsOf, ShortOk, Own, Of
<1>3. \A t \in RowTypes : rows[q][t] \subseteq {e.koddi : e \in Of(t)'}
  BY DEF RowsOf, Of
<1>4. QED  BY <1>1, <1>2, <1>3 DEF RowsOf, Translating, Filling

LEMMA ScopeKept ==
    ASSUME NEW q, ScopeOf(q), at'[q] \notin {"advertisers", "scope"}, scope'[q] = scope[q], Grows, AdvertisersStay
    PROVE  ScopeOf(q)'
<1>1. PICK m : m = scope[q]
  OBVIOUS
<1>2. \A k \in DOMAIN m : \A i \in m[k] : InScope(k, i)'
  BY <1>1, InScopeStays DEF ScopeOf
<1>3. QED  BY <1>1, <1>2 DEF ScopeOf

LEMMA FilterKept ==
    ASSUME NEW q, FilterOf(q), at[q] \in {"keep filter", "send"} \cup RowCalls,
           at'[q] \notin {"search", "keep filter"}, ask' = ask, todo'[q] = todo[q], filter'[q] = filter[q]
    PROVE  FilterOf(q)'
<1>1. UNCHANGED Clear(q)
  BY DEF Clear, Confused
<1>2. at[q] # "search"
  BY DEF RowCalls, Translating, Filling
<1>3. QED  BY <1>1, <1>2 DEF FilterOf, KoddiIds
-----------------------------------------------------------------------------
(* The request is looked through.                                          *)
LEMMA BeginReportRows ==
    ASSUME DirectoryInv, KoddiInv, RowsInv, NEW q \in Clients, BeginReport(q)
    PROVE  RowsInv'
<1> USE DEF storeVars, reportVars
<1>1. ReportStep(q) /\ RowsOf(q) /\ ScopeOf(q) /\ DOMAIN ids = Clients /\ DOMAIN at = Clients
  BY DEF ReportStep, RowsInv, DirectoryInv, LocalShape
<1>2. at[q] = "idle" /\ UNCHANGED <<redis, partnered, ask, scope, doing, rows, cached, group, told>>
  BY DEF BeginReport
<1>3. at'[q] \in {"failed", "advertisers"}
  BY <1>1 DEF BeginReport, Goto
<1>4. RowsOf(q)'
  BY <1>1, <1>2, <1>3, RowsKept DEF Translating, Filling
<1>5. \A b \in ask[q].brands : b \in DOMAIN ids'[q] /\ ids'[q][b] # None
  BY <1>1 DEF BeginReport, AdvertiserIds, MGet
<1>6. ScopeOf(q)'
  <2>1. PICK m : m = scope[q]
    OBVIOUS
  <2>2. \A k \in DOMAIN m : \A i \in m[k] : InScope(k, i)'
    BY <1>1, <2>1, ReportGoes, InScopeStays DEF ScopeOf
  <2>3. QED  BY <1>2, <1>3, <1>5, <2>1, <2>2 DEF ScopeOf
<1>7. FilterOf(q)'
  BY <1>3 DEF FilterOf, RowCalls, Translating, Filling
<1>8. QED  BY <1>1, <1>2, <1>4, <1>6, <1>7, ReportOne

LEMMA ReadAdvertisersRows ==
    ASSUME DirectoryInv, KoddiInv, RowsInv, NEW q \in Clients, ReadAdvertisers(q)
    PROVE  RowsInv'
<1> USE DEF storeVars, reportVars
<1>1. ReportStep(q) /\ RowsOf(q) /\ ScopeOf(q) /\ DOMAIN details = Clients /\ DOMAIN at = Clients
  BY DEF ReportStep, RowsInv, DirectoryInv, LocalShape, KoddiInv, KoddiShape
<1>2. at[q] = "advertisers" /\ UNCHANGED <<redis, owner, partnered, ask, scope, doing, rows, cached, group, told>>
  BY DEF ReadAdvertisers
<1>3. PICK X : X = {ids[q][b] : b \in ask[q].brands}
  OBVIOUS
<1>4. PICK read : read = MGet(redis, "ADVERTISER", X)
  OBVIOUS
<1>5. details'[q] = read
  BY <1>1, <1>3, <1>4 DEF ReadAdvertisers, AdvertiserDetails
<1>6. at'[q] \in {"failed", "scope"} /\ (at'[q] = "scope" => \A i \in DOMAIN read : read[i] # None)
  BY <1>1, <1>3, <1>4 DEF ReadAdvertisers, AdvertiserDetails, Goto
<1>7. RowsOf(q)'
  BY <1>1, <1>2, <1>6, RowsKept DEF Translating, Filling
<1>8. ASSUME NEW i \in DOMAIN read, read[i] # None
      PROVE  Names("ADVERTISER", i, read[i].id)
  <2>1. PICK b \in ask[q].brands : i = ids[q][b]
    BY <1>3, <1>4 DEF MGet
  <2>2. b \in DOMAIN ids[q] /\ ids[q][b] # None
    BY <1>1, <1>2 DEF ScopeOf
  <2>3. TypeOf(q) = "ADVERTISER"
    BY <1>2 DEF DirectoryInv, WorkOf, ReportCalls, TypeOf
  <2>4. i \in DOMAIN owner["ADVERTISER"] /\ "ADVERTISER" \in Types
    BY <2>1, <2>2, <2>3 DEF DirectoryInv, WorkOf, Names, Types
  <2>5. i \in Nat
    <3>1. owner["ADVERTISER"] \in Seq(Named)
      BY <2>4 DEF DirectoryInv
    <3>2. QED  BY <2>4, <3>1
  <2>6. <<"ADVERTISER", i>> \in DOMAIN redis /\ read[i] = redis[<<"ADVERTISER", i>>]
    BY <1>4, <1>8 DEF MGet, Get
  <2>7. QED  BY <2>4, <2>5, <2>6 DEF DirectoryInv, RedisNames
<1>9. ScopeOf(q)'
  <2>1. PICK m : m = scope[q]
    OBVIOUS
  <2>2. \A k \in DOMAIN m : \A i \in m[k] : InScope(k, i)'
    BY <1>1, <2>1, ReportGoes, InScopeStays DEF ScopeOf
  <2>3. at'[q] = "scope" => \A i \in DOMAIN details'[q] : Names("ADVERTISER", i, details[q][i].id)'
    BY <1>2, <1>5, <1>6, <1>8 DEF Names
  <2>4. QED  BY <1>2, <1>6, <2>1, <2>2, <2>3 DEF ScopeOf
<1>10. FilterOf(q)'
  BY <1>6 DEF FilterOf, RowCalls, Translating, Filling
<1>11. QED  BY <1>1, <1>2, <1>7, <1>9, <1>10, ReportOne

LEMMA BuildScopeRows ==
    ASSUME DirectoryInv, KoddiInv, RowsInv, NEW q \in Clients, BuildScope(q)
    PROVE  RowsInv'
<1> USE DEF storeVars, localVars
<1>1. ReportStep(q) /\ RowsOf(q) /\ ScopeOf(q) /\ DOMAIN scope = Clients /\ DOMAIN at = Clients
  BY DEF ReportStep, RowsInv, RowsShape, DirectoryInv, LocalShape
<1>2. at[q] = "scope" /\ UNCHANGED <<redis, owner, advertisers, partnered, ask, doing, rows, cached, group, told>>
  BY DEF BuildScope
<1>3. at'[q] \in {"send", "filter"} /\ (at'[q] = "send" => ask[q].campaigns = << >>)
  BY <1>1 DEF BuildScope, Goto, FirstFilterCall
<1>4. RowsOf(q)'
  BY <1>1, <1>2, <1>3, RowsKept DEF Translating, Filling
<1>5. ASSUME NEW k \in DOMAIN scope'[q], NEW i \in scope'[q][k]
      PROVE  InScope(k, i)
  <2>1. PICK d : d = details[q]
    OBVIOUS
  <2>2. k \in OfUser(q) /\ \E b \in advertisers[k].brands : i \in DOMAIN d /\ d[i].id = b
    BY <1>1, <1>5, <2>1 DEF BuildScope
  <2>3. Names("ADVERTISER", i, d[i].id)
    BY <1>1, <1>2, <2>1, <2>2 DEF ScopeOf
  <2>4. QED  BY <2>2, <2>3 DEF InScope, Names, OfUser
<1>6. ScopeOf(q)'
  BY <1>2, <1>3, <1>5 DEF ScopeOf, InScope
<1>7. FilterOf(q)'
  BY <1>2, <1>3 DEF FilterOf, Clear, RowCalls, Translating, Filling
<1>8. QED  BY <1>1, <1>2, <1>4, <1>6, <1>7, ReportOne

(* Of campaigns that are not confused, what is found is their Koddi id.    *)
LEMMA KoddiRead ==
    ASSUME RowsInv, NEW s, ~ Confused(s), NEW v, v = Get(redis, "CAMPAIGN:KODDI", s), v # None
    PROVE  \E e \in Entities : e.type = "CAMPAIGN" /\ e.short = s /\ v = e.koddi
<1>1. PICK key : key = <<"CAMPAIGN:KODDI", s>>
  OBVIOUS
<1>2. key \in DOMAIN redis /\ v = redis[key]
  BY <1>1 DEF Get
<1>3. Leads("CAMPAIGN:KODDI", s, v)
  BY <1>1, <1>2 DEF RowsInv, RedisEntities
<1>4. PICK e \in Of("CAMPAIGN") : (e.koddi = s /\ v = e.long) \/ (e.short = s /\ v = e.koddi)
  BY <1>3 DEF Leads
<1>5. e \in Entities /\ e.type = "CAMPAIGN"
  BY DEF Of, RowsInv, RowsShape
<1>6. QED  BY <1>4, <1>5 DEF Confused

(* Koddi ids of campaigns are of one short id each.                        *)
LEMMA KoddiIdsSplit ==
    ASSUME NEW A, NEW B
    PROVE  /\ B \subseteq A => KoddiIds(B) \subseteq KoddiIds(A)
           /\ KoddiIds(A \ B) = KoddiIds(A) \ KoddiIds(B)
<1>1. \A e, f \in Entities : e.type = "CAMPAIGN" /\ f.type = "CAMPAIGN" /\ e.koddi = f.koddi => e = f
  BY EntitiesAssumption
<1>2. \A S, v : v \in KoddiIds(S) <=> \E e \in Entities : e.type = "CAMPAIGN" /\ e.short \in S /\ v = e.koddi
  BY DEF KoddiIds
<1>3. ASSUME NEW v PROVE v \in KoddiIds(A \ B) <=> v \in KoddiIds(A) \ KoddiIds(B)
  BY <1>1, <1>2
<1>4. KoddiIds(A \ B) = KoddiIds(A) \ KoddiIds(B)
  BY <1>3
<1>5. B \subseteq A => KoddiIds(B) \subseteq KoddiIds(A)
  BY <1>2
<1>6. QED  BY <1>4, <1>5

LEMMA CampaignsNamed ==
    ASSUME DirectoryInv, NEW q \in Clients, at[q] \in ReportCalls
    PROVE  ask[q].campaigns \in Seq(Nat)
<1>1. ask[q].kind = "report" /\ ask \in Mixes
  BY DEF DirectoryInv, WorkOf
<1>2. QED  BY <1>1, MixesAssumption

LEMMA ReadFilterRows ==
    ASSUME DirectoryInv, KoddiInv, RowsInv, NEW q \in Clients, ReadFilter(q)
    PROVE  RowsInv'
<1> USE DEF storeVars
<1>1. /\ ReportStep(q) /\ RowsOf(q) /\ ScopeOf(q)
      /\ DOMAIN filter = Clients /\ DOMAIN at = Clients /\ DOMAIN todo = Clients
  BY DEF ReportStep, RowsInv, RowsShape, DirectoryInv, LocalShape
<1>2. at[q] = "filter" /\ UNCHANGED <<redis, partnered, ask, scope, doing, rows, cached, group, told>>
  BY DEF ReadFilter
<1>3. at'[q] \in {"search", "send"}
  BY <1>1 DEF ReadFilter, Goto
<1>4. RowsOf(q)'
  BY <1>1, <1>2, <1>3, RowsKept DEF Translating, Filling
<1>5. ScopeOf(q)'
  BY <1>1, <1>2, <1>3, ReportGoes, ScopeKept
<1>6. PICK campaigns \in Seq(Nat) : campaigns = ask[q].campaigns
  BY <1>2, CampaignsNamed DEF ReportCalls
<1>7. PICK named : named = ToSet(campaigns)
  OBVIOUS
<1>8. PICK read : read = KoddiByShort(redis, named)
  OBVIOUS
<1>9. PICK none : none = {s \in named : read[s] = None}
  OBVIOUS
<1>10. filter'[q] = {read[s] : s \in named} \ {None} /\ todo'[q] = Sift(campaigns, none)
  BY <1>1, <1>6, <1>7, <1>8, <1>9 DEF ReadFilter
<1>11. todo'[q] \in Seq(Nat) /\ ToSet(todo'[q]) = none
  <2>1. ToSet(campaigns) \cap none = none
    BY <1>7, <1>9
  <2>2. PICK t : t = Sift(campaigns, none)
    OBVIOUS
  <2>3. t \in Seq(Nat) /\ ToSet(t) = ToSet(campaigns) \cap none
    BY <2>2, SiftProps
  <2>4. QED  BY <1>10, <2>1, <2>2, <2>3
<1>12. ASSUME \A s \in named : ~ Confused(s)
       PROVE  filter'[q] = KoddiIds(named) \ KoddiIds(none)
  <2>1. \A s \in named \ none :
            \E e \in Entities : e.type = "CAMPAIGN" /\ e.short = s /\ read[s] = e.koddi
    <3> TAKE s \in named \ none
    <3>1. read[s] = Get(redis, "CAMPAIGN:KODDI", s) /\ read[s] # None
      BY <1>8, <1>9 DEF KoddiByShort, MGet
    <3>2. QED  BY <1>12, <3>1, KoddiRead
  <2>2. \A e, f \in Entities : e.type = "CAMPAIGN" /\ f.type = "CAMPAIGN" /\ e.short = f.short => e = f
    BY EntitiesAssumption
  <2>3. filter'[q] = {read[s] : s \in named \ none}
    BY <1>9, <1>10
  <2>4. {read[s] : s \in named \ none} = KoddiIds(named \ none)
    BY <2>1, <2>2 DEF KoddiIds
  <2>5. QED  BY <2>3, <2>4, KoddiIdsSplit
<1>13. FilterOf(q)'
  <2>1. Clear(q)' => \A s \in named : ~ Confused(s)
    BY <1>2, <1>6, <1>7 DEF Clear, Confused
  <2>2. KoddiIds(ToSet(ask[q].campaigns))' = KoddiIds(named) /\ KoddiIds(ToSet(todo[q]))' = KoddiIds(none)
    BY <1>2, <1>6, <1>7, <1>11 DEF KoddiIds
  <2>3. ToSet(todo'[q]) \subseteq ToSet(ask'[q].campaigns)
    BY <1>2, <1>6, <1>7, <1>9, <1>11
  <2>4. at'[q] # "keep filter"
    BY <1>3
  <2>5. QED  BY <1>11, <1>12, <2>1, <2>2, <2>3, <2>4 DEF FilterOf
<1>14. QED  BY <1>1, <1>2, <1>4, <1>5, <1>13, ReportOne

(* If there are as many campaigns as are listed, they are all there.       *)
LEMMA AsManyAsListed ==
    ASSUME NEW s \in Seq(Nat), NEW F, F \subseteq Entities, \A e \in F : e.type = "CAMPAIGN" /\ e.short \in ToSet(s),
           Cardinality(F) = Len(s)
    PROVE  \A x \in ToSet(s) : \E e \in F : e.short = x
<1>1. PICK n \in Nat : n = Len(s) /\ DOMAIN s = 1..n
  OBVIOUS
<1>2. PICK h : h = [e \in F |-> CHOOSE i \in 1..n : s[i] = e.short]
  OBVIOUS
<1>3. ASSUME NEW e \in F PROVE h[e] \in 1..n /\ s[h[e]] = e.short
  <2>1. \E i \in 1..n : s[i] = e.short
    BY <1>1 DEF ToSet
  <2>2. QED  BY <1>2, <2>1
<1>4. ASSUME NEW e \in F, NEW f \in F, h[e] = h[f] PROVE e = f
  BY <1>3, <1>4, EntitiesAssumption
<1>5. h \in Injection(F, 1..n)
  BY <1>2, <1>3, <1>4 DEF Injection, IsInjective
<1>6. IsFiniteSet(1..n) /\ Cardinality(1..n) = n
  <2>1. PICK a \in Int, b \in Int : a = 1 /\ b = n
    OBVIOUS
  <2>2. IsFiniteSet(a..b) /\ Cardinality(a..b) = IF a > b THEN 0 ELSE b - a + 1
    BY FS_Interval
  <2>3. QED  BY <2>1, <2>2
<1>7. h \in Surjection(F, 1..n)
  BY <1>1, <1>5, <1>6, FS_Injection
<1>8. ASSUME NEW x \in ToSet(s) PROVE \E e \in F : e.short = x
  <2>1. PICK i \in 1..n : s[i] = x
    BY <1>1 DEF ToSet
  <2>2. PICK e \in F : h[e] = i
    BY <1>7 DEF Surjection
  <2>3. QED  BY <1>3, <2>1, <2>2
<1>9. QED  BY <1>8

(* What a search that is not refused does with the campaigns it finds.      *)
FilterFilled(q, found) ==
    /\ filter' = [filter EXCEPT ![q] = @ \cup {e.koddi : e \in found}]
    /\ details' = [details EXCEPT ![q] =
          [s \in {e.short : e \in found} |-> (CHOOSE e \in found : e.short = s).koddi]]
    /\ Goto(q, IF found = {} THEN "send" ELSE "keep filter")

LEMMA SearchFilterRows ==
    ASSUME DirectoryInv, KoddiInv, RowsInv, NEW q \in Clients, SearchFilter(q)
    PROVE  RowsInv'
<1> USE DEF storeVars
<1>1. /\ ReportStep(q) /\ RowsOf(q) /\ ScopeOf(q) /\ FilterOf(q)
      /\ DOMAIN filter = Clients /\ DOMAIN at = Clients /\ DOMAIN details = Clients
  BY DEF ReportStep, RowsInv, RowsShape, DirectoryInv, LocalShape, KoddiInv, KoddiShape
<1>2. at[q] = "search" /\ UNCHANGED <<redis, partnered, ask, scope, doing, rows, cached, group, told, todo>>
  BY DEF SearchFilter
<1>3. at'[q] \in {"failed", "send", "keep filter"}
  BY <1>1 DEF SearchFilter, Goto
<1>4. RowsOf(q)'
  BY <1>1, <1>2, <1>3, RowsKept DEF Translating, Filling
<1>5. ScopeOf(q)'
  BY <1>1, <1>2, <1>3, ReportGoes, ScopeKept
<1>6. PICK found : found = {e \in Of("CAMPAIGN") : e.short \in ToSet(todo[q])}
  OBVIOUS
<1>7. found \subseteq Entities /\ \A e \in found : e.type = "CAMPAIGN" /\ e.short \in ToSet(todo[q])
  BY <1>6 DEF RowsInv, RowsShape, Of
<1>8. CASE SomeMissing(q, found)
  <2>1. at'[q] = "failed"
    BY <1>1, <1>6, <1>8 DEF SearchFilter, Goto
  <2>2. FilterOf(q)'
    BY <2>1 DEF FilterOf, RowCalls, Translating, Filling
  <2>3. QED  BY <1>1, <1>2, <1>4, <1>5, <2>2, ReportOne
<1>9. CASE ~ SomeMissing(q, found)
  <2>1. /\ filter'[q] = filter[q] \cup {e.koddi : e \in found}
        /\ details'[q] = [s \in {e.short : e \in found} |-> (CHOOSE e \in found : e.short = s).koddi]
        /\ at'[q] = IF found = {} THEN "send" ELSE "keep filter"
    <3>1. /\ filter' = [filter EXCEPT ![q] = @ \cup {e.koddi : e \in found}]
          /\ details' = [details EXCEPT ![q] =
                [s \in {e.short : e \in found} |-> (CHOOSE e \in found : e.short = s).koddi]]
          /\ Goto(q, IF found = {} THEN "send" ELSE "keep filter")
      <4> DEFINE F == {e \in Of("CAMPAIGN") : e.short \in ToSet(todo[q])}
      <4>1. ~ SomeMissing(q, F) /\ F = found
        BY <1>6, <1>9
      <4>2. FilterFilled(q, F)
        BY <4>1 DEF SearchFilter, FilterFilled
      <4> HIDE DEF F
      <4>3. FilterFilled(q, found)
        BY <4>1, <4>2
      <4>4. QED  BY <4>3 DEF FilterFilled
    <3>2. QED  BY <1>1, <3>1 DEF Goto
  <2>2. \A s \in DOMAIN details'[q] : \E e \in Of("CAMPAIGN") : e.short = s /\ details'[q][s] = e.koddi
    BY <1>6, <2>1
  <2>3. todo[q] \in Seq(Nat) /\ ToSet(todo[q]) \subseteq ToSet(ask[q].campaigns)
    BY <1>1, <1>2 DEF FilterOf
  <2>4. PICK named, left : named = ToSet(ask[q].campaigns) /\ left = ToSet(todo[q])
    OBVIOUS
  <2>5. Clear(q) => filter[q] = KoddiIds(named) \ KoddiIds(left)
    BY <1>1, <1>2, <2>4 DEF FilterOf
  <2>6. CASE found = {}
    <3>1. filter'[q] = filter[q] /\ at'[q] = "send"
      BY <2>1, <2>6
    <3>2. QED
      <4>1. FilterOf(q)'
        BY <1>2, <2>4, <2>5, <3>1 DEF FilterOf, Clear, Confused, KoddiIds
      <4>2. QED  BY <1>1, <1>2, <1>4, <1>5, <4>1, ReportOne
  <2>7. CASE found # {}
    <3>1. Cardinality(found) = Len(todo[q])
      BY <1>9, <2>7 DEF SomeMissing
    <3>2. \A x \in left : \E e \in found : e.short = x
      BY <1>7, <2>3, <2>4, <3>1, AsManyAsListed
    <3>3. {e.koddi : e \in found} = KoddiIds(left)
      <4>1. \A e, f \in Entities : e.type = "CAMPAIGN" /\ f.type = "CAMPAIGN" /\ e.short = f.short => e = f
        BY EntitiesAssumption
      <4>2. QED  BY <1>7, <2>4, <3>2, <4>1 DEF KoddiIds
    <3>4. KoddiIds(left) \subseteq KoddiIds(named)
      BY <2>3, <2>4, KoddiIdsSplit
    <3>5. Clear(q) => filter'[q] = KoddiIds(named)
      BY <2>1, <2>5, <3>3, <3>4
    <3>6. at'[q] = "keep filter"
      BY <2>1, <2>7
    <3>7. FilterOf(q)'
      <4>1. PICK d : d = details'[q]
        OBVIOUS
      <4>2. \A s \in DOMAIN d : \E e \in Of("CAMPAIGN")' : e.short = s /\ d[s] = e.koddi
        BY <1>2, <2>2, <4>1 DEF Of
      <4>3. UNCHANGED Clear(q) /\ KoddiIds(ToSet(ask[q].campaigns))' = KoddiIds(named)
        BY <1>2, <2>4 DEF Clear, Confused, KoddiIds
      <4>4. QED  BY <3>5, <3>6, <4>1, <4>2, <4>3 DEF FilterOf
    <3>8. QED  BY <1>1, <1>2, <1>4, <1>5, <3>7, ReportOne
  <2>8. QED  BY <2>6, <2>7
<1>10. QED  BY <1>8, <1>9

LEMMA KeepFilterRows ==
    ASSUME DirectoryInv, KoddiInv, RowsInv, NEW q \in Clients, KeepFilter(q)
    PROVE  RowsInv'
<1> USE DEF localVars, reportVars
<1>1. /\ ReportStep(q) /\ RowsOf(q) /\ ScopeOf(q) /\ FilterOf(q) /\ DOMAIN at = Clients
  BY DEF ReportStep, RowsInv, DirectoryInv, LocalShape
<1>2. at[q] = "keep filter" /\ UNCHANGED <<partnered, ask, scope, filter, doing, rows, cached, group, told, todo>>
  BY DEF KeepFilter
<1>3. at'[q] = "send"
  BY <1>1 DEF KeepFilter, Goto
<1>4. RowsOf(q)'
  BY <1>1, <1>2, <1>3, RowsKept DEF Translating, Filling
<1>5. ScopeOf(q)'
  BY <1>1, <1>2, <1>3, ReportGoes, ScopeKept
<1>6. FilterOf(q)'
  BY <1>1, <1>2, <1>3, FilterKept
<1>7. PICK d : d = details[q]
  OBVIOUS
<1>8. redis' = MPut(redis, "CAMPAIGN:KODDI", d)
  BY <1>7 DEF KeepFilter, SetKoddiByShort
<1>9. \A x \in DOMAIN d : Leads("CAMPAIGN:KODDI", x, d[x])
  BY <1>1, <1>2, <1>7 DEF FilterOf, Leads
<1>10. RedisEntities'
  BY <1>2, <1>8, <1>9, EntitiesGain DEF RowsInv
<1>11. QED  BY <1>1, <1>4, <1>5, <1>6, <1>10, ReportOne

LEMMA SendRows ==
    ASSUME DirectoryInv, KoddiInv, RowsInv, NEW q \in Clients, Send(q)
    PROVE  RowsInv'
<1> USE DEF storeVars, localVars
<1>1. /\ ReportStep(q) /\ RowsOf(q) /\ ScopeOf(q) /\ FilterOf(q) /\ DOMAIN at = Clients
      /\ DOMAIN rows = Clients /\ DOMAIN doing = Clients
  BY DEF ReportStep, RowsInv, RowsShape, DirectoryInv, LocalShape
<1>2. at[q] = "send" /\ UNCHANGED <<redis, partnered, ask, scope, filter, cached, group, told, todo>>
  BY DEF Send
<1>3. at'[q] = "longs" /\ rows'[q] = ResponseIds /\ doing'[q] = "AD_GROUP"
  BY <1>1 DEF Send, Goto
<1>4. PICK m : m = told[q]
  OBVIOUS
<1>5. /\ \A k \in DOMAIN m["AD_GROUP"] : ShortOk("AD_GROUP", k, m["AD_GROUP"][k])'
      /\ \A k \in DOMAIN m["CAMPAIGN"] : Own("CAMPAIGN", k, m["CAMPAIGN"][k])'
  BY <1>1, <1>2, <1>4 DEF RowsOf, ShortOk, Own, Of
<1>6. \A t \in RowTypes : rows'[q][t] \subseteq {e.koddi : e \in Of(t)'}
  BY <1>2, <1>3 DEF ResponseIds, NoRows, RowTypes, Of
<1>7. cached[q] = Nothing
  BY <1>1, <1>2 DEF RowsOf, Filling
<1>8. RowsOf(q)'
  BY <1>1, <1>2, <1>3, <1>4, <1>5, <1>6, <1>7 DEF RowsOf, RowTypes, Translating, Filling
<1>9. ScopeOf(q)'
  BY <1>1, <1>2, <1>3, ReportGoes, ScopeKept
<1>10. FilterOf(q)'
  BY <1>1, <1>2, <1>3, FilterKept
<1>11. QED  BY <1>1, <1>2, <1>8, <1>9, <1>10, ReportOne
-----------------------------------------------------------------------------
(* The rows are translated.                                                *)
LEMMA ToldStays ==
    ASSUME NEW q, RowsOf(q), UNCHANGED partnered, NEW m, m = told[q]
    PROVE  /\ \A k \in DOMAIN m["AD_GROUP"] : ShortOk("AD_GROUP", k, m["AD_GROUP"][k])'
           /\ \A k \in DOMAIN m["CAMPAIGN"] : Own("CAMPAIGN", k, m["CAMPAIGN"][k])'
           /\ \A t \in RowTypes : rows[q][t] \subseteq {e.koddi : e \in Of(t)'}
BY DEF RowsOf, ShortOk, Own, Of

(* What is read under the Koddi ids of rows.                               *)
LEMMA LongRead ==
    ASSUME RedisEntities, NEW t \in RowTypes, NEW K, NEW k \in K
    PROVE  LongOk(t, k, LongByKoddi(t, K)[k])
<1>1. LongByKoddi(t, K) = MGet(redis, KoddiKey(t), K)
  BY DEF RowTypes, KoddiKey, LongByKoddi, CampaignByKoddi, AdGroupByKoddi
<1>2. PICK v : v = MGet(redis, KoddiKey(t), K)[k]
  OBVIOUS
<1>3. PICK key : key = KoddiKey(t)
  OBVIOUS
<1>4. v = None \/ Leads(key, k, v)
  BY <1>2, <1>3, WhatIsRead
<1>5. QED  BY <1>1, <1>2, <1>3, <1>4 DEF LongOk

LEMMA ReadLongsRows ==
    ASSUME DirectoryInv, KoddiInv, RowsInv, NEW q \in Clients, ReadLongs(q)
    PROVE  RowsInv'
<1> USE DEF storeVars, localVars
<1>1. /\ ReportStep(q) /\ RowsOf(q) /\ ScopeOf(q) /\ FilterOf(q) /\ DOMAIN at = Clients /\ DOMAIN group = Clients
  BY DEF ReportStep, RowsInv, RowsShape, DirectoryInv, LocalShape
<1>2. at[q] = "longs" /\ UNCHANGED <<redis, partnered, ask, scope, filter, doing, rows, cached, told, todo>>
  BY DEF ReadLongs
<1>3. at'[q] = "shorts"
  BY <1>1 DEF ReadLongs, Goto
<1>4. PICK t \in RowTypes, K \in {rows[q][doing[q]]} : t = doing[q] /\ K = rows[q][t]
  BY <1>1 DEF RowsOf
<1>5. PICK longs : longs = LongByKoddi(t, K)
  OBVIOUS
<1>6. group'[q] = [x \in K |-> Both(longs[x], None)]
  BY <1>1, <1>4, <1>5 DEF ReadLongs
<1>7. \A k \in K : LongOk(t, k, longs[k])'
  <2>1. \A k \in K : LongOk(t, k, longs[k])
    BY <1>5, LongRead DEF RowsInv
  <2>2. partnered \subseteq partnered'
    BY <1>2
  <2>3. QED  BY <2>1, <2>2, OwnStays
<1>8. \A k \in DOMAIN group'[q] : LongOk(t, k, group[q][k].long)'
  BY <1>6, <1>7 DEF Both, LongOk
<1>9. DOMAIN group'[q] \subseteq {e.koddi : e \in Of(t)'}
  BY <1>1, <1>2, <1>4, <1>6 DEF RowsOf, Of
<1>10. cached'[q] = Nothing /\ DOMAIN Nothing = {}
  BY <1>1, <1>2 DEF RowsOf, Filling, Nothing
<1>11. PICK m : m = told[q]
  OBVIOUS
<1>12. RowsOf(q)'
  BY <1>1, <1>2, <1>3, <1>4, <1>8, <1>9, <1>10, <1>11, ToldStays DEF RowsOf, Translating, Filling
<1>13. ScopeOf(q)'
  BY <1>1, <1>2, <1>3, ReportGoes, ScopeKept
<1>14. FilterOf(q)'
  BY <1>1, <1>2, <1>3, FilterKept DEF RowCalls
<1>15. QED  BY <1>1, <1>2, <1>12, <1>13, <1>14, ReportOne

(* What is read under the long ids.  Of a number, which is the Koddi id of *)
(* another campaign, only what is no number.                               *)
LEMMA ShortRead ==
    ASSUME RowsInv, NEW t \in RowTypes, NEW k, NEW l, LongOk(t, k, l), NEW L, l \in L,
           NEW s, s = ShortByLong(t, L)[l], s \in Nat \cup {None}
    PROVE  ShortOk(t, k, s)
<1>1. ShortByLong(t, L) = MGet(redis, t, L) /\ RedisEntities
  BY DEF RowTypes, ShortByLong, ShortCampaign, ShortAdGroup, RowsInv
<1>2. s = None \/ Leads(t, l, s)
  BY <1>1, WhatIsRead
<1>3. \A e, f \in Entities : e.type = f.type /\ e.long = f.long => e = f
  BY EntitiesAssumption
<1>4. \A e \in Of(t) : e \in Entities /\ e.type = t /\ e.long \notin Nat \cup {None} /\ e.short \in Nat /\ e.koddi \in Nat
  BY EntitiesAssumption DEF Of, RowsInv, RowsShape
<1>5. ASSUME s # None PROVE Own(t, k, s)
  <2>1. Leads(t, l, s)
    BY <1>2, <1>5
  <2>2. PICK f \in Of(t) : f.long = l /\ s = f.short
    <3>1. CASE t = "CAMPAIGN"
      <4>1. PICK f \in Of("CAMPAIGN") : (f.long = l /\ s = f.short) \/ (f.short = l /\ s = f.long)
        BY <2>1, <3>1 DEF Leads
      <4>2. s # f.long
        BY <1>4, <3>1
      <4>3. QED  BY <3>1, <4>1, <4>2
    <3>2. CASE t = "AD_GROUP"
      BY <2>1, <3>2 DEF Leads
    <3>3. QED  BY <3>1, <3>2 DEF RowTypes
  <2>3. l \notin Nat \cup {None}
    BY <1>4, <2>2
  <2>4. Leads(KoddiKey(t), k, l)
    BY <2>3 DEF LongOk
  <2>5. \E e \in Of(t) : e.koddi = k /\ l = e.long
    <3>1. CASE t = "CAMPAIGN"
      <4>1. PICK e \in Of("CAMPAIGN") : (e.koddi = k /\ l = e.long) \/ (e.short = k /\ l = e.koddi)
        BY <2>4, <3>1 DEF Leads, KoddiKey
      <4>2. l # e.koddi
        BY <1>4, <2>3, <3>1
      <4>3. QED  BY <3>1, <4>1, <4>2
    <3>2. CASE t = "AD_GROUP"
      BY <2>4, <3>2 DEF Leads, KoddiKey
    <3>3. QED  BY <3>1, <3>2 DEF RowTypes
  <2>6. PICK e \in Of(t) : e.koddi = k /\ l = e.long
    BY <2>5
  <2>7. e = f
    BY <1>3, <1>4, <2>2, <2>6
  <2>8. QED  BY <2>2, <2>6, <2>7 DEF Own
<1>6. QED  BY <1>5 DEF ShortOk

LEMMA ReadShortsRows ==
    ASSUME DirectoryInv, KoddiInv, RowsInv, NEW q \in Clients, ReadShorts(q)
    PROVE  RowsInv'
<1> USE DEF storeVars, localVars
<1>1. /\ ReportStep(q) /\ RowsOf(q) /\ ScopeOf(q) /\ FilterOf(q) /\ DOMAIN at = Clients
      /\ DOMAIN group = Clients /\ DOMAIN cached = Clients
  BY DEF ReportStep, RowsInv, RowsShape, DirectoryInv, LocalShape
<1>2. at[q] = "shorts" /\ UNCHANGED <<redis, partnered, ask, scope, filter, doing, rows, told, todo>>
  BY DEF ReadShorts
<1>3. PICK t \in RowTypes, g \in {group[q]} : t = doing[q] /\ g = group[q]
  BY <1>1 DEF RowsOf
<1>4. PICK longs : longs = {g[k].long : k \in DOMAIN g}
  OBVIOUS
<1>5. PICK shorts : shorts = ShortByLong(t, longs)
  OBVIOUS
<1>6. /\ group'[q] = [k \in DOMAIN g |-> Both(g[k].long, shorts[g[k].long])]
      /\ cached'[q] = group'[q]
  BY <1>1, <1>3, <1>4, <1>5 DEF ReadShorts
<1>7. at'[q] \in {"failed", "fetch"} /\ (at'[q] = "fetch" => \A l \in longs : shorts[l] \in Nat \cup {None})
  <2>1. PICK L : L = {group[q][k].long : k \in DOMAIN group[q]}
    OBVIOUS
  <2>2. PICK S : S = ShortByLong(doing[q], L)
    OBVIOUS
  <2>3. Goto(q, IF \E l \in L : S[l] \notin Nat \cup {None} THEN "failed" ELSE "fetch")
    BY <2>1, <2>2 DEF ReadShorts
  <2>4. L = longs /\ S = shorts
    BY <1>3, <1>4, <1>5, <2>1, <2>2
  <2>5. PICK next : next = IF \E l \in L : S[l] \notin Nat \cup {None} THEN "failed" ELSE "fetch"
    OBVIOUS
  <2>6. at'[q] = next
    BY <1>1, <2>3, <2>5 DEF Goto
  <2>7. QED  BY <2>4, <2>5, <2>6
<1>8. ASSUME at'[q] = "fetch", NEW k \in DOMAIN g
      PROVE  ShortOk(t, k, shorts[g[k].long])'
  <2>1. PICK l \in longs, s \in {shorts[g[k].long]} : l = g[k].long /\ s = shorts[l]
    BY <1>4
  <2>2. LongOk(t, k, l) /\ s \in Nat \cup {None}
    BY <1>1, <1>2, <1>3, <1>7, <1>8, <2>1 DEF RowsOf
  <2>3. ShortOk(t, k, s)
    BY <1>5, <2>1, <2>2, ShortRead
  <2>4. partnered \subseteq partnered'
    BY <1>2
  <2>5. ShortOk(t, k, s)'
    BY <2>3, <2>4, OwnStays
  <2>6. QED  BY <1>2, <2>1, <2>5 DEF ShortOk, Own, Of
<1>9. at'[q] = "fetch" => \A k \in DOMAIN group'[q] : ShortOk(t, k, group[q][k].short)'
  BY <1>6, <1>8 DEF Both, ShortOk
<1>10. DOMAIN group'[q] \subseteq {e.koddi : e \in Of(t)'}
  BY <1>1, <1>2, <1>3, <1>6 DEF RowsOf, Of, Translating
<1>11. PICK m : m = told[q]
  OBVIOUS
<1>12. RowsOf(q)'
  BY <1>1, <1>2, <1>3, <1>6, <1>7, <1>9, <1>10, <1>11, ToldStays DEF RowsOf, Translating, Filling
<1>13. ScopeOf(q)'
  BY <1>1, <1>2, <1>7, ReportGoes, ScopeKept
<1>14. FilterOf(q)'
  BY <1>1, <1>2, <1>7, FilterKept DEF RowCalls, Translating
<1>15. QED  BY <1>1, <1>2, <1>12, <1>13, <1>14, ReportOne
-----------------------------------------------------------------------------
(* What upstream knows of Koddi ids is what they are of.                   *)
LEMMA KnownProps ==
    ASSUME NEW t, NEW K, NEW m, m = Known(t, K)
    PROVE  /\ DOMAIN m = {e.koddi : e \in Of(t)} \cap K
           /\ \A k \in DOMAIN m : Fetched(t, k, m[k])
<1> DEFINE known == {e \in Of(t) : e.koddi \in K}
<1>1. m = [k \in {e.koddi : e \in known} |->
              LET e == CHOOSE e \in known : e.koddi = k IN Both(e.long, e.short)]
  BY DEF Known
<1>2. ASSUME NEW k \in DOMAIN m
      PROVE  \E e \in known : e.koddi = k /\ m[k] = Both(e.long, e.short)
  <2>1. PICK e : e = CHOOSE x \in known : x.koddi = k
    OBVIOUS
  <2>2. \E x \in known : x.koddi = k
    BY <1>1
  <2>3. e \in known /\ e.koddi = k
    BY <2>1, <2>2
  <2>4. m[k] = Both(e.long, e.short)
    BY <1>1, <2>1
  <2>5. QED  BY <2>3, <2>4
<1>3. DOMAIN m = {e.koddi : e \in known}
  BY <1>1
<1>4. {e.koddi : e \in known} = {e.koddi : e \in Of(t)} \cap K
  OBVIOUS
<1>5. ASSUME NEW k \in DOMAIN m PROVE Fetched(t, k, m[k])
  BY <1>2 DEF Fetched
<1>6. QED  BY <1>3, <1>4, <1>5

(* What is known after the two calls.                                      *)
FetchedOnto(t, g, h) ==
    \E f : /\ f = Onto(Known(t, {k \in DOMAIN g : g[k].long = None}), g)
           /\ h = Onto(IF t = "CAMPAIGN" THEN Known(t, {k \in DOMAIN f : f[k].short = None}) ELSE Nothing, f)

LEMMA FetchFills ==
    ASSUME NEW t \in RowTypes, NEW g, DOMAIN g \subseteq {e.koddi : e \in Of(t)},
           \A k \in DOMAIN g : ShortOk(t, k, g[k].short),
           NEW h, FetchedOnto(t, g, h)
    PROVE  DOMAIN h = DOMAIN g /\ \A k \in DOMAIN g : Filled(t, k, g[k], h[k])
<1>1. PICK K, f, a : /\ K = {k \in DOMAIN g : g[k].long = None} /\ a = Known(t, K) /\ f = Onto(a, g)
                     /\ h = Onto(IF t = "CAMPAIGN" THEN Known(t, {k \in DOMAIN f : f[k].short = None})
                                                   ELSE Nothing, f)
  BY DEF FetchedOnto
<1>2. DOMAIN a \subseteq DOMAIN g /\ \A k \in DOMAIN a : Fetched(t, k, a[k])
  <2>1. K \subseteq DOMAIN g /\ a = Known(t, K)
    BY <1>1
  <2>2. DOMAIN a = {e.koddi : e \in Of(t)} \cap K /\ \A k \in DOMAIN a : Fetched(t, k, a[k])
    BY <2>1, KnownProps
  <2>3. QED  BY <2>1, <2>2
<1>3. DOMAIN f = DOMAIN g /\ \A k \in DOMAIN g : Fetched(t, k, f[k]) \/ f[k] = g[k]
  BY <1>1, <1>2 DEF Onto
<1>4. CASE t = "CAMPAIGN"
  <2>1. PICK M, b : M = {k \in DOMAIN f : f[k].short = None} /\ b = Known(t, M) /\ h = Onto(b, f)
    BY <1>1, <1>4
  <2>2. DOMAIN b = {e.koddi : e \in Of(t)} \cap M /\ \A k \in DOMAIN b : Fetched(t, k, b[k])
    BY <2>1, KnownProps
  <2>3. DOMAIN b = M /\ M \subseteq DOMAIN g
    BY <1>3, <2>1, <2>2
  <2>4. DOMAIN h = DOMAIN g /\ \A k \in DOMAIN g : h[k] = IF k \in M THEN b[k] ELSE f[k]
    BY <1>3, <2>1, <2>3 DEF Onto
  <2>5. ASSUME NEW k \in DOMAIN g PROVE Filled(t, k, g[k], h[k])
    <3>1. CASE k \in M
      BY <2>2, <2>3, <2>4, <3>1 DEF Filled
    <3>2. CASE k \notin M
      <4>1. h[k] = f[k] /\ f[k].short # None
        BY <1>3, <2>1, <2>4, <3>2
      <4>2. QED  BY <1>3, <4>1 DEF Filled
    <3>3. QED  BY <3>1, <3>2
  <2>6. QED  BY <2>4, <2>5
<1>5. CASE t # "CAMPAIGN"
  <2>1. h = Onto(Nothing, f) /\ DOMAIN Nothing = {}
    BY <1>1, <1>5 DEF Nothing
  <2>2. DOMAIN h = DOMAIN f /\ \A k \in DOMAIN f : h[k] = f[k]
    BY <2>1 DEF Onto
  <2>3. QED  BY <1>3, <1>5, <2>2 DEF Filled
<1>6. QED  BY <1>4, <1>5

LEMMA FetchMissingRows ==
    ASSUME DirectoryInv, KoddiInv, RowsInv, NEW q \in Clients, FetchMissing(q)
    PROVE  RowsInv'
<1> USE DEF storeVars, localVars
<1>1. /\ ReportStep(q) /\ RowsOf(q) /\ ScopeOf(q) /\ FilterOf(q) /\ DOMAIN at = Clients /\ DOMAIN group = Clients
  BY DEF ReportStep, RowsInv, RowsShape, DirectoryInv, LocalShape
<1>2. at[q] = "fetch" /\ UNCHANGED <<redis, partnered, ask, scope, filter, doing, rows, cached, told, todo>>
  BY DEF FetchMissing
<1>3. at'[q] = "keep longs"
  BY <1>1 DEF FetchMissing, Goto
<1>4. PICK t \in RowTypes, g \in {group[q]} : t = doing[q] /\ g = group[q]
  BY <1>1 DEF RowsOf
<1>5. PICK h : h = group'[q]
  OBVIOUS
<1>6. FetchedOnto(t, g, h)
  <2>1. CASE t = "CAMPAIGN"
    BY <1>1, <1>4, <1>5, <2>1 DEF FetchMissing, FetchedOnto, FetchedCampaigns
  <2>2. CASE t = "AD_GROUP"
    BY <1>1, <1>4, <1>5, <2>2 DEF FetchMissing, FetchedOnto, FetchedAdGroups, FetchedShortAdGroups
  <2>3. QED  BY <2>1, <2>2 DEF RowTypes
<1>7. /\ DOMAIN g \subseteq {e.koddi : e \in Of(t)} /\ \A k \in DOMAIN g : ShortOk(t, k, g[k].short)
      /\ cached[q] = g
  BY <1>1, <1>2, <1>4 DEF RowsOf, Translating
<1>8. DOMAIN h = DOMAIN g /\ \A k \in DOMAIN g : Filled(t, k, g[k], h[k])
  BY <1>6, <1>7, FetchFills
<1>9. \A k \in DOMAIN g : Filled(t, k, g[k], h[k])'
  <2>1. partnered \subseteq partnered'
    BY <1>2
  <2>2. ASSUME NEW k \in DOMAIN g PROVE Filled(t, k, g[k], h[k])'
    <3>1. PICK c, d : c = g[k] /\ d = h[k]
      OBVIOUS
    <3>2. Filled(t, k, c, d)'
      BY <1>8, <2>1, <3>1, FilledStays
    <3>3. QED  BY <3>1, <3>2
  <2>3. QED  BY <2>2
<1>10. DOMAIN h \subseteq {e.koddi : e \in Of(t)'}
  BY <1>2, <1>7, <1>8 DEF Of
<1>11. PICK m : m = told[q]
  OBVIOUS
<1>12. RowsOf(q)'
  BY <1>1, <1>2, <1>3, <1>4, <1>5, <1>7, <1>8, <1>9, <1>10, <1>11, ToldStays DEF RowsOf, Translating, Filling
<1>13. ScopeOf(q)'
  BY <1>1, <1>2, <1>3, ReportGoes, ScopeKept
<1>14. FilterOf(q)'
  BY <1>1, <1>2, <1>3, FilterKept DEF RowCalls, Translating
<1>15. QED  BY <1>1, <1>2, <1>12, <1>13, <1>14, ReportOne

(* While what was fetched is written, the rows are as they were.           *)
LEMMA FillingKept ==
    ASSUME NEW q, RowsOf(q), at[q] \in Filling, at'[q] \in Filling, UNCHANGED partnered, doing'[q] = doing[q],
           rows'[q] = rows[q], cached'[q] = cached[q], group'[q] = group[q], told'[q] = told[q]
    PROVE  RowsOf(q)'
<1>1. PICK t, g, c, m : t = doing[q] /\ g = group[q] /\ c = cached[q] /\ m = told[q]
  OBVIOUS
<1>2. \A k \in DOMAIN g : Filled(t, k, c[k], g[k])'
  <2>1. partnered \subseteq partnered'
    OBVIOUS
  <2>2. ASSUME NEW k \in DOMAIN g PROVE Filled(t, k, c[k], g[k])'
    <3>1. PICK x, y : x = c[k] /\ y = g[k]
      OBVIOUS
    <3>2. Filled(t, k, x, y)'
      BY <1>1, <2>1, <3>1, FilledStays DEF RowsOf
    <3>3. QED  BY <3>1, <3>2
  <2>3. QED  BY <2>2
<1>3. DOMAIN g \subseteq {e.koddi : e \in Of(t)'}
  BY <1>1 DEF RowsOf, Of, Translating
<1>4. at'[q] \notin {"shorts", "fetch"}
  BY DEF Filling
<1>5. QED  BY <1>1, <1>2, <1>3, <1>4, ToldStays DEF RowsOf, Translating

(* What was not read and is there now has been fetched.                    *)
LEMMA NewIsFetched ==
    ASSUME NEW q, RowsOf(q), at[q] \in Filling, NEW k \in DOMAIN group[q],
           \/ cached[q][k].long = None /\ group[q][k].long # None
           \/ cached[q][k].short = None /\ group[q][k].short # None
    PROVE  Fetched(doing[q], k, group[q][k])
BY DEF RowsOf, Filled

LEMMA KeepLongsRows ==
    ASSUME DirectoryInv, KoddiInv, RowsInv, NEW q \in Clients, KeepLongs(q)
    PROVE  RowsInv'
<1> USE DEF localVars, reportVars
<1>1. /\ ReportStep(q) /\ RowsOf(q) /\ ScopeOf(q) /\ FilterOf(q) /\ DOMAIN at = Clients
  BY DEF ReportStep, RowsInv, DirectoryInv, LocalShape
<1>2. /\ at[q] = "keep longs" /\ at[q] \in Filling
      /\ UNCHANGED <<partnered, ask, scope, filter, doing, rows, cached, group, told, todo>>
  BY DEF KeepLongs, Filling
<1>3. at'[q] = "keep shorts" /\ at'[q] \in Filling
  BY <1>1 DEF KeepLongs, Goto, Filling
<1>4. RowsOf(q)'
  BY <1>1, <1>2, <1>3, FillingKept
<1>5. ScopeOf(q)'
  BY <1>1, <1>2, <1>3, ReportGoes, ScopeKept
<1>6. FilterOf(q)'
  BY <1>1, <1>2, <1>3, FilterKept DEF RowCalls, Translating
<1>7. PICK t \in RowTypes, g \in {group[q]} : t = doing[q] /\ g = group[q]
  BY <1>1 DEF RowsOf
<1>8. PICK new : new = {k \in DOMAIN g : cached[q][k].long = None /\ g[k].long # None}
  OBVIOUS
<1>9. PICK longs : longs = [k \in new |-> g[k].long]
  OBVIOUS
<1>10. redis' = MPut(redis, KoddiKey(t), longs)
  <2>1. redis' = IF t = "CAMPAIGN" THEN SetCampaignByKoddi(redis, longs) ELSE SetAdGroupByKoddi(redis, longs)
    BY <1>7, <1>8, <1>9 DEF KeepLongs
  <2>2. QED  BY <2>1 DEF RowTypes, KoddiKey, SetCampaignByKoddi, SetAdGroupByKoddi
<1>11. ASSUME NEW k \in DOMAIN longs PROVE Leads(KoddiKey(t), k, longs[k])
  <2>1. Fetched(t, k, g[k])
    BY <1>1, <1>2, <1>7, <1>8, <1>9, NewIsFetched
  <2>2. PICK e \in Of(t) : e.koddi = k /\ g[k] = Both(e.long, e.short)
    BY <2>1 DEF Fetched
  <2>3. longs[k] = e.long
    BY <1>9, <2>2 DEF Both
  <2>4. QED  BY <2>2, <2>3 DEF RowTypes, KoddiKey, Leads
<1>12. RedisEntities'
  <2>1. PICK key : key = KoddiKey(t)
    OBVIOUS
  <2>2. QED  BY <1>2, <1>10, <1>11, <2>1, EntitiesGain DEF RowsInv
<1>13. QED  BY <1>1, <1>4, <1>5, <1>6, <1>12, ReportOne

(* The short ids that are known now and were not in the cache.              *)
NewShorts(c, g) ==
    LET new == {k \in DOMAIN g : /\ c[k].short = None
                                 /\ g[k].short # None /\ g[k].long # None}
    IN  [l \in {g[k].long : k \in new} |-> g[CHOOSE k \in new : g[k].long = l].short]

LEMMA KeepShortsRows ==
    ASSUME DirectoryInv, KoddiInv, RowsInv, NEW q \in Clients, KeepShorts(q)
    PROVE  RowsInv'
<1> USE DEF localVars, reportVars
<1>1. /\ ReportStep(q) /\ RowsOf(q) /\ ScopeOf(q) /\ FilterOf(q) /\ DOMAIN at = Clients
  BY DEF ReportStep, RowsInv, DirectoryInv, LocalShape
<1>2. /\ at[q] = "keep shorts" /\ at[q] \in Filling
      /\ UNCHANGED <<partnered, ask, scope, filter, doing, rows, cached, group, told, todo>>
  BY DEF KeepShorts, Filling
<1>3. at'[q] = "translate" /\ at'[q] \in Filling
  BY <1>1 DEF KeepShorts, Goto, Filling
<1>4. RowsOf(q)'
  BY <1>1, <1>2, <1>3, FillingKept
<1>5. ScopeOf(q)'
  BY <1>1, <1>2, <1>3, ReportGoes, ScopeKept
<1>6. FilterOf(q)'
  BY <1>1, <1>2, <1>3, FilterKept DEF RowCalls, Translating
<1>7. PICK t \in RowTypes, g \in {group[q]} : t = doing[q] /\ g = group[q]
  BY <1>1 DEF RowsOf
<1>8. PICK c : c = cached[q]
  OBVIOUS
<1>9. PICK shorts : shorts = NewShorts(c, g)
  OBVIOUS
<1>10. redis' = MPut(redis, t, shorts)
  <2>1. redis' = IF t = "CAMPAIGN" THEN SetShortCampaign(redis, shorts) ELSE SetShortAdGroup(redis, shorts)
    <3>1. redis' = IF doing[q] = "CAMPAIGN" THEN SetShortCampaign(redis, NewShorts(cached[q], group[q]))
                                            ELSE SetShortAdGroup(redis, NewShorts(cached[q], group[q]))
      BY DEF KeepShorts, NewShorts
    <3>2. QED  BY <1>7, <1>8, <1>9, <3>1
  <2>2. QED  BY <2>1 DEF RowTypes, SetShortCampaign, SetShortAdGroup
<1>11. ASSUME NEW l \in DOMAIN shorts PROVE Leads(t, l, shorts[l])
  <2>1. PICK k \in DOMAIN g : /\ c[k].short = None /\ g[k].short # None
                             /\ g[k].long = l /\ shorts[l] = g[k].short
    BY <1>9 DEF NewShorts
  <2>2. Fetched(t, k, g[k])
    BY <1>1, <1>2, <1>7, <1>8, <2>1, NewIsFetched
  <2>3. PICK e \in Of(t) : g[k] = Both(e.long, e.short)
    BY <2>2 DEF Fetched
  <2>4. l = e.long /\ shorts[l] = e.short
    BY <2>1, <2>3 DEF Both
  <2>5. QED  BY <2>4 DEF RowTypes, Leads
<1>12. RedisEntities'
  BY <1>2, <1>10, <1>11, EntitiesGain DEF RowsInv
<1>13. QED  BY <1>1, <1>4, <1>5, <1>6, <1>12, ReportOne

LEMMA TranslateRows ==
    ASSUME DirectoryInv, KoddiInv, RowsInv, NEW q \in Clients, Translate(q)
    PROVE  RowsInv'
<1> USE DEF storeVars
<1>1. /\ ReportStep(q) /\ RowsOf(q) /\ ScopeOf(q) /\ FilterOf(q) /\ RowsShape /\ DOMAIN at = Clients
      /\ DOMAIN todo = Clients
  BY DEF ReportStep, RowsInv, DirectoryInv, LocalShape
<1>2. at[q] = "translate" /\ at[q] \in Filling /\ UNCHANGED <<redis, partnered, ask, scope, filter>>
  BY DEF Translate, Filling
<1>3. PICK t \in RowTypes, g \in {group[q]}, c \in {cached[q]}, m \in {told[q]} :
          t = doing[q] /\ g = group[q] /\ c = cached[q] /\ m = told[q]
  BY <1>1 DEF RowsOf
<1>4. PICK n : n = [k \in DOMAIN g |-> g[k].short]
  OBVIOUS
<1>5. /\ told'[q] = [m EXCEPT ![t] = n]
      /\ cached'[q] = Nothing /\ group'[q] = Nothing /\ doing'[q] = "CAMPAIGN"
  BY <1>1, <1>3, <1>4 DEF Translate, RowsShape
<1>6. \/ at'[q] = "done" /\ rows'[q] = NoRows
      \/ at'[q] = "longs" /\ rows'[q] = rows[q] /\ todo'[q] = todo[q]
  BY <1>1 DEF Translate, Goto, RowsShape
<1>7. ASSUME NEW k \in DOMAIN g
      PROVE  /\ t = "AD_GROUP" => ShortOk("AD_GROUP", k, n[k])
             /\ t = "CAMPAIGN" => Own("CAMPAIGN", k, n[k])
  <2>1. PICK x, y : x = c[k] /\ y = g[k] /\ n[k] = y.short
    BY <1>4
  <2>2. Filled(t, k, x, y)
    BY <1>1, <1>2, <1>3, <2>1 DEF RowsOf
  <2>3. CASE Fetched(t, k, y)
    <3>1. PICK e \in Of(t) : e.koddi = k /\ y = Both(e.long, e.short)
      BY <2>3 DEF Fetched
    <3>2. Own(t, k, n[k])
      BY <2>1, <3>1 DEF Own, Both
    <3>3. QED  BY <3>2 DEF ShortOk
  <2>4. CASE ShortOk(t, k, y.short) /\ (t = "CAMPAIGN" => y.short # None)
    BY <2>1, <2>4 DEF ShortOk
  <2>5. QED  BY <2>2, <2>3, <2>4 DEF Filled
<1>8. /\ \A k \in DOMAIN m["AD_GROUP"] : ShortOk("AD_GROUP", k, m["AD_GROUP"][k])'
      /\ \A k \in DOMAIN m["CAMPAIGN"] : Own("CAMPAIGN", k, m["CAMPAIGN"][k])'
      /\ DOMAIN m = RowTypes
  BY <1>1, <1>2, <1>3, ToldStays DEF RowsOf
<1>9. /\ t = "AD_GROUP" => \A k \in DOMAIN n : ShortOk("AD_GROUP", k, n[k])'
      /\ t = "CAMPAIGN" => \A k \in DOMAIN n : Own("CAMPAIGN", k, n[k])'
  BY <1>2, <1>4, <1>7 DEF ShortOk, Own, Of
<1>10. PICK m2 : m2 = told'[q]
  OBVIOUS
<1>11. /\ \A k \in DOMAIN m2["AD_GROUP"] : ShortOk("AD_GROUP", k, m2["AD_GROUP"][k])'
       /\ \A k \in DOMAIN m2["CAMPAIGN"] : Own("CAMPAIGN", k, m2["CAMPAIGN"][k])'
       /\ DOMAIN m2 = RowTypes
  <2>1. m2 = [m EXCEPT ![t] = n]
    BY <1>5, <1>10
  <2>2. CASE t = "AD_GROUP"
    <3>1. m2["AD_GROUP"] = n /\ m2["CAMPAIGN"] = m["CAMPAIGN"] /\ DOMAIN m2 = RowTypes
      BY <1>8, <2>1, <2>2 DEF RowTypes
    <3>2. QED  BY <1>8, <1>9, <2>2, <3>1
  <2>3. CASE t = "CAMPAIGN"
    <3>1. m2["CAMPAIGN"] = n /\ m2["AD_GROUP"] = m["AD_GROUP"] /\ DOMAIN m2 = RowTypes
      BY <1>8, <2>1, <2>3 DEF RowTypes
    <3>2. QED  BY <1>8, <1>9, <2>3, <3>1
  <2>4. QED  BY <2>2, <2>3 DEF RowTypes
<1>12. \A u \in RowTypes : rows'[q][u] \subseteq {e.koddi : e \in Of(u)'}
  BY <1>1, <1>2, <1>3, <1>6, ToldStays DEF NoRows, RowTypes
<1>13. DOMAIN Nothing = {}
  BY DEF Nothing
<1>14. RowsOf(q)'
  BY <1>5, <1>6, <1>10, <1>11, <1>12, <1>13 DEF RowsOf, RowTypes, Translating, Filling
<1>15. ScopeOf(q)'
  BY <1>1, <1>2, <1>6, ReportGoes, ScopeKept
<1>16. FilterOf(q)'
  <2>1. CASE at'[q] = "done"
    BY <2>1 DEF FilterOf, RowCalls, Translating, Filling
  <2>2. CASE at'[q] = "longs" /\ todo'[q] = todo[q]
    BY <1>1, <1>2, <2>2, FilterKept DEF RowCalls, Translating
  <2>3. QED  BY <1>6, <2>1, <2>2
<1>17. QED  BY <1>1, <1>2, <1>14, <1>15, <1>16, ReportOne
-----------------------------------------------------------------------------
LEMMA ReportStepRows ==
    ASSUME DirectoryInv, KoddiInv, RowsInv, NEW q \in Clients, ReportStep(q)
    PROVE  RowsInv'
BY BeginReportRows, ReadAdvertisersRows, BuildScopeRows, ReadFilterRows, SearchFilterRows, KeepFilterRows,
   SendRows, ReadLongsRows, ReadShortsRows, FetchMissingRows, KeepLongsRows, KeepShortsRows, TranslateRows
   DEF ReportStep

LEMMA RowsInvInit == ReportInit => RowsInv
<1> SUFFICES ASSUME ReportInit PROVE RowsInv
  OBVIOUS
<1> USE DEF ReportInit, DirectoryInit
<1>1. RowsShape
  BY EntitiesAssumption DEF RowsShape
<1>2. RedisEntities
  BY DEF RedisEntities
<1>3. ASSUME NEW q \in Clients PROVE RowsOf(q) /\ ScopeOf(q) /\ FilterOf(q)
  <2>1. /\ at[q] = "idle" /\ cached[q] = << >> /\ group[q] = << >> /\ told[q] = Untold
        /\ rows[q] = NoRows /\ doing[q] = "AD_GROUP" /\ scope[q] = << >>
    BY DEF Nothing
  <2>2. DOMAIN Untold = RowTypes /\ Untold["AD_GROUP"] = << >> /\ Untold["CAMPAIGN"] = << >>
    BY DEF Untold, RowTypes, Nothing
  <2>3. \A t \in RowTypes : NoRows[t] = {}
    BY DEF NoRows, RowTypes
  <2>4. RowsOf(q)
    BY <2>1, <2>2, <2>3 DEF RowsOf, RowTypes, Translating, Filling, Nothing
  <2>5. ScopeOf(q) /\ FilterOf(q)
    BY <2>1 DEF ScopeOf, FilterOf, RowCalls, Translating, Filling
  <2>6. QED  BY <2>4, <2>5
<1>4. QED  BY <1>1, <1>2, <1>3 DEF RowsInv

LEMMA RowsInvNext ==
    ASSUME DirectoryInv, DirectoryInv', KoddiInv, RowsInv, [Next]_vars
    PROVE  RowsInv'
<1>1. UNCHANGED vars => UNCHANGED dirVars /\ UNCHANGED reportVars
  BY DEF vars
<1>2. QED
  BY <1>1, ReportStepRows, DirectoryStepRows, FailReportRows, LeaseRows, LookupFilledRows, PartnerRows DEF Next

(* Redis leads from a campaign or an ad group to its own ids only, and so  *)
(* does what a report has read, at every call of any request.              *)
THEOREM RowsInvHolds == Spec => []RowsInv
<1>1. ReportInit => RowsInv
  BY RowsInvInit
<1>2. DirectoryInv /\ DirectoryInv' /\ KoddiInv /\ RowsInv /\ [Next]_vars => RowsInv'
  BY RowsInvNext
<1>3. QED  BY <1>1, <1>2, DirectoryInvHolds, KoddiInvHolds, PTL DEF Spec

(* A row of a report names the campaign, ad group and advertiser it is     *)
(* about, whatever the look-ups of other requests, stopped half-way or     *)
(* confused, left in Redis. [report_translation.py:200, report_service.py:352] *)
THEOREM RowsAlwaysNameTheirOwn == Spec => []RowsNameTheirOwn
<1>1. RowsInv => RowsNameTheirOwn
  <2> SUFFICES ASSUME RowsInv, NEW q \in Clients
               PROVE  /\ \A k \in DOMAIN told[q]["AD_GROUP"] :
                            told[q]["AD_GROUP"][k] \in {None} \cup {e.short : e \in {x \in Of("AD_GROUP") : x.koddi = k}}
                      /\ \A k \in DOMAIN told[q]["CAMPAIGN"] :
                            \E e \in Of("CAMPAIGN") : e.koddi = k /\ e.short = told[q]["CAMPAIGN"][k]
                      /\ \A k \in DOMAIN scope[q] : \A i \in scope[q][k] :
                            owner["ADVERTISER"][i] \in advertisers[k].brands
    BY DEF RowsNameTheirOwn
  <2>1. RowsOf(q) /\ ScopeOf(q)
    BY DEF RowsInv
  <2>2. ASSUME NEW k \in DOMAIN told[q]["AD_GROUP"]
        PROVE  told[q]["AD_GROUP"][k] \in {None} \cup {e.short : e \in {x \in Of("AD_GROUP") : x.koddi = k}}
    <3>1. ShortOk("AD_GROUP", k, told[q]["AD_GROUP"][k])
      BY <2>1 DEF RowsOf
    <3>2. QED  BY <3>1 DEF ShortOk, Own
  <2>3. \A k \in DOMAIN told[q]["CAMPAIGN"] :
            \E e \in Of("CAMPAIGN") : e.koddi = k /\ e.short = told[q]["CAMPAIGN"][k]
    BY <2>1 DEF RowsOf, Own
  <2>4. \A k \in DOMAIN scope[q] : \A i \in scope[q][k] : owner["ADVERTISER"][i] \in advertisers[k].brands
    BY <2>1 DEF ScopeOf, InScope
  <2>5. QED  BY <2>2, <2>3, <2>4
<1>2. QED  BY <1>1, RowsInvHolds, PTL

(* A report is filtered by the campaigns it was asked for and no others,   *)
(* and by all of them, unless none of those missing from the cache has a   *)
(* Koddi id. [report_service.py:229, lookup_service.py:533]                *)
THEOREM FilterAlwaysCovers == Spec => []FilterCovers
<1>1. RowsInv => FilterCovers
  <2> SUFFICES ASSUME RowsInv, NEW q \in Clients, Sent(q), ask[q].campaigns # << >>,
                      NEW named, named = ToSet(ask[q].campaigns), \A s \in named : ~ Confused(s)
               PROVE  /\ filter[q] \subseteq KoddiIds(named)
                      /\ \/ filter[q] = KoddiIds(named) \ KoddiIds(ToSet(todo[q]))
                         \/ filter[q] = KoddiIds(named)
    BY DEF FilterCovers
  <2>1. FilterOf(q) /\ Clear(q) /\ at[q] \in RowCalls
    BY DEF RowsInv, Clear, Sent, RowCalls, Translating, Filling
  <2>2. QED  BY <2>1 DEF FilterOf
<1>2. QED  BY <1>1, RowsInvHolds, PTL
-----------------------------------------------------------------------------
(* A request that works on no list has none.                               *)
TypeInv == LocksInv /\ \A q \in Clients : ask[q].kind \in {"koddi", "none"} => todo[q] = << >>

LEMMA LocksOne ==
    ASSUME LocksInv, NEW q \in Clients, ask' = ask, \A p \in Clients \ {q} : at'[p] = at[p],
           creating' \subseteq creating, at[q] \notin {"create", "failed"} \/ at'[q] = "failed"
    PROVE  LocksInv'
<1>1. ASSUME NEW l \in creating'
      PROVE  (l.by \in Clients /\ l = [key |-> LockKey(l.by), by |-> l.by] /\ at[l.by] \in {"create", "failed"})'
  <2>1. PICK p : p = l.by
    OBVIOUS
  <2>2. p \in Clients /\ l = [key |-> LockKey(p), by |-> p] /\ at[p] \in {"create", "failed"}
    BY <2>1 DEF LocksInv
  <2>3. LockKey(p)' = LockKey(p)
    BY DEF LockKey
  <2>4. at'[p] \in {"create", "failed"}
    BY <2>2
  <2>5. QED  BY <2>1, <2>2, <2>3, <2>4
<1>2. QED  BY <1>1 DEF LocksInv

LEMMA TypeInvNext ==
    ASSUME DirectoryInv, KoddiInv, TypeInv, [Next]_vars
    PROVE  TypeInv'
<1> USE DEF storeVars, localVars
<1>1. DOMAIN at = Clients /\ DOMAIN todo = Clients /\ DOMAIN details = Clients /\ LocksInv
  BY DEF DirectoryInv, LocalShape, KoddiInv, KoddiShape, TypeInv
<1>2. CASE \E q \in Clients : ReportStep(q)
  <2>1. PICK q \in Clients : ReportStep(q)
    BY <1>2
  <2>2. OneGoes(q) /\ UNCHANGED <<ask, creating>> /\ ask[q].kind = "report"
    BY <1>1, <2>1, ReportStepGoes, ReportStepElsewhere DEF Elsewhere
  <2>3. \A p \in Clients \ {q} : at'[p] = at[p] /\ todo'[p] = todo[p]
    <3>1. CASE BeginReport(q) \/ ReadFilter(q) \/ Translate(q)
      BY <1>1, <2>2, <3>1 DEF OneGoes, BeginReport, ReadFilter, Translate, Forget
    <3>2. CASE ~ (BeginReport(q) \/ ReadFilter(q) \/ Translate(q))
      <4>1. todo' = todo
        BY <2>1, <3>2 DEF ReportStep, ReadAdvertisers, BuildScope, SearchFilter, KeepFilter, Send, ReadLongs,
           ReadShorts, FetchMissing, KeepLongs, KeepShorts, reportVars
      <4>2. QED  BY <2>2, <4>1 DEF OneGoes
    <3>3. QED  BY <3>1, <3>2
  <2>4. at[q] \notin {"create", "failed"}
    BY <2>1 DEF ReportStep, BeginReport, ReadAdvertisers, BuildScope, ReadFilter, SearchFilter, KeepFilter, Send,
       ReadLongs, ReadShorts, FetchMissing, KeepLongs, KeepShorts, Translate
  <2>5. QED  BY <1>1, <2>2, <2>3, <2>4, LocksOne DEF TypeInv
<1>3. CASE \E q \in Clients : DirectoryStep(q)
  <2>1. PICK q \in Clients : DirectoryStep(q)
    BY <1>3
  <2>2. /\ ask' = ask /\ at[q] # "failed"
        /\ \A p \in Clients \ {q} : at'[p] = at[p] /\ todo'[p] = todo[p]
    BY <1>1, <2>1, DirectoryStepBy, DirectoryStepAlone
  <2>3. ask[q].kind \in {"koddi", "none"} => todo'[q] = << >>
    <3>1. SUFFICES ASSUME ask[q].kind \in {"koddi", "none"} PROVE todo'[q] = << >>
      OBVIOUS
    <3>2. todo[q] = << >>
      BY <3>1 DEF TypeInv
    <3>3. at[q] \notin ListCalls \cup PlacementCalls
      BY <3>1 DEF DirectoryInv, WorkOf, ListKinds
    <3>4. Begin(q) \/ KoddiStep(q)
      BY <2>1, <3>3 DEF DirectoryStep, KoddiStep, List, AssignBatch, ReadDetails, SaveContacts, SaveAdvertisers,
         CacheCorporate, AssignAddress, SaveAddresses, ReadPlacement, AssignPlacement, NamePlacement, DetailPlacement,
         ListCalls, PlacementCalls
    <3>5. CASE Begin(q)
      BY <1>1, <3>1, <3>5 DEF Begin
    <3>6. CASE KoddiStep(q)
      BY <1>1, <3>2, <3>6 DEF KoddiStep, ReadKoddi, ListKoddi, KeepBrands, ReadKoddiAgain, FindAdvertiser,
         LockCreation, Create, KeepKoddi, Forget
    <3>7. QED  BY <3>4, <3>5, <3>6
  <2>4. \A p \in Clients : ask'[p].kind \in {"koddi", "none"} => todo'[p] = << >>
    BY <2>2, <2>3 DEF TypeInv
  <2>5. LocksInv'
    <3>1. CASE LockCreation(q)
      <4>1. at[q] = "lock" /\ at'[q] \in {"create", "create unlocked"}
        BY <1>1, <3>1 DEF LockCreation, Goto
      <4>2. CASE creating' = creating
        BY <1>1, <2>2, <4>1, <4>2, LocksOne
      <4>3. CASE creating' = creating \cup {[key |-> LockKey(q), by |-> q]} /\ Goto(q, "create")
        <5>1. at'[q] = "create"
          BY <1>1, <4>3 DEF Goto
        <5>2. ASSUME NEW l \in creating'
              PROVE  (l.by \in Clients /\ l = [key |-> LockKey(l.by), by |-> l.by] /\ at[l.by] \in {"create", "failed"})'
          <6>1. CASE l \in creating
            <7>1. PICK p : p = l.by
              OBVIOUS
            <7>2. p \in Clients /\ l = [key |-> LockKey(p), by |-> p] /\ at[p] \in {"create", "failed"}
              BY <1>1, <6>1, <7>1 DEF LocksInv
            <7>3. LockKey(p)' = LockKey(p) /\ at'[p] = at[p]
              BY <2>2, <4>1, <7>2 DEF LockKey
            <7>4. QED  BY <7>1, <7>2, <7>3
          <6>2. CASE l = [key |-> LockKey(q), by |-> q]
            <7>1. LockKey(q)' = LockKey(q) /\ l.by = q
              BY <2>2, <6>2 DEF LockKey
            <7>2. QED  BY <5>1, <6>2, <7>1
          <6>3. QED  BY <4>3, <5>2, <6>1, <6>2
        <5>3. QED  BY <5>2 DEF LocksInv
      <4>4. QED  BY <3>1, <4>2, <4>3 DEF LockCreation
    <3>2. CASE Create(q)
      <4>1. PICK mine : mine = [key |-> LockKey(q), by |-> q]
        OBVIOUS
      <4>2. creating' = creating \ {mine}
        BY <3>2, <4>1 DEF Create
      <4>3. ASSUME NEW l \in creating'
            PROVE  (l.by \in Clients /\ l = [key |-> LockKey(l.by), by |-> l.by] /\ at[l.by] \in {"create", "failed"})'
        <5>1. PICK p : p = l.by
          OBVIOUS
        <5>2. p \in Clients /\ l = [key |-> LockKey(p), by |-> p] /\ at[p] \in {"create", "failed"}
          BY <1>1, <4>2, <4>3, <5>1 DEF LocksInv
        <5>3. p # q
          BY <4>1, <4>2, <4>3, <5>2
        <5>4. LockKey(p)' = LockKey(p) /\ at'[p] = at[p]
          BY <2>2, <5>2, <5>3 DEF LockKey
        <5>5. QED  BY <5>1, <5>2, <5>4
      <4>4. QED  BY <4>3 DEF LocksInv
    <3>3. CASE ~ LockCreation(q) /\ ~ Create(q)
      <4>1. creating' = creating /\ at[q] # "create"
        BY <2>1, <3>3 DEF DirectoryStep, Begin, Enter, List, AssignBatch, ReadDetails, SaveContacts, SaveAdvertisers,
           CacheCorporate, AssignAddress, SaveAddresses, ReadPlacement, AssignPlacement, NamePlacement,
           DetailPlacement, ReadKoddi, ListKoddi, KeepBrands, ReadKoddiAgain, FindAdvertiser, KeepKoddi
      <4>2. QED  BY <1>1, <2>2, <4>1, LocksOne
    <3>4. QED  BY <3>1, <3>2, <3>3
  <2>6. QED  BY <2>4, <2>5 DEF TypeInv
<1>4. CASE \E q \in Clients : FailReport(q)
  <2>1. PICK q \in Clients : FailReport(q)
    BY <1>4
  <2>2. /\ ask' = ask /\ creating' \subseteq creating /\ at'[q] = "failed" /\ todo'[q] = << >>
        /\ \A p \in Clients \ {q} : at'[p] = at[p] /\ todo'[p] = todo[p]
    BY <1>1, <2>1 DEF FailReport, Fail, Forget, Goto
  <2>3. QED  BY <1>1, <2>2, LocksOne DEF TypeInv
<1>5. CASE LeaseRunsOut
  BY <1>5 DEF LeaseRunsOut, TypeInv, LocksInv, LockKey
<1>6. ASSUME UNCHANGED <<ask, at, todo, creating>> PROVE TypeInv'
  BY <1>6 DEF TypeInv, LocksInv, LockKey
<1>7. CASE LookupFilled \/ Partner \/ UNCHANGED vars
  BY <1>6, <1>7 DEF LookupFilled, Partner, vars, dirVars
<1>8. QED  BY <1>2, <1>3, <1>4, <1>5, <1>7 DEF Next

(* The variables have their types, and a creation lock is held by no       *)
(* request but one that creates or was stopped there.                      *)
(* [report_service.py, advertiser_service.py, koddi_sso_gateway.py]        *)
THEOREM ReportTypeCorrect == Spec => []ReportTypeOK
<1>1. ReportInit => TypeInv
  BY DEF ReportInit, DirectoryInit, TypeInv, LocksInv
<1>2. DirectoryInv /\ KoddiInv /\ TypeInv /\ [Next]_vars => TypeInv'
  BY TypeInvNext
<1>3. DirectoryInv /\ KoddiInv /\ RowsInv /\ TypeInv => ReportTypeOK
  <2> SUFFICES ASSUME DirectoryInv, KoddiInv, RowsInv, TypeInv PROVE ReportTypeOK
    OBVIOUS
  <2>1. DOMAIN owner = Types /\ DOMAIN ask = Clients /\ at \in [Clients -> Over \cup Calls]
    BY MixesAssumption DEF DirectoryInv, LocalShape
  <2>2. ASSUME NEW q \in Clients, ask[q].kind \notin {"report", "placements"}
        PROVE  ToSet(todo[q]) \subseteq DOMAIN ids[q]
    <3>1. ask[q].kind \in Kinds
      BY MixesAssumption DEF DirectoryInv
    <3>2. CASE ask[q].kind \in ListKinds
      BY <3>2 DEF DirectoryInv, WorkOf
    <3>3. CASE ask[q].kind \in {"koddi", "none"}
      BY <3>3 DEF TypeInv, ToSet
    <3>4. QED  BY <2>2, <3>1, <3>2, <3>3 DEF Kinds, ListKinds
  <2>3. \A q \in Clients : koddi[q] \in {None} \cup DOMAIN advertisers
    BY DEF KoddiInv, KoddiOf, Fits
  <2>4. \A q \in Clients : met[q] \subseteq Clients \ {q}
    BY DEF KoddiInv, MetInv
  <2>5. \A q \in Clients : \A t \in DOMAIN NoRows : rows[q][t] \subseteq {e.koddi : e \in Of(t)}
    BY DEF RowsInv, RowsOf, RowTypes, NoRows
  <2>6. \A q \in Clients : DOMAIN cached[q] \in {{}, DOMAIN group[q]}
    BY DEF RowsInv, RowsOf
  <2>7. \A l \in creating : at[l.by] \in {"create", "failed"}
    BY DEF TypeInv, LocksInv
  <2>8. QED  BY <2>1, <2>2, <2>3, <2>4, <2>5, <2>6, <2>7 DEF ReportTypeOK
<1>4. QED  BY <1>1, <1>2, <1>3, DirectoryInvHolds, KoddiInvHolds, RowsInvHolds, PTL DEF Spec
-----------------------------------------------------------------------------
(* A contacts request that met no other, and the contacts whose account    *)
(* it has seen to: those of its lists that it is done with.                *)
Alone(q) == ask[q].kind = "contacts" /\ met[q] = {}

Holding == {"assign", "details", "save"}

IsDue(q, x) ==
    \/ /\ at[q] \in {"list"} \cup Holding /\ source[q] # ask[q].account
       /\ x \in ToSet(ContactsOf[ask[q].account])
    \/ /\ at[q] = "done"
       /\ x \in ToSet(ContactsOf[ask[q].account]) \cup ToSet(ContactsOf[ask[q].agency])

(* Under i, the short id of x, are details that name the account.          *)
KeptUnder(q, x, i) ==
    /\ <<"CONTACT", x>> \in DOMAIN redis /\ redis[<<"CONTACT", x>>] = i
    /\ <<"CONTACT", i>> \in DOMAIN redis /\ ask[q].account \in redis[<<"CONTACT", i>>].accountIds

Kept(q, x) == \E i : KeptUnder(q, x, i)

(* What a contacts request has of its list is what upstream listed, and    *)
(* if it is alone its short ids are those in Redis.                        *)
ListOf(q) ==
    ask[q].kind = "contacts" =>
        /\ at[q] \in {"list"} \cup Holding => source[q] \in {ask[q].account, ask[q].agency}
        /\ at[q] \in Holding => todo[q] = ContactsOf[source[q]]
        /\ Alone(q) /\ at[q] \in Holding =>
              \A x \in ToSet(todo[q]) : ids[q][x] = Get(redis, "CONTACT", x)

(* Whoever works on a contact that is seen to has read its short id, and   *)
(* later details that name the account.                                    *)
Heeds(r, q, x) ==
    ask[r].kind = "contacts" /\ x \in ToSet(todo[r]) =>
        /\ at[r] = "assign" => ids[r][x] # None
        /\ at[r] = "save" => \A i : KeptUnder(q, x, i) /\ ids[r][x] = i =>
              details[r][i] # None /\ ask[q].account \in details[r][i].accountIds

SeenTo(q) ==
    Alone(q) => \A x \in Named : IsDue(q, x) => Kept(q, x) /\ \A r \in Clients : Heeds(r, q, x)

(* Details of contacts, in Redis and as they were read.                    *)
ContactRecords == [id : Named, accountIds : SUBSET DOMAIN ContactsOf]

RecordsOk ==
    /\ \A i \in Nat : <<"CONTACT", i>> \in DOMAIN redis => redis[<<"CONTACT", i>>] \in ContactRecords
    /\ \A r \in Clients : at[r] = "save" /\ ask[r].kind = "contacts" =>
          \A x \in ToSet(todo[r]) : details[r][ids[r][x]] \in ContactRecords \cup {None}

KeepInv == RecordsOk /\ \A q \in Clients : ListOf(q) /\ SeenTo(q)
-----------------------------------------------------------------------------
(* What Redis has of contacts is as it was.                                *)
ContactsSame ==
    \A x : /\ <<"CONTACT", x>> \in DOMAIN redis' <=> <<"CONTACT", x>> \in DOMAIN redis
           /\ <<"CONTACT", x>> \in DOMAIN redis => redis'[<<"CONTACT", x>>] = redis[<<"CONTACT", x>>]

Held(p) ==
    /\ at'[p] = at[p] /\ source'[p] = source[p] /\ todo'[p] = todo[p]
    /\ ids'[p] = ids[p] /\ details'[p] = details[p]

(* Whoever writes under another type leaves the contacts alone.            *)
LEMMA OtherTypesSame ==
    ASSUME redis' = redis \/ \E type, f : type # "CONTACT" /\ redis' = MPut(redis, type, f)
    PROVE  ContactsSame
<1>1. CASE redis' = redis
  BY <1>1 DEF ContactsSame
<1>2. CASE \E type, f : type # "CONTACT" /\ redis' = MPut(redis, type, f)
  <2>1. PICK type, f : type # "CONTACT" /\ redis' = MPut(redis, type, f)
    BY <1>2
  <2>2. PICK new : new = {<<type, y>> : y \in DOMAIN f}
    OBVIOUS
  <2>3. ASSUME NEW x PROVE <<"CONTACT", x>> \notin new
    BY <2>1, <2>2
  <2>4. DOMAIN redis' = new \cup DOMAIN redis /\ \A k \in DOMAIN redis \ new : redis'[k] = redis[k]
    BY <2>1, <2>2 DEF MPut, Onto
  <2>5. QED  BY <2>3, <2>4 DEF ContactsSame
<1>3. QED  BY <1>1, <1>2

(* What does not change goes on to be so.                                  *)
LEMMA KeptStays ==
    ASSUME ContactsSame, ask' = ask, NEW q, NEW x, NEW i
    PROVE  KeptUnder(q, x, i)' <=> KeptUnder(q, x, i)
BY DEF ContactsSame, KeptUnder

LEMMA ListStays ==
    ASSUME NEW p, ListOf(p), Held(p), ask' = ask, Alone(p)' => Alone(p) /\ (at[p] \in Over \/ ContactsSame)
    PROVE  ListOf(p)'
<1>1. at[p] \in Over => at[p] \notin Holding
  BY DEF Over, Holding
<1>2. ContactsSame => \A x : Get(redis, "CONTACT", x)' = Get(redis, "CONTACT", x)
  BY DEF ContactsSame, Get
<1>3. ASSUME ask[p].kind = "contacts" PROVE ListOf(p)'
  <2>1. at'[p] \in {"list"} \cup Holding => source'[p] \in {ask'[p].account, ask'[p].agency}
    BY <1>3 DEF ListOf, Held
  <2>2. at'[p] \in Holding => todo'[p] = ContactsOf[source'[p]]
    BY <1>3 DEF ListOf, Held
  <2>3. ASSUME Alone(p)', at'[p] \in Holding, NEW x \in ToSet(todo'[p])
        PROVE  ids'[p][x] = Get(redis, "CONTACT", x)'
    BY <1>1, <1>2, <1>3, <2>3 DEF ListOf, Held
  <2>4. QED  BY <2>1, <2>2, <2>3 DEF ListOf
<1>4. QED  BY <1>3 DEF ListOf

LEMMA DueStays ==
    ASSUME NEW p, Held(p), ask' = ask, NEW x
    PROVE  IsDue(p, x)' <=> IsDue(p, x)
BY DEF Held, IsDue

LEMMA HeedsStays ==
    ASSUME NEW r, NEW p, NEW x, Heeds(r, p, x), Held(r), ask' = ask,
           NEW i, KeptUnder(p, x, i), KeptUnder(p, x, i)'
    PROVE  Heeds(r, p, x)'
<1>1. ASSUME NEW j, KeptUnder(p, x, j)' PROVE j = i
  BY <1>1 DEF KeptUnder
<1>2. SUFFICES ASSUME ask[r].kind = "contacts", x \in ToSet(todo[r])
               PROVE  Heeds(r, p, x)'
  BY DEF Heeds, Held
<1>3. at'[r] = "assign" => ids'[r][x] # None
  BY <1>2 DEF Heeds, Held
<1>4. ASSUME at'[r] = "save", NEW j, KeptUnder(p, x, j)', ids'[r][x] = j
      PROVE  details'[r][j] # None /\ ask'[p].account \in details'[r][j].accountIds
  BY <1>1, <1>2, <1>4 DEF Heeds, Held
<1>5. QED  BY <1>3, <1>4 DEF Heeds

(* One request takes a step.  Those that met no other are over, unless it  *)
(* leaves the contacts alone.                                              *)
LEMMA KeepOne ==
    ASSUME KeepInv, NEW r \in Clients, ask' = ask, \A p \in Clients \ {r} : Held(p), RecordsOk',
           \A p \in Clients, x \in Named : Alone(p) /\ IsDue(p, x) =>
               \A i : KeptUnder(p, x, i) => KeptUnder(p, x, i)',
           \A p \in Clients \ {r} : Alone(p)' => Alone(p) /\ (at[p] \in Over \/ ContactsSame),
           ListOf(r)',
           \A p \in Clients \ {r}, x \in Named : Alone(p) /\ IsDue(p, x) => Heeds(r, p, x)',
           \A x \in Named : Alone(r)' /\ IsDue(r, x)' => Kept(r, x)' /\ \A p \in Clients : Heeds(p, r, x)'
    PROVE  KeepInv'
<1>1. \A p \in Clients \ {r} : ListOf(p)'
  BY ListStays DEF KeepInv
<1>2. SeenTo(r)'
  BY DEF SeenTo
<1>3. ASSUME NEW p \in Clients \ {r}, Alone(p)', NEW x \in Named, IsDue(p, x)'
      PROVE  Kept(p, x)' /\ \A s \in Clients : Heeds(s, p, x)'
  <2>1. Alone(p) /\ IsDue(p, x)
    BY <1>3, DueStays
  <2>2. Kept(p, x) /\ \A s \in Clients : Heeds(s, p, x)
    BY <2>1 DEF KeepInv, SeenTo
  <2>3. PICK i : KeptUnder(p, x, i)
    BY <2>2 DEF Kept
  <2>4. KeptUnder(p, x, i)'
    BY <2>1, <2>3
  <2>5. \A s \in Clients \ {r} : Heeds(s, p, x)'
    BY <2>2, <2>3, <2>4, HeedsStays
  <2>6. Heeds(r, p, x)'
    BY <2>1
  <2>7. Kept(p, x)'
    BY <2>4 DEF Kept
  <2>8. QED  BY <2>5, <2>6, <2>7
<1>4. \A p \in Clients \ {r} : SeenTo(p)'
  BY <1>3 DEF SeenTo
<1>5. QED  BY <1>1, <1>2, <1>4 DEF KeepInv
-----------------------------------------------------------------------------
(* Who takes a step is met by those who run.                               *)
LEMMA AloneApart ==
    ASSUME DirectoryInv, MetInv, NEW r \in Clients, DirectoryStep(r), NEW p \in Clients \ {r}, Alone(p)'
    PROVE  Alone(p) /\ at[p] \in Over
<1>1. ask' = ask /\ ask[r].kind # "report" /\ ask[p].kind = "contacts"
  BY DirectoryStepBy DEF Alone
<1>2. CASE Begin(r)
  <2>1. met[p] \subseteq met'[p]
    BY <1>2, BeginMeets
  <2>2. met'[p] = CASE p = r -> Running [] p \in Running -> met[p] \cup {r} [] OTHER -> met[p]
    BY <1>2 DEF Begin, Enter
  <2>3. p \in Running => r \in met'[p]
    BY <2>2
  <2>4. QED  BY <1>1, <2>1, <2>3 DEF Alone, Running
<1>3. CASE ListStep(r) \/ KoddiStep(r)
  <2>1. OneGoes(r) /\ met' = met
    BY <1>3, ListStepGoes, KoddiStepGoes
  <2>2. at[r] \notin Over
    BY <1>1, <2>1 DEF OneGoes
  <2>3. at[p] \in Over
    BY <1>1, <2>1, <2>2 DEF MetInv, Alone
  <2>4. QED  BY <1>1, <2>1, <2>3 DEF Alone
<1>4. QED  BY <1>2, <1>3 DEF DirectoryStep, ListStep, KoddiStep

(* Who is alone has nobody to heed it.                                     *)
LEMMA NobodyElse ==
    ASSUME MetInv, NEW r \in Clients, Alone(r), at[r] \notin Over, NEW p \in Clients \ {r}, Held(p), ask' = ask, NEW x
    PROVE  Heeds(p, r, x)'
<1>1. ask[p].kind = "contacts" => at[p] \in Over
  BY DEF MetInv, Alone
<1>2. QED  BY <1>1 DEF Heeds, Held, Over

(* Requests of other kinds leave the contacts alone.                       *)
LEMMA OthersWrite ==
    ASSUME NEW q, DirectoryStep(q), ask[q].kind # "contacts"
    PROVE  redis' = redis \/ \E type \in (Types \ {"CONTACT"}) \cup {"KODDI_ADVERTISER"} : \E f : redis' = MPut(redis, type, f)
<1> DEFINE T == (Types \ {"CONTACT"}) \cup {"KODDI_ADVERTISER"}
<1> USE DEF storeVars, localVars
<1>1. ASSUME NEW t \in T, NEW x, NEW v, redis' = Put(redis, t, x, v)
      PROVE  \E type \in T : \E f : redis' = MPut(redis, type, f)
  BY <1>1, PutIsMPut
<1>2. CASE AssignBatch(q) \/ SaveContacts(q) \/ SaveAdvertisers(q) \/ SaveAddresses(q)
  BY <1>2 DEF Types, AssignBatch, SaveContacts, SaveAdvertisers, SaveAddresses,
     SetAdvertiserIds, SetAdvertiserDetails, SetAddressDetails
<1>3. CASE CacheCorporate(q) \/ AssignAddress(q) \/ AssignPlacement(q) \/ NamePlacement(q) \/ DetailPlacement(q)
  <2>1. redis' = redis \/ \E t \in T : \E x, v : redis' = Put(redis, t, x, v)
    BY <1>3 DEF Types, CacheCorporate, AssignAddress, AssignPlacement, NamePlacement, DetailPlacement,
       SetCorporate, SetPlacementName, SetPlacementDetails
  <2>2. QED  BY <1>1, <2>1
<1>4. CASE KeepBrands(q) \/ KeepKoddi(q)
  BY <1>4 DEF KeepBrands, KeepKoddi, SetKoddiAdvertisers
<1>5. CASE Begin(q) \/ List(q) \/ ReadDetails(q) \/ ReadPlacement(q) \/ ReadKoddi(q) \/ ListKoddi(q) \/ ReadKoddiAgain(q)
           \/ FindAdvertiser(q) \/ LockCreation(q) \/ Create(q)
  BY <1>5 DEF Begin, List, ReadDetails, ReadPlacement, ReadKoddi, ListKoddi, ReadKoddiAgain, FindAdvertiser,
     LockCreation, Create
<1>6. QED  BY <1>2, <1>3, <1>4, <1>5 DEF DirectoryStep

LEMMA OthersLeaveContacts ==
    ASSUME NEW q, DirectoryStep(q), ask[q].kind # "contacts"
    PROVE  ContactsSame
<1>1. redis' = redis \/ \E type, f : type # "CONTACT" /\ redis' = MPut(redis, type, f)
  BY OthersWrite
<1>2. QED  BY <1>1, OtherTypesSame

LEMMA ReportsLeaveContacts ==
    ASSUME RowsInv, NEW q \in Clients, ReportStep(q)
    PROVE  ContactsSame
<1> USE DEF storeVars
<1>1. redis' = redis \/ \E type, f : type # "CONTACT" /\ redis' = MPut(redis, type, f)
  BY DEF ReportStep, BeginReport, ReadAdvertisers, BuildScope, ReadFilter, SearchFilter, KeepFilter, Send, ReadLongs,
     ReadShorts, FetchMissing, KeepLongs, KeepShorts, Translate, SetKoddiByShort, SetCampaignByKoddi,
     SetAdGroupByKoddi, SetShortCampaign, SetShortAdGroup
<1>2. QED  BY <1>1, OtherTypesSame

(* The records stay when the contacts do.                                  *)
LEMMA RecordsStay ==
    ASSUME RecordsOk, ContactsSame, ask' = ask, NEW r, \A p \in Clients \ {r} : Held(p),
           at'[r] # "save" \/ ask[r].kind # "contacts"
    PROVE  RecordsOk'
<1>1. \A i \in Nat : <<"CONTACT", i>> \in DOMAIN redis' => redis'[<<"CONTACT", i>>] \in ContactRecords
  BY DEF RecordsOk, ContactsSame
<1>2. ASSUME NEW p \in Clients, at'[p] = "save", ask[p].kind = "contacts", NEW x \in ToSet(todo'[p])
      PROVE  details'[p][ids'[p][x]] \in ContactRecords \cup {None}
  BY <1>2 DEF RecordsOk, Held
<1>3. QED  BY <1>1, <1>2 DEF RecordsOk, ContactRecords

(* A step of a request that is not about contacts, or one that ends.       *)
LEMMA KeepApart ==
    ASSUME KeepInv, NEW r \in Clients, ask' = ask, \A p \in Clients \ {r} : Held(p) /\ met[p] \subseteq met'[p],
           ContactsSame, ask[r].kind # "contacts" \/ (at'[r] = "failed" /\ todo'[r] = << >>)
    PROVE  KeepInv'
<1>1. RecordsOk'
  BY RecordsStay DEF KeepInv
<1>2. \A p \in Clients, x \in Named : \A i : KeptUnder(p, x, i) => KeptUnder(p, x, i)'
  BY KeptStays
<1>3. \A p \in Clients \ {r} : Alone(p)' => Alone(p)
  BY DEF Alone
<1>4. ToSet(<< >>) = {}
  BY DEF ToSet
<1>5. ListOf(r)'
  BY DEF ListOf, Holding
<1>6. \A p \in Clients, x \in Named : Heeds(r, p, x)'
  BY <1>4 DEF Heeds
<1>7. ASSUME NEW x \in Named, Alone(r)', IsDue(r, x)' PROVE FALSE
  BY <1>7 DEF Alone, IsDue, Holding
<1>8. QED  BY <1>1, <1>2, <1>3, <1>5, <1>6, <1>7, KeepOne

LEMMA KeepSame ==
    ASSUME KeepInv, ask' = ask, met' = met, \A p \in Clients : Held(p), ContactsSame
    PROVE  KeepInv'
<1>1. RecordsOk'
  <2>1. \A i \in Nat : <<"CONTACT", i>> \in DOMAIN redis' => redis'[<<"CONTACT", i>>] \in ContactRecords
    BY DEF KeepInv, RecordsOk, ContactsSame
  <2>2. ASSUME NEW p \in Clients, at'[p] = "save", ask[p].kind = "contacts", NEW x \in ToSet(todo'[p])
        PROVE  details'[p][ids'[p][x]] \in ContactRecords \cup {None}
    BY <2>2 DEF KeepInv, RecordsOk, Held
  <2>3. QED  BY <2>1, <2>2 DEF RecordsOk, ContactRecords
<1>2. \A p \in Clients : ListOf(p)'
  BY ListStays DEF KeepInv, Alone
<1>3. ASSUME NEW p \in Clients, Alone(p), NEW x \in Named, IsDue(p, x)'
      PROVE  Kept(p, x)' /\ \A s \in Clients : Heeds(s, p, x)'
  <2>1. IsDue(p, x)
    BY <1>3, DueStays
  <2>2. Kept(p, x) /\ \A s \in Clients : Heeds(s, p, x)
    BY <1>3, <2>1 DEF KeepInv, SeenTo
  <2>3. PICK i : KeptUnder(p, x, i)
    BY <2>2 DEF Kept
  <2>4. KeptUnder(p, x, i)'
    BY <2>3, KeptStays
  <2>5. \A s \in Clients : Heeds(s, p, x)'
    BY <2>2, <2>3, <2>4, HeedsStays
  <2>6. Kept(p, x)'
    BY <2>4 DEF Kept
  <2>7. QED  BY <2>5, <2>6
<1>4. \A p \in Clients : SeenTo(p)'
  BY <1>3 DEF SeenTo, Alone
<1>5. QED  BY <1>1, <1>2, <1>4 DEF KeepInv
-----------------------------------------------------------------------------
(* Whom a step of the directory is not about holds what it had.            *)
LEMMA DirectoryStepHeld ==
    ASSUME DirectoryInv, DOMAIN details = Clients, NEW q \in Clients, DirectoryStep(q), NEW p \in Clients \ {q}
    PROVE  Held(p)
<1> USE DEF localVars
<1>1. DOMAIN source = Clients
  BY DEF DirectoryInv, LocalShape
<1>2. source'[p] = source[p]
  BY <1>1 DEF DirectoryStep, Begin, List, AssignBatch, ReadDetails, SaveContacts, SaveAdvertisers, CacheCorporate,
     AssignAddress, SaveAddresses, ReadPlacement, AssignPlacement, NamePlacement, DetailPlacement, ReadKoddi,
     ListKoddi, KeepBrands, ReadKoddiAgain, FindAdvertiser, LockCreation, Create, KeepKoddi, NextList, Forget
<1>3. QED  BY <1>2, DirectoryStepAlone DEF Held

(* What a contacts request has, and what Redis leads to from a contact.    *)
LEMMA ContactsWork ==
    ASSUME DirectoryInv, NEW r \in Clients, ask[r].kind = "contacts"
    PROVE  /\ ToSet(todo[r]) \subseteq Named /\ {ask[r].account, ask[r].agency} \subseteq DOMAIN ContactsOf
           /\ \A x \in ToSet(todo[r]) : ids[r][x] = None \/ (ids[r][x] \in Nat /\ Names("CONTACT", ids[r][x], x))
           /\ at[r] \in {"details", "save"} => \A x \in ToSet(todo[r]) : ids[r][x] # None
<1>1. TypeOf(r) = "CONTACT" /\ WorkOf(r) /\ "CONTACT" \in Types
  BY DEF TypeOf, DirectoryInv, Types
<1>2. owner["CONTACT"] \in Seq(Named)
  BY <1>1 DEF DirectoryInv
<1>3. todo[r] \in Seq(Named) /\ ToSet(todo[r]) \subseteq DOMAIN ids[r]
  BY <1>1 DEF WorkOf, ListKinds
<1>4. \A i, x : Names("CONTACT", i, x) => i \in Nat
  BY <1>2 DEF Names
<1>5. {ask[r].account, ask[r].agency} \subseteq DOMAIN ContactsOf
  BY MixesAssumption DEF DirectoryInv
<1>6. ToSet(todo[r]) \subseteq Named
  BY <1>3 DEF ToSet
<1>7. \A x \in ToSet(todo[r]) : ids[r][x] = None \/ Names("CONTACT", ids[r][x], x)
  BY <1>1, <1>3 DEF WorkOf
<1>8. at[r] \in {"details", "save"} => \A x \in ToSet(todo[r]) : ids[r][x] # None
  BY <1>1 DEF WorkOf
<1>9. QED  BY <1>4, <1>5, <1>6, <1>7, <1>8

LEMMA KeptIsNamed ==
    ASSUME DirectoryInv, NEW p, NEW x \in Named, NEW i, KeptUnder(p, x, i)
    PROVE  i \in Nat /\ i # None /\ Names("CONTACT", i, x) /\ Get(redis, "CONTACT", x) = i
<1>1. "CONTACT" \in Types
  BY DEF Types
<1>2. Names("CONTACT", i, x) /\ Get(redis, "CONTACT", x) = i
  BY <1>1 DEF DirectoryInv, RedisNames, KeptUnder, Get
<1>3. owner["CONTACT"] \in Seq(Named)
  BY <1>1 DEF DirectoryInv
<1>4. i \in Nat
  BY <1>2, <1>3 DEF Names
<1>5. None \notin Nat
  BY ListsAssumption
<1>6. QED  BY <1>2, <1>4, <1>5

(* The contacts in Redis, with new ones over them.                         *)
ContactsOver(new) ==
    \A x : /\ x \in DOMAIN new => <<"CONTACT", x>> \in DOMAIN redis' /\ redis'[<<"CONTACT", x>>] = new[x]
           /\ x \notin DOMAIN new =>
                 /\ <<"CONTACT", x>> \in DOMAIN redis' <=> <<"CONTACT", x>> \in DOMAIN redis
                 /\ <<"CONTACT", x>> \in DOMAIN redis => redis'[<<"CONTACT", x>>] = redis[<<"CONTACT", x>>]

LEMMA ContactsArePut ==
    ASSUME NEW new, redis' = MPut(redis, "CONTACT", new)
    PROVE  ContactsOver(new)
<1>1. PICK of : of = {<<"CONTACT", y>> : y \in DOMAIN new}
  OBVIOUS
<1>2. /\ DOMAIN redis' = of \cup DOMAIN redis
      /\ \A k \in of : redis'[k] = new[k[2]]
      /\ \A k \in DOMAIN redis \ of : redis'[k] = redis[k]
  BY <1>1 DEF MPut, Onto
<1>3. \A x : <<"CONTACT", x>> \in of <=> x \in DOMAIN new
  BY <1>1
<1>4. QED  BY <1>2, <1>3 DEF ContactsOver

(* What is kept stays under what is written over contacts, if that is no   *)
(* new short id of the contact, and no details without the account.        *)
LEMMA KeptOver ==
    ASSUME NEW new, redis' = MPut(redis, "CONTACT", new), ask' = ask, NEW p, NEW x, NEW i, KeptUnder(p, x, i),
           x \notin DOMAIN new, i \in DOMAIN new => ask[p].account \in new[i].accountIds
    PROVE  KeptUnder(p, x, i)'
<1>1. ContactsOver(new)
  BY ContactsArePut
<1>2. <<"CONTACT", x>> \in DOMAIN redis' /\ redis'[<<"CONTACT", x>>] = i
  BY <1>1 DEF ContactsOver, KeptUnder
<1>3. <<"CONTACT", i>> \in DOMAIN redis' /\ ask[p].account \in redis'[<<"CONTACT", i>>].accountIds
  BY <1>1 DEF ContactsOver, KeptUnder
<1>4. QED  BY <1>2, <1>3 DEF KeptUnder

(* One call of a contacts request.                                         *)
LEMMA KeepCall ==
    ASSUME DirectoryInv, MetInv, KeepInv, DOMAIN details = Clients, NEW r \in Clients, DirectoryStep(r),
           at[r] \notin Over, met' = met, RecordsOk',
           \A p \in Clients, x \in Named : Alone(p) /\ IsDue(p, x) =>
               \A i : KeptUnder(p, x, i) => KeptUnder(p, x, i)',
           ListOf(r)',
           \A p \in Clients, x \in Named, i \in Nat : KeptUnder(p, x, i) => Heeds(r, p, x)',
           \A x \in Named : Alone(r) /\ IsDue(r, x)' => IsDue(r, x) \/ (Kept(r, x)' /\ Heeds(r, r, x)')
    PROVE  KeepInv'
<1>1. ask' = ask /\ \A p \in Clients \ {r} : Held(p)
  BY DirectoryStepBy, DirectoryStepHeld
<1>2. \A p \in Clients \ {r} : Alone(p)' => Alone(p) /\ (at[p] \in Over \/ ContactsSame)
  BY AloneApart
<1>3. ASSUME NEW p \in Clients, NEW x \in Named, Alone(p), IsDue(p, x)
      PROVE  Heeds(r, p, x)' /\ Kept(p, x)'
  <2>1. Kept(p, x)
    BY <1>3 DEF KeepInv, SeenTo
  <2>2. PICK i : KeptUnder(p, x, i)
    BY <2>1 DEF Kept
  <2>3. i \in Nat
    BY <2>2, KeptIsNamed
  <2>4. Heeds(r, p, x)'
    BY <2>2, <2>3
  <2>5. KeptUnder(p, x, i)'
    BY <1>3, <2>2
  <2>6. QED  BY <2>4, <2>5 DEF Kept
<1>4. ASSUME NEW x \in Named, Alone(r)', IsDue(r, x)'
      PROVE  Kept(r, x)' /\ \A p \in Clients : Heeds(p, r, x)'
  <2>1. Alone(r)
    BY <1>1, <1>4 DEF Alone
  <2>2. Kept(r, x)' /\ Heeds(r, r, x)'
    BY <1>3, <1>4, <2>1
  <2>3. \A p \in Clients \ {r} : Heeds(p, r, x)'
    BY <1>1, <2>1, NobodyElse
  <2>4. QED  BY <2>2, <2>3
<1>5. \A p \in Clients \ {r}, x \in Named : Alone(p) /\ IsDue(p, x) => Heeds(r, p, x)'
  BY <1>3
<1>6. QED  BY <1>1, <1>2, <1>4, <1>5, KeepOne
-----------------------------------------------------------------------------
(* The calls of a contacts request: it begins with no list, ...            *)
LEMMA BeginKept ==
    ASSUME DirectoryInv, MetInv, KeepInv, DOMAIN details = Clients, NEW r \in Clients, Begin(r), ask[r].kind = "contacts"
    PROVE  KeepInv'
<1> USE DEF storeVars
<1>1. /\ ask' = ask /\ redis' = redis /\ Goto(r, "list")
      /\ source' = [source EXCEPT ![r] = ask[r].account]
      /\ todo' = [todo EXCEPT ![r] = << >>]
  BY DEF Begin, Enter, FirstCall
<1>2. at'[r] = "list" /\ source'[r] = ask[r].account /\ todo'[r] = << >>
  BY <1>1 DEF DirectoryInv, LocalShape, Goto
<1>3. DirectoryStep(r)
  BY DEF DirectoryStep
<1>4. \A p \in Clients \ {r} : Held(p)
  BY <1>3, DirectoryStepHeld
<1>5. ContactsSame
  BY <1>1 DEF ContactsSame
<1>6. RecordsOk'
  BY <1>1, <1>2, <1>4, <1>5, RecordsStay DEF KeepInv
<1>7. \A p \in Clients, x \in Named : \A i : KeptUnder(p, x, i) => KeptUnder(p, x, i)'
  BY <1>1, <1>5, KeptStays
<1>8. \A p \in Clients \ {r} : Alone(p)' => Alone(p) /\ (at[p] \in Over \/ ContactsSame)
  BY <1>3, AloneApart
<1>9. ListOf(r)'
  BY <1>1, <1>2 DEF ListOf, Holding
<1>10. ToSet(<< >>) = {}
  BY DEF ToSet
<1>11. \A p \in Clients, x \in Named : Heeds(r, p, x)'
  BY <1>2, <1>10 DEF Heeds
<1>12. \A x \in Named : ~ IsDue(r, x)'
  BY <1>1, <1>2 DEF IsDue
<1>13. QED  BY <1>1, <1>4, <1>6, <1>7, <1>8, <1>9, <1>11, <1>12, KeepOne

(* ... reads the ids of a list, ...                                        *)
LEMMA ListKept ==
    ASSUME DirectoryInv, MetInv, KeepInv, DOMAIN details = Clients, NEW r \in Clients, List(r), ask[r].kind = "contacts"
    PROVE  KeepInv'
<1> USE DEF storeVars
<1>1. /\ ask' = ask /\ redis' = redis /\ met' = met /\ source' = source /\ Goto(r, "assign") /\ at[r] = "list"
      /\ todo' = [todo EXCEPT ![r] = Listed(r)]
      /\ ids' = [ids EXCEPT ![r] = IdsIn(r, ToSet(Listed(r)))]
  BY DEF List
<1>2. /\ Listed(r) = ContactsOf[source[r]]
      /\ IdsIn(r, ToSet(Listed(r))) = MGet(redis, "CONTACT", ToSet(Listed(r)))
  BY DEF Listed, ContactsUpstream, IdsIn, ContactIds
<1>3. /\ at'[r] = "assign" /\ source'[r] = source[r] /\ todo'[r] = ContactsOf[source[r]]
      /\ ids'[r] = MGet(redis, "CONTACT", ToSet(todo'[r]))
  BY <1>1, <1>2 DEF DirectoryInv, LocalShape, Goto
<1>4. \A x \in ToSet(todo'[r]) : ids'[r][x] = Get(redis, "CONTACT", x)
  BY <1>3 DEF MGet
<1>5. DirectoryStep(r) /\ at[r] \notin Over
  BY <1>1 DEF DirectoryStep, Over
<1>6. ContactsSame
  BY <1>1 DEF ContactsSame
<1>7. RecordsOk'
  <2>1. \A p \in Clients \ {r} : Held(p)
    BY <1>5, DirectoryStepHeld
  <2>2. QED  BY <1>1, <1>3, <1>6, <2>1, RecordsStay DEF KeepInv
<1>8. \A p \in Clients, x \in Named : \A i : KeptUnder(p, x, i) => KeptUnder(p, x, i)'
  BY <1>1, <1>6, KeptStays
<1>9. ListOf(r)'
  <2>1. source[r] \in {ask[r].account, ask[r].agency}
    BY <1>1 DEF KeepInv, ListOf
  <2>2. \A x \in ToSet(todo'[r]) : ids'[r][x] = Get(redis, "CONTACT", x)'
    BY <1>1, <1>4 DEF Get
  <2>3. QED  BY <1>1, <1>3, <2>1, <2>2 DEF ListOf
<1>10. ASSUME NEW p \in Clients, NEW x \in Named, NEW i \in Nat, KeptUnder(p, x, i)
       PROVE  Heeds(r, p, x)'
  <2>1. Get(redis, "CONTACT", x) # None
    BY <1>10, KeptIsNamed
  <2>2. QED  BY <1>3, <1>4, <2>1 DEF Heeds
<1>11. \A x \in Named : IsDue(r, x)' => IsDue(r, x)
  BY <1>1, <1>3 DEF IsDue, Holding
<1>12. QED  BY <1>1, <1>5, <1>7, <1>8, <1>9, <1>10, <1>11, KeepCall

(* ... gives ids to those that have none, which are not seen to, ...       *)
LEMMA AssignBatchKept ==
    ASSUME DirectoryInv, MetInv, KeepInv, DOMAIN details = Clients, NEW r \in Clients, AssignBatch(r),
           ask[r].kind = "contacts"
    PROVE  KeepInv'
<1> USE DEF storeVars
<1>1. PICK first : first = NextId("CONTACT")
  OBVIOUS
<1>2. PICK new : new = Assigned(Missing(r), first)
  OBVIOUS
<1>3. /\ ask' = ask /\ met' = met /\ source' = source /\ todo' = todo /\ details' = details
      /\ Goto(r, "details") /\ at[r] = "assign" /\ redis' = MPut(redis, "CONTACT", new)
      /\ ids' = [ids EXCEPT ![r] = Pair(r, first)] /\ Assign("CONTACT", Missing(r))
  BY <1>1, <1>2 DEF AssignBatch, SetContactIds
<1>4. at'[r] = "details" /\ ids'[r] = Pair(r, first)
  BY <1>3 DEF DirectoryInv, LocalShape, Goto
<1>5. ask[r].kind \in ListKinds
  BY DEF ListKinds
<1>6. Missing(r) \in Seq(Named) /\ ToSet(Missing(r)) = Lacking(r)
  BY <1>5, MissingProps
<1>7. DOMAIN new = Lacking(r) /\ \A x \in DOMAIN new : x \in Named /\ x \notin Nat
  <2>1. DOMAIN new = Lacking(r)
    BY <1>2, <1>6 DEF Assigned
  <2>2. Lacking(r) \subseteq Named
    BY ContactsWork DEF Lacking
  <2>3. QED  BY <2>1, <2>2, ListsAssumption
<1>8. DirectoryStep(r) /\ at[r] \notin Over
  BY <1>3 DEF DirectoryStep, Over
<1>9. ContactsOver(new)
  BY <1>3, ContactsArePut
<1>10. RecordsOk'
  <2>1. \A i \in Nat : <<"CONTACT", i>> \in DOMAIN redis' => redis'[<<"CONTACT", i>>] \in ContactRecords
    BY <1>7, <1>9 DEF KeepInv, RecordsOk, ContactsOver
  <2>2. ASSUME NEW p \in Clients, at'[p] = "save", ask[p].kind = "contacts", NEW x \in ToSet(todo'[p])
        PROVE  details'[p][ids'[p][x]] \in ContactRecords \cup {None}
    <3>1. p # r
      BY <1>4, <2>2
    <3>2. Held(p)
      BY <1>8, <3>1, DirectoryStepHeld
    <3>3. QED  BY <2>2, <3>2 DEF Held, KeepInv, RecordsOk
  <2>3. QED  BY <1>3, <2>1, <2>2 DEF RecordsOk, ContactRecords
<1>11. ASSUME NEW p \in Clients, NEW x \in Named, Alone(p), IsDue(p, x), NEW i, KeptUnder(p, x, i)
       PROVE  KeptUnder(p, x, i)'
  <2>1. Heeds(r, p, x)
    BY <1>11 DEF KeepInv, SeenTo
  <2>2. x \notin DOMAIN new
    BY <1>3, <1>7, <2>1 DEF Heeds, Lacking
  <2>3. i \notin DOMAIN new
    BY <1>7, <1>11, KeptIsNamed
  <2>4. QED  BY <1>3, <1>11, <2>2, <2>3, KeptOver
<1>12. ListOf(r)'
  <2>1. /\ source[r] \in {ask[r].account, ask[r].agency} /\ todo[r] = ContactsOf[source[r]]
        /\ Alone(r) => \A x \in ToSet(todo[r]) : ids[r][x] = Get(redis, "CONTACT", x)
    BY <1>3 DEF KeepInv, ListOf, Holding
  <2>2. ASSUME Alone(r)', NEW x \in ToSet(todo[r])
        PROVE  ids'[r][x] = Get(redis, "CONTACT", x)'
    <3>1. Alone(r)
      BY <1>3, <2>2 DEF Alone
    <3>2. ids'[r][x] = IF ids[r][x] = None THEN new[x] ELSE ids[r][x]
      BY <1>2, <1>4 DEF Pair
    <3>3. CASE ids[r][x] = None
      BY <1>7, <1>9, <3>2, <3>3 DEF Lacking, Get, ContactsOver
    <3>4. CASE ids[r][x] # None
      <4>1. x \notin DOMAIN new
        BY <1>7, <3>4 DEF Lacking
      <4>2. ids[r][x] = Get(redis, "CONTACT", x)
        BY <2>1, <3>1
      <4>3. QED  BY <1>9, <3>2, <3>4, <4>1, <4>2 DEF Get, ContactsOver
    <3>5. QED  BY <3>3, <3>4
  <2>3. QED  BY <1>3, <2>1, <2>2 DEF ListOf
<1>13. \A p \in Clients, x \in Named : Heeds(r, p, x)'
  BY <1>4 DEF Heeds
<1>14. \A x \in Named : IsDue(r, x)' => IsDue(r, x)
  BY <1>3, <1>4 DEF IsDue, Holding
<1>15. QED  BY <1>3, <1>8, <1>10, <1>11, <1>12, <1>13, <1>14, KeepCall
(* ... reads the details, ...                                              *)
LEMMA ReadDetailsKept ==
    ASSUME DirectoryInv, MetInv, KeepInv, DOMAIN details = Clients, NEW r \in Clients, ReadDetails(r),
           ask[r].kind = "contacts"
    PROVE  KeepInv'
<1> USE DEF storeVars
<1> DEFINE of == {ids[r][x] : x \in ToSet(todo[r])}
<1>1. /\ ask' = ask /\ redis' = redis /\ met' = met /\ source' = source /\ todo' = todo /\ ids' = ids
      /\ Goto(r, "save") /\ at[r] = "details"
      /\ details' = [details EXCEPT ![r] = MGet(redis, "CONTACT", of)]
  BY DEF ReadDetails, ContactDetails
<1>2. at'[r] = "save" /\ details'[r] = MGet(redis, "CONTACT", of)
  BY <1>1 DEF DirectoryInv, LocalShape, Goto
<1>3. \A x \in ToSet(todo[r]) : details'[r][ids[r][x]] = Get(redis, "CONTACT", ids[r][x])
  BY <1>2 DEF MGet
<1>4. DirectoryStep(r) /\ at[r] \notin Over
  BY <1>1 DEF DirectoryStep, Over
<1>5. ContactsSame
  BY <1>1 DEF ContactsSame
<1>6. \A x \in ToSet(todo[r]) : ids[r][x] \in Nat
  BY <1>1, ContactsWork
<1>7. RecordsOk'
  <2>1. \A i \in Nat : <<"CONTACT", i>> \in DOMAIN redis' => redis'[<<"CONTACT", i>>] \in ContactRecords
    BY <1>1 DEF KeepInv, RecordsOk
  <2>2. ASSUME NEW x \in ToSet(todo'[r])
        PROVE  details'[r][ids'[r][x]] \in ContactRecords \cup {None}
    BY <1>1, <1>3, <1>6, <2>2 DEF KeepInv, RecordsOk, Get
  <2>3. ASSUME NEW p \in Clients \ {r}, at'[p] = "save", ask[p].kind = "contacts", NEW x \in ToSet(todo'[p])
        PROVE  details'[p][ids'[p][x]] \in ContactRecords \cup {None}
    <3>1. Held(p)
      BY <1>4, DirectoryStepHeld
    <3>2. QED  BY <2>3, <3>1 DEF Held, KeepInv, RecordsOk
  <2>4. QED  BY <1>1, <2>1, <2>2, <2>3 DEF RecordsOk, ContactRecords
<1>8. \A p \in Clients, x \in Named : \A i : KeptUnder(p, x, i) => KeptUnder(p, x, i)'
  BY <1>1, <1>5, KeptStays
<1>9. ListOf(r)'
  <2>1. /\ source[r] \in {ask[r].account, ask[r].agency} /\ todo[r] = ContactsOf[source[r]]
        /\ Alone(r) => \A x \in ToSet(todo[r]) : ids[r][x] = Get(redis, "CONTACT", x)
    BY <1>1 DEF KeepInv, ListOf, Holding
  <2>2. Alone(r)' => \A x \in ToSet(todo'[r]) : ids'[r][x] = Get(redis, "CONTACT", x)'
    BY <1>1, <2>1 DEF Get, Alone
  <2>3. QED  BY <1>1, <2>1, <2>2 DEF ListOf
<1>10. ASSUME NEW p \in Clients, NEW x \in Named, NEW i \in Nat, KeptUnder(p, x, i)
       PROVE  Heeds(r, p, x)'
  <2>1. ASSUME x \in ToSet(todo'[r]), NEW j, KeptUnder(p, x, j)', ids'[r][x] = j
        PROVE  details'[r][j] # None /\ ask'[p].account \in details'[r][j].accountIds
    <3>1. KeptUnder(p, x, j)
      BY <1>1, <1>5, <2>1, KeptStays
    <3>2. j \in Nat /\ details'[r][j] = redis[<<"CONTACT", j>>] /\ <<"CONTACT", j>> \in DOMAIN redis
      BY <1>1, <1>3, <1>6, <2>1, <3>1 DEF Get, KeptUnder
    <3>3. redis[<<"CONTACT", j>>] \in ContactRecords
      BY <3>2 DEF KeepInv, RecordsOk
    <3>4. None \notin ContactRecords
      BY ListsAssumption DEF ContactRecords
    <3>5. QED  BY <1>1, <3>1, <3>2, <3>3, <3>4 DEF KeptUnder
  <2>2. QED  BY <1>2, <2>1 DEF Heeds
<1>11. \A x \in Named : IsDue(r, x)' => IsDue(r, x)
  BY <1>1, <1>2 DEF IsDue, Holding
<1>12. QED  BY <1>1, <1>4, <1>7, <1>8, <1>9, <1>10, <1>11, KeepCall

(* The details a contacts request writes: of the contacts of its list,     *)
(* each with the accounts cached and its own.                              *)
Written(r, under) ==
    /\ DOMAIN under = {ids[r][x] : x \in ToSet(todo[r])}
    /\ \A i \in DOMAIN under : \E x \in ToSet(todo[r]) :
          /\ i = ids[r][x]
          /\ under[i] = [id |-> x, accountIds |-> AccountIdsOf(r, details[r][i])]

LEMMA SaveContactsDoes ==
    ASSUME NEW r, SaveContacts(r)
    PROVE  \E under : Written(r, under) /\ redis' = MPut(redis, "CONTACT", under)
<1> DEFINE X == ToSet(todo[r])
           contact(x) == [id |-> x, accountIds |-> AccountIdsOf(r, details[r][ids[r][x]])]
           new == [i \in {ids[r][x] : x \in X} |-> contact(CHOOSE x \in X : ids[r][x] = i)]
<1>1. redis' = MPut(redis, "CONTACT", new)
  BY DEF SaveContacts, SetContactDetails
<1>2. PICK under : under = new
  OBVIOUS
<1>3. ASSUME NEW i \in {ids[r][x] : x \in X}
      PROVE  \E x \in X : i = ids[r][x] /\ under[i] = [id |-> x, accountIds |-> AccountIdsOf(r, details[r][i])]
  <2>1. PICK x : x = CHOOSE y \in X : ids[r][y] = i
    OBVIOUS
  <2>2. x \in X /\ ids[r][x] = i
    BY <2>1
  <2>3. under[i] = contact(x)
    BY <1>2, <2>1
  <2>4. QED  BY <2>2, <2>3
<1>4. DOMAIN under = {ids[r][x] : x \in X}
  BY <1>2
<1>5. QED  BY <1>1, <1>2, <1>3, <1>4 DEF Written

(* What is written names the account asked for, and those cached.          *)
LEMMA WrittenNames ==
    ASSUME DirectoryInv, KeepInv, NEW r \in Clients, at[r] = "save", ask[r].kind = "contacts",
           NEW under, Written(r, under)
    PROVE  /\ \A i \in DOMAIN under :
                 /\ i \in Nat /\ under[i] \in ContactRecords /\ ask[r].account \in under[i].accountIds
                 /\ \E x \in ToSet(todo[r]) : i = ids[r][x] /\ Names("CONTACT", i, x)
                 /\ details[r][i] # None => details[r][i].accountIds \subseteq under[i].accountIds
           /\ \A x \in Named : x \notin DOMAIN under
<1>1. ASSUME NEW i \in DOMAIN under
      PROVE  /\ i \in Nat /\ under[i] \in ContactRecords /\ ask[r].account \in under[i].accountIds
             /\ \E x \in ToSet(todo[r]) : i = ids[r][x] /\ Names("CONTACT", i, x)
             /\ details[r][i] # None => details[r][i].accountIds \subseteq under[i].accountIds
  <2>1. PICK x \in ToSet(todo[r]) :
            i = ids[r][x] /\ under[i] = [id |-> x, accountIds |-> AccountIdsOf(r, details[r][i])]
    BY DEF Written
  <2>2. x \in Named /\ i \in Nat /\ Names("CONTACT", i, x) /\ ask[r].account \in DOMAIN ContactsOf
    BY <2>1, ContactsWork
  <2>3. details[r][i] \in ContactRecords \cup {None}
    BY <2>1 DEF KeepInv, RecordsOk
  <2>4. AccountIdsOf(r, details[r][i]) \in SUBSET DOMAIN ContactsOf
    BY <2>2, <2>3 DEF AccountIdsOf, ContactRecords
  <2>5. under[i] \in ContactRecords
    BY <2>1, <2>2, <2>4 DEF ContactRecords
  <2>6. under[i].accountIds = AccountIdsOf(r, details[r][i])
    BY <2>1
  <2>7. ask[r].account \in under[i].accountIds
    BY <2>6 DEF AccountIdsOf
  <2>8. details[r][i] # None => details[r][i].accountIds \subseteq under[i].accountIds
    BY <2>6 DEF AccountIdsOf
  <2>9. QED  BY <2>1, <2>2, <2>5, <2>7, <2>8
<1>2. QED  BY <1>1, ListsAssumption

(* ... and writes them with its account, and with what they named before.  *)
LEMMA SaveContactsKept ==
    ASSUME DirectoryInv, MetInv, KeepInv, DOMAIN details = Clients, NEW r \in Clients, SaveContacts(r),
           ask[r].kind = "contacts"
    PROVE  KeepInv'
<1>1. ask' = ask /\ met' = met /\ at[r] = "save" /\ NextList(r)
  BY DEF SaveContacts
<1>2. PICK under : Written(r, under) /\ redis' = MPut(redis, "CONTACT", under)
  BY SaveContactsDoes
<1>3. /\ \A i \in DOMAIN under :
           /\ i \in Nat /\ under[i] \in ContactRecords /\ ask[r].account \in under[i].accountIds
           /\ \E x \in ToSet(todo[r]) : i = ids[r][x] /\ Names("CONTACT", i, x)
           /\ details[r][i] # None => details[r][i].accountIds \subseteq under[i].accountIds
      /\ \A x \in Named : x \notin DOMAIN under
  BY <1>1, <1>2, WrittenNames
<1>4. ContactsOver(under)
  BY <1>2, ContactsArePut
<1>5. DirectoryStep(r) /\ at[r] \notin Over
  BY <1>1 DEF DirectoryStep, Over
<1>6. /\ source[r] \in {ask[r].account, ask[r].agency} /\ todo[r] = ContactsOf[source[r]]
      /\ Alone(r) => \A x \in ToSet(todo[r]) : ids[r][x] = Get(redis, "CONTACT", x)
  BY <1>1 DEF KeepInv, ListOf, Holding
<1>7. \/ ask[r].agency \notin {None, source[r]} /\ at'[r] = "list" /\ source'[r] = ask[r].agency
      \/ ask[r].agency \in {None, source[r]} /\ at'[r] = "done"
  BY <1>1 DEF NextList, DirectoryInv, LocalShape, Goto
<1>8. RecordsOk'
  <2>1. \A i \in Nat : <<"CONTACT", i>> \in DOMAIN redis' => redis'[<<"CONTACT", i>>] \in ContactRecords
    BY <1>3, <1>4 DEF KeepInv, RecordsOk, ContactsOver
  <2>2. ASSUME NEW p \in Clients, at'[p] = "save", ask[p].kind = "contacts", NEW x \in ToSet(todo'[p])
        PROVE  details'[p][ids'[p][x]] \in ContactRecords \cup {None}
    <3>1. p # r
      BY <1>7, <2>2
    <3>2. Held(p)
      BY <1>5, <3>1, DirectoryStepHeld
    <3>3. QED  BY <2>2, <3>2 DEF Held, KeepInv, RecordsOk
  <2>3. QED  BY <1>1, <2>1, <2>2 DEF RecordsOk, ContactRecords
<1>9. ASSUME NEW p \in Clients, NEW x \in Named, Alone(p), IsDue(p, x), NEW i, KeptUnder(p, x, i)
      PROVE  KeptUnder(p, x, i)'
  <2>1. Heeds(r, p, x)
    BY <1>9 DEF KeepInv, SeenTo
  <2>2. ASSUME i \in DOMAIN under PROVE ask[p].account \in under[i].accountIds
    <3>1. PICK y \in ToSet(todo[r]) : i = ids[r][y] /\ Names("CONTACT", i, y)
      BY <1>3, <2>2
    <3>2. Names("CONTACT", i, x)
      BY <1>9, KeptIsNamed
    <3>3. x = y
      BY <3>1, <3>2 DEF Names
    <3>4. details[r][i] # None /\ ask[p].account \in details[r][i].accountIds
      BY <1>1, <1>9, <2>1, <3>1, <3>3 DEF Heeds
    <3>5. QED  BY <1>3, <2>2, <3>4
  <2>3. QED  BY <1>1, <1>2, <1>3, <1>9, <2>2, KeptOver
<1>10. ListOf(r)'
  BY <1>1, <1>7 DEF ListOf, Holding
<1>11. \A p \in Clients, x \in Named : Heeds(r, p, x)'
  BY <1>7 DEF Heeds
<1>12. ASSUME Alone(r), NEW x \in ToSet(todo[r]) PROVE Kept(r, x)'
  <2>1. PICK i : i = ids[r][x]
    OBVIOUS
  <2>2. i # None /\ i \in Nat /\ x \in Named
    BY <1>1, <2>1, ContactsWork
  <2>3. <<"CONTACT", x>> \in DOMAIN redis /\ redis[<<"CONTACT", x>>] = i
    BY <1>6, <1>12, <2>1, <2>2 DEF Get
  <2>4. i \in DOMAIN under
    BY <1>2, <2>1 DEF Written
  <2>5. <<"CONTACT", i>> \in DOMAIN redis' /\ ask[r].account \in redis'[<<"CONTACT", i>>].accountIds
    BY <1>3, <1>4, <2>4 DEF ContactsOver
  <2>6. <<"CONTACT", x>> \in DOMAIN redis' /\ redis'[<<"CONTACT", x>>] = i
    BY <1>3, <1>4, <2>2, <2>3 DEF ContactsOver
  <2>7. KeptUnder(r, x, i)'
    BY <1>1, <2>5, <2>6 DEF KeptUnder
  <2>8. QED  BY <2>7 DEF Kept
<1>13. ASSUME NEW x \in Named, Alone(r), IsDue(r, x)'
       PROVE  IsDue(r, x) \/ (Kept(r, x)' /\ Heeds(r, r, x)')
  <2>1. CASE x \in ToSet(todo[r])
    BY <1>11, <1>12, <1>13, <2>1
  <2>2. CASE x \notin ToSet(todo[r])
    <3>1. x \in ToSet(ContactsOf[ask[r].account]) \cup ToSet(ContactsOf[ask[r].agency])
      BY <1>1, <1>13 DEF IsDue
    <3>2. source[r] # ask[r].account \/ ask[r].agency = source[r] \/ ask[r].agency = None \/ at'[r] = "list"
      BY <1>7
    <3>3. ask[r].agency = None => ToSet(ContactsOf[ask[r].agency]) = {}
      <4>1. ask[r].agency \in DOMAIN ContactsOf /\ ToSet(<< >>) = {}
        BY ContactsWork DEF ToSet
      <4>2. QED  BY <4>1, ListsAssumption
    <3>4. at'[r] = "list" => x \in ToSet(ContactsOf[ask[r].account])
      BY <1>1, <1>13, <1>7 DEF IsDue
    <3>5. source[r] # ask[r].account /\ x \in ToSet(ContactsOf[ask[r].account])
      BY <1>6, <2>2, <3>1, <3>2, <3>3, <3>4
    <3>6. QED  BY <1>1, <3>5 DEF IsDue, Holding
  <2>3. QED  BY <2>1, <2>2
<1>14. QED  BY <1>1, <1>5, <1>8, <1>9, <1>10, <1>11, <1>13, KeepCall
-----------------------------------------------------------------------------
(* Whatever takes a step, what is seen to stays so.                        *)
LEMMA ContactsStepKept ==
    ASSUME DirectoryInv, MetInv, KeepInv, DOMAIN details = Clients, NEW r \in Clients, DirectoryStep(r),
           ask[r].kind = "contacts"
    PROVE  KeepInv'
<1>1. at[r] \notin PlacementCalls \cup KoddiCalls \cup {"corporate"}
  BY DEF DirectoryInv, WorkOf, PlacementCalls, KoddiCalls, ListCalls
<1>2. Begin(r) \/ List(r) \/ AssignBatch(r) \/ ReadDetails(r) \/ SaveContacts(r)
  BY <1>1 DEF DirectoryStep, SaveAdvertisers, CacheCorporate, AssignAddress, SaveAddresses, ReadPlacement,
     AssignPlacement, NamePlacement, DetailPlacement, ReadKoddi, ListKoddi, KeepBrands, ReadKoddiAgain,
     FindAdvertiser, LockCreation, Create, KeepKoddi, PlacementCalls, KoddiCalls
<1>3. QED  BY <1>2, BeginKept, ListKept, AssignBatchKept, ReadDetailsKept, SaveContactsKept

LEMMA OthersStepKept ==
    ASSUME DirectoryInv, MetInv, KeepInv, DOMAIN details = Clients, NEW r \in Clients, DirectoryStep(r),
           ask[r].kind # "contacts"
    PROVE  KeepInv'
<1>1. ask' = ask /\ ContactsSame /\ \A p \in Clients \ {r} : Held(p)
  BY DirectoryStepBy, OthersLeaveContacts, DirectoryStepHeld
<1>2. \A p \in Clients \ {r} : met[p] \subseteq met'[p]
  <2>1. CASE Begin(r)
    BY <2>1, BeginMeets
  <2>2. CASE ListStep(r) \/ KoddiStep(r)
    BY <2>2, ListStepGoes, KoddiStepGoes
  <2>3. QED  BY <2>1, <2>2 DEF DirectoryStep, ListStep, KoddiStep
<1>3. QED  BY <1>1, <1>2, KeepApart

LEMMA ReportStepKept ==
    ASSUME DirectoryInv, KoddiInv, RowsInv, KeepInv, NEW r \in Clients, ReportStep(r)
    PROVE  KeepInv'
<1>1. UNCHANGED <<ask, met>> /\ ask[r].kind = "report" /\ ContactsSame
  BY ReportStepGoes, ReportsLeaveContacts
<1>2. \A p \in Clients \ {r} : Same(p)
  BY ReportGoes
<1>3. \A p \in Clients \ {r} : source'[p] = source[p]
  BY DEF DirectoryInv, LocalShape, localVars, ReportStep, BeginReport, ReadAdvertisers, BuildScope, ReadFilter,
     SearchFilter, KeepFilter, Send, ReadLongs, ReadShorts, FetchMissing, KeepLongs, KeepShorts, Translate, Forget
<1>4. \A p \in Clients \ {r} : Held(p)
  BY <1>2, <1>3 DEF Same, Held
<1>5. QED  BY <1>1, <1>4, KeepApart

LEMMA FailReportKept ==
    ASSUME DirectoryInv, KoddiInv, KeepInv, NEW r \in Clients, FailReport(r)
    PROVE  KeepInv'
<1> USE DEF storeVars, NoMemory
<1>1. /\ UNCHANGED <<redis, ask, met>> /\ Goto(r, "failed") /\ Forget(r)
  BY DEF FailReport, Fail
<1>2. /\ DOMAIN at = Clients /\ DOMAIN ids = Clients /\ DOMAIN todo = Clients /\ DOMAIN details = Clients
      /\ DOMAIN source = Clients
  BY DEF DirectoryInv, LocalShape, KoddiInv, KoddiShape
<1>3. /\ at'[r] = "failed" /\ todo'[r] = << >>
      /\ \A p \in Clients \ {r} : Held(p)
  BY <1>1, <1>2 DEF Goto, Forget, Held
<1>4. ContactsSame
  BY <1>1 DEF ContactsSame
<1>5. QED  BY <1>1, <1>3, <1>4, KeepApart

LEMMA NobodysStepKept ==
    ASSUME KeepInv, LookupFilled \/ LeaseRunsOut \/ Partner \/ UNCHANGED dirVars
    PROVE  KeepInv'
<1> USE DEF dirVars, storeVars, localVars
<1>1. UNCHANGED <<ask, met, at, source, todo, ids, details>>
  BY DEF LookupFilled, LeaseRunsOut, Partner
<1>2. redis' = redis \/ \E x, v : redis' = Put(redis, "CAMPAIGN", x, v)
  BY DEF LookupFilled, LeaseRunsOut, Partner
<1>3. redis' = redis \/ \E type, f : type # "CONTACT" /\ redis' = MPut(redis, type, f)
  BY <1>2, PutIsMPut
<1>4. ContactsSame
  BY <1>3, OtherTypesSame
<1>5. \A p \in Clients : Held(p)
  BY <1>1 DEF Held
<1>6. QED  BY <1>1, <1>4, <1>5, KeepSame

LEMMA KeepInvInit == ReportInit => KeepInv
<1> SUFFICES ASSUME ReportInit PROVE KeepInv
  OBVIOUS
<1>1. redis = << >> /\ \A q \in Clients : at[q] = "idle"
  BY DEF ReportInit, DirectoryInit
<1>2. DOMAIN redis = {}
  BY <1>1
<1>3. RecordsOk
  BY <1>1, <1>2 DEF RecordsOk
<1>4. \A q \in Clients : ListOf(q) /\ SeenTo(q)
  BY <1>1 DEF ListOf, SeenTo, IsDue, Holding
<1>5. QED  BY <1>3, <1>4 DEF KeepInv

LEMMA KeepInvNext ==
    ASSUME DirectoryInv, KoddiInv, RowsInv, KeepInv, [Next]_vars
    PROVE  KeepInv'
<1>1. MetInv /\ DOMAIN details = Clients
  BY DEF KoddiInv, KoddiShape
<1>2. UNCHANGED vars => UNCHANGED dirVars
  BY DEF vars
<1>3. QED
  BY <1>1, <1>2, ContactsStepKept, OthersStepKept, ReportStepKept, FailReportKept, NobodysStepKept DEF Next

(* A contact that an account has been seen to for leads to details that    *)
(* name the account, and whoever is about to write it has read them.       *)
THEOREM KeepInvHolds == Spec => []KeepInv
<1>1. ReportInit => KeepInv
  BY KeepInvInit
<1>2. DirectoryInv /\ KoddiInv /\ RowsInv /\ KeepInv /\ [Next]_vars => KeepInv'
  BY KeepInvNext
<1>3. QED  BY <1>1, <1>2, DirectoryInvHolds, KoddiInvHolds, RowsInvHolds, PTL DEF Spec

(* The account whose contacts a request listed alone stays with each of    *)
(* them, whatever the requests after it, that run together or stop         *)
(* half-way, read and write of them. [contact_service.py:107]              *)
THEOREM AccountsAlwaysKept == Spec => []AccountsAreKept
<1>1. DirectoryInv /\ KeepInv => AccountsAreKept
  <2> SUFFICES ASSUME DirectoryInv, KeepInv, NEW q \in Clients, Done(q, "contacts"), met[q] = {},
                      NEW x \in ToSet(ContactsOf[ask[q].account] \o ContactsOf[ask[q].agency])
               PROVE  ask[q].account \in Get(redis, "CONTACT", Get(redis, "CONTACT", x)).accountIds
    BY DEF AccountsAreKept
  <2>1. Alone(q) /\ at[q] = "done"
    BY DEF Alone, Done
  <2>2. ContactsOf[ask[q].account] \in Seq(Named) /\ ContactsOf[ask[q].agency] \in Seq(Named)
    BY <2>1, ContactsWork, ListsAssumption DEF Alone
  <2>3. PICK s \in Seq(Named), t \in Seq(Named) : s = ContactsOf[ask[q].account] /\ t = ContactsOf[ask[q].agency]
    BY <2>2
  <2>4. x \in ToSet(s) \cup ToSet(t) /\ x \in Named
    <3>1. x \in ToSet(s \o t)
      BY <2>3
    <3>2. PICK n \in DOMAIN (s \o t) : x = (s \o t)[n]
      BY <3>1, Zenon DEF ToSet
    <3>3. x \in {s[m] : m \in DOMAIN s} \/ x \in {t[m] : m \in DOMAIN t}
      BY <3>2
    <3>4. QED  BY <3>3 DEF ToSet
  <2>5. x \in Named /\ IsDue(q, x)
    BY <2>1, <2>3, <2>4 DEF IsDue
  <2>6. PICK i : KeptUnder(q, x, i)
    BY <2>1, <2>5 DEF KeepInv, SeenTo, Kept
  <2>7. Get(redis, "CONTACT", x) = i
    BY <2>6 DEF KeptUnder, Get
  <2>8. QED  BY <2>6, <2>7 DEF KeptUnder, Get
<1>2. QED  BY <1>1, KeepInvHolds, DirectoryInvHolds, PTL
-----------------------------------------------------------------------------
(* What is written under a key may be replaced, but is never dropped.      *)
LEMMA WritingKeeps ==
    ASSUME NEW type, NEW f, redis' = MPut(redis, type, f)
    PROVE  DOMAIN redis \subseteq DOMAIN redis'
BY DEF MPut, Onto

LEMMA KeysStay ==
    ASSUME DirectoryInv, [Next]_vars
    PROVE  Grows /\ DOMAIN redis \subseteq DOMAIN redis'
<1>1. ASSUME UNCHANGED storeVars PROVE Grows /\ DOMAIN redis \subseteq DOMAIN redis'
  BY <1>1, OwnerGrows DEF storeVars
<1>2. ASSUME NEW q \in Clients, DirectoryStep(q) PROVE Grows /\ DOMAIN redis \subseteq DOMAIN redis'
  BY <1>2, OwnerOnlyGrows, DirectoryWrites, WritingKeeps
<1>3. ASSUME NEW q \in Clients, ReportStep(q) PROVE Grows /\ DOMAIN redis \subseteq DOMAIN redis'
  <2>1. CASE KeepFilter(q)
    <3>1. owner' = owner /\ redis' = MPut(redis, "CAMPAIGN:KODDI", details[q])
      BY <2>1 DEF KeepFilter, SetKoddiByShort
    <3>2. QED  BY <3>1, OwnerGrows, WritingKeeps
  <2>2. CASE KeepLongs(q)
    <3>1. owner' = owner
      BY <2>2 DEF KeepLongs
    <3>2. \E type, f : redis' = MPut(redis, type, f)
      BY <2>2 DEF KeepLongs, SetCampaignByKoddi, SetAdGroupByKoddi
    <3>3. QED  BY <3>1, <3>2, OwnerGrows, WritingKeeps
  <2>3. CASE KeepShorts(q)
    <3>1. owner' = owner
      BY <2>3 DEF KeepShorts
    <3>2. \E type, f : redis' = MPut(redis, type, f)
      BY <2>3 DEF KeepShorts, SetShortCampaign, SetShortAdGroup
    <3>3. QED  BY <3>1, <3>2, OwnerGrows, WritingKeeps
  <2>4. CASE BeginReport(q) \/ ReadAdvertisers(q) \/ BuildScope(q) \/ ReadFilter(q)
    BY <1>1, <2>4 DEF BeginReport, ReadAdvertisers, BuildScope, ReadFilter
  <2>5. CASE SearchFilter(q) \/ Send(q) \/ ReadLongs(q) \/ ReadShorts(q)
    BY <1>1, <2>5 DEF SearchFilter, Send, ReadLongs, ReadShorts
  <2>6. CASE FetchMissing(q) \/ Translate(q)
    BY <1>1, <2>6 DEF FetchMissing, Translate
  <2>7. QED  BY <1>3, <2>1, <2>2, <2>3, <2>4, <2>5, <2>6 DEF ReportStep
<1>4. CASE LookupFilled
  <2>1. PICK s, l : redis' = Put(redis, "CAMPAIGN", s, l)
    BY <1>4 DEF LookupFilled
  <2>2. redis' = MPut(redis, "CAMPAIGN", [y \in {s} |-> l]) /\ owner' = owner
    BY <1>4, <2>1, PutIsMPut DEF LookupFilled
  <2>3. QED  BY <2>2, OwnerGrows, WritingKeeps
<1>5. CASE \E q \in Clients : FailReport(q)
  BY <1>1, <1>5 DEF FailReport, Fail
<1>6. CASE LeaseRunsOut \/ Partner \/ UNCHANGED vars
  BY <1>1, <1>6 DEF LeaseRunsOut, Partner, vars, dirVars
<1>7. QED  BY <1>2, <1>3, <1>4, <1>5, <1>6 DEF Next

(* The details a short id once has are of the same thing for good: no step *)
(* of any request takes them away or puts another thing's in their place.  *)
DetailsAreForGood ==
    [][\A t \in Types : \A i \in Detailed(t) :
          i \in Detailed(t)' /\ Get(redis, t, i).id' = Get(redis, t, i).id]_vars

(* Short ids with details are what they are for good, for any requests and *)
(* lists, whatever is assigned, listed again, written half-way or fails.   *)
(* [contact_service.py:79, address_service.py:92, placement_service.py:68] *)
THEOREM DetailsAreAlwaysForGood == Spec => DetailsAreForGood
<1>1. ASSUME DirectoryInv, DirectoryInv', [Next]_vars, NEW t \in Types, NEW i \in Detailed(t)
      PROVE  i \in Detailed(t)' /\ Get(redis, t, i).id' = Get(redis, t, i).id
  <2>1. i \in Nat /\ <<t, i>> \in DOMAIN redis
    <3>1. PICK k \in DOMAIN redis : k = <<t, k[2]>> /\ k[2] \in Nat /\ i = k[2]
      BY DEF Detailed
    <3>2. QED  BY <3>1
  <2>2. <<t, i>> \in DOMAIN redis' /\ Grows
    BY <1>1, <2>1, KeysStay
  <2>3. i \in Detailed(t)'
    <3>1. PICK k : k = <<t, i>>
      OBVIOUS
    <3>2. k[2] = i /\ k \in DOMAIN redis'
      BY <2>2, <3>1
    <3>3. QED  BY <2>1, <3>1, <3>2 DEF Detailed
  <2>4. Names(t, i, redis[<<t, i>>].id) /\ Names(t, i, redis[<<t, i>>].id)'
    BY <1>1, <2>1, <2>2 DEF DirectoryInv, RedisNames
  <2>5. redis'[<<t, i>>].id = redis[<<t, i>>].id
    BY <2>2, <2>4 DEF Names, Grows
  <2>6. QED  BY <2>1, <2>2, <2>3, <2>5 DEF Get
<1>2. DirectoryInv /\ DirectoryInv' /\ [Next]_vars
      => [\A t \in Types : \A i \in Detailed(t) :
             i \in Detailed(t)' /\ Get(redis, t, i).id' = Get(redis, t, i).id]_vars
  BY <1>1
<1>3. QED  BY <1>2, DirectoryInvHolds, PTL DEF Spec, DetailsAreForGood
=============================================================================
