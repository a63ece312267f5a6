-------------------------- MODULE ConfigurationProofs --------------------------
(****************************************************************************)
(* The configuration that the commands and the settings panel write, for    *)
(* every set of commands and instances: what each leaves valid, and what a  *)
(* change leaves alone.                                                     *)
(****************************************************************************)
EXTENDS MCServices, TLAPS, SequenceTheorems, FiniteSetTheorems,
        WellFoundedInduction

(* A set of naturals that is not empty has a least member.                  *)
LEMMA LeastNatural ==
    ASSUME NEW T \in SUBSET Nat, T # {}
    PROVE  \E n \in T : \A m \in T : n <= m
<1>1. PICK n \in T : \A m \in T : <<m, n>> \notin OpToRel(<, Nat)
  BY WFMin, NatLessThanWellFounded
<1>2. \A m \in T : n <= m
  <2>1. OpToRel(<, Nat) = {ss \in Nat \X Nat : ss[1] < ss[2]}
    BY Zenon DEF OpToRel
  <2>2. \A m \in T : <<m, n>> \notin {ss \in Nat \X Nat : ss[1] < ss[2]}
    BY <1>1, <2>1, Zenon
  <2>3. ASSUME NEW m \in T, m < n  PROVE FALSE
    <3>1. <<m, n>> \in Nat \X Nat /\ <<m, n>>[1] < <<m, n>>[2]
      BY <2>3
    <3> QED  BY <3>1, <2>2, Zenon
  <2> QED  BY <2>3
<1> QED  BY <1>2

(* retain, as far as the m-th member.                                       *)
Upto(s, T, f, m) ==
    f = [n \in 0 .. m |->
           IF n = 0 THEN << >> ELSE IF s[n] \in T THEN f[n - 1] ELSE Append(f[n - 1], s[n])]

(* retain can be followed as far as one likes: a shortest list for which it *)
(* cannot has a shorter one for which it can.                               *)
LEMMA UptoExists ==
    ASSUME NEW s, NEW T, NEW m \in Nat
    PROVE  \E f : Upto(s, T, f, m)
<1> DEFINE Bad == {k \in Nat : ~\E f : Upto(s, T, f, k)}
<1> SUFFICES ASSUME Bad # {}  PROVE FALSE
  OBVIOUS
<1>1. PICK k \in Bad : \A j \in Bad : k <= j
  <2> HIDE DEF Bad
  <2>1. Bad \subseteq Nat
    BY DEF Bad
  <2> QED  BY <2>1, LeastNatural
<1>2. CASE k = 0
  <2>1. Upto(s, T, [n \in 0 .. 0 |-> << >>], 0)
    BY DEF Upto
  <2> QED  BY <1>2, <2>1
<1>3. CASE k # 0
  <2>1. k - 1 \in Nat /\ k - 1 \notin Bad
    BY <1>1, <1>3
  <2>2. PICK f : Upto(s, T, f, k - 1)
    BY <2>1
  <2> DEFINE last == IF s[k] \in T THEN f[k - 1] ELSE Append(f[k - 1], s[k])
             g == [n \in 0 .. k |-> IF n = k THEN last ELSE f[n]]
  <2>3. \A n \in 0 .. (k - 1) :
          f[n] = IF n = 0 THEN << >> ELSE IF s[n] \in T THEN f[n - 1] ELSE Append(f[n - 1], s[n])
    BY <2>2 DEF Upto
  <2> HIDE DEF last
  <2>4. \A n \in 0 .. k : g[n] = IF n = k THEN last ELSE f[n]
    OBVIOUS
  <2>5. k \in Nat \ {0}
    BY <1>3
  <2>6. \A n \in 0 .. k :
          g[n] = IF n = 0 THEN << >> ELSE IF s[n] \in T THEN g[n - 1] ELSE Append(g[n - 1], s[n])
    <3> SUFFICES ASSUME NEW n \in 0 .. k
                 PROVE g[n] = IF n = 0 THEN << >> ELSE IF s[n] \in T THEN g[n - 1] ELSE Append(g[n - 1], s[n])
      OBVIOUS
    <3> HIDE DEF g
    <3>1. CASE n = 0
      BY <3>1, <2>3, <2>4, <2>5
    <3>2. CASE n # 0
      <4>1. n - 1 \in 0 .. k /\ n - 1 # k /\ n - 1 \in 0 .. (k - 1)
        BY <3>2, <2>5
      <4>2. g[n - 1] = f[n - 1]
        BY <4>1, <2>4
      <4>3. CASE n = k
        BY <4>3, <4>2, <2>4, <3>2 DEF last
      <4>4. CASE n # k
        <5>1. n \in 0 .. (k - 1)
          BY <4>4, <2>5
        <5> QED  BY <5>1, <4>2, <4>4, <2>3, <2>4, <3>2
      <4> QED  BY <4>3, <4>4
    <3> QED  BY <3>1, <3>2
  <2>7. Upto(s, T, g, k)
    BY <2>6 DEF Upto
  <2> QED  BY <2>7
<1> QED  BY <1>2, <1>3

(* What f says of the members of s, one by one.                             *)
Keeps(s, T, f, m) ==
    /\ f[0] = << >>
    /\ \A n \in 1 .. m : f[n] = IF s[n] \in T THEN f[n - 1] ELSE Append(f[n - 1], s[n])

(* What following it says of each member.                                   *)
LEMMA UptoMeans ==
    ASSUME NEW s, NEW T, NEW m \in Nat, NEW f, Upto(s, T, f, m)
    PROVE  Keeps(s, T, f, m)
<1>1. \A n \in 0 .. m :
        f[n] = IF n = 0 THEN << >> ELSE IF s[n] \in T THEN f[n - 1] ELSE Append(f[n - 1], s[n])
  BY DEF Upto
<1>2. 0 \in 0 .. m /\ \A n \in 1 .. m : n \in 0 .. m /\ n # 0
  OBVIOUS
<1> QED  BY <1>1, <1>2 DEF Keeps

(* Without is what retain has kept at the end of the list.                  *)
LEMMA WithoutIs ==
    ASSUME NEW S, NEW s \in Seq(S), NEW T
    PROVE  \E f : Keeps(s, T, f, Len(s)) /\ Config!Without(s, T) = f[Len(s)]
<1> DEFINE kept == CHOOSE f : Upto(s, T, f, Len(s))
<1>1. Config!Without(s, T) = kept[Len(s)]
  BY Zenon DEF Config!Without, Upto
<1>2. Upto(s, T, kept, Len(s)) /\ Len(s) \in Nat
  BY UptoExists, LenProperties
<1> HIDE DEF kept
<1>3. Keeps(s, T, kept, Len(s))
  BY <1>2, UptoMeans
<1> QED  BY <1>1, <1>3

(* What it keeps is what was there and is not in the set.                   *)
LEMMA WithoutMembers ==
    ASSUME NEW S, NEW s \in Seq(S), NEW T
    PROVE  Config!Without(s, T) \in Seq(S \ T)
<1>1. PICK f : Keeps(s, T, f, Len(s)) /\ Config!Without(s, T) = f[Len(s)]
  BY WithoutIs
<1>2. Len(s) \in Nat /\ \A n \in 1 .. Len(s) : s[n] \in S
  BY LenProperties
<1>3. /\ f[0] = << >>
      /\ \A n \in 1 .. Len(s) : f[n] = IF s[n] \in T THEN f[n - 1] ELSE Append(f[n - 1], s[n])
  BY <1>1 DEF Keeps
<1> DEFINE Bad == {n \in 0 .. Len(s) : f[n] \notin Seq(S \ T)}
<1>4. Bad = {}
  <2> SUFFICES ASSUME Bad # {}  PROVE FALSE
    OBVIOUS
  <2>1. PICK k \in Bad : \A j \in Bad : k <= j
    <3>1. Bad \subseteq Nat
      BY <1>2
    <3> HIDE DEF Bad
    <3> QED  BY <3>1, LeastNatural
  <2>2. f[k] \notin Seq(S \ T) /\ k \in 0 .. Len(s)
    BY <2>1
  <2>3. k \in 1 .. Len(s)
    <3>1. << >> \in Seq(S \ T)
      BY EmptySeq
    <3>2. k # 0
      BY <3>1, <1>3, <2>2
    <3> QED  BY <1>2, <2>2, <3>2
  <2>4. k - 1 \in 0 .. Len(s) /\ k - 1 \notin Bad
    <3> HIDE DEF Bad
    <3> QED  BY <1>2, <2>1, <2>3
  <2>5. f[k - 1] \in Seq(S \ T)
    BY <2>4
  <2>6. s[k] \notin T => Append(f[k - 1], s[k]) \in Seq(S \ T)
    <3>1. s[k] \in S
      BY <1>2, <2>3
    <3> QED  BY <2>5, <3>1, AppendProperties
  <2>7. f[k] = IF s[k] \in T THEN f[k - 1] ELSE Append(f[k - 1], s[k])
    BY <1>3, <2>3
  <2> QED  BY <2>2, <2>5, <2>6, <2>7
<1>5. Len(s) \in 0 .. Len(s)
  BY <1>2
<1> QED  BY <1>1, <1>4, <1>5

(* What is kept of a sequence is a sequence of the same kind.               *)
LEMMA WithoutType ==
    ASSUME NEW S, NEW s \in Seq(S), NEW T
    PROVE  Config!Without(s, T) \in Seq(S)
<1> DEFINE w == Config!Without(s, T)
<1>1. w \in Seq(S \ T)
  BY WithoutMembers
<1>2. S \ T \subseteq S
  OBVIOUS
<1> HIDE DEF w
<1>3. w \in Seq(S)
  BY <1>1, <1>2, SeqMonotonic
<1> QED  BY <1>3 DEF w

(* The configuration counts as this module does.                            *)
LEMMA CardinalityInConfig == \A S : Config!Cardinality(S) = Cardinality(S)
BY Zenon DEF Config!Cardinality, Cardinality

(* A list has finitely many members.                                        *)
LEMMA ToSetFinite ==
    ASSUME NEW S, NEW s \in Seq(S)
    PROVE  IsFiniteSet(Config!ToSet(s)) /\ Cardinality(Config!ToSet(s)) \in Nat
<1>1. DOMAIN s = 1 .. Len(s) /\ Len(s) \in Nat /\ s \in [1 .. Len(s) -> S]
  BY LenProperties
<1>2. Config!ToSet(s) = {s[i] : i \in 1 .. Len(s)}
  BY <1>1 DEF Config!ToSet
<1>3. s \in Surjection(1 .. Len(s), Config!ToSet(s))
  BY <1>1, <1>2 DEF Surjection
<1>4. IsFiniteSet(1 .. Len(s))
  BY <1>1, FS_Interval
<1>5. IsFiniteSet(Config!ToSet(s))
  BY <1>3, <1>4, FS_Surjection
<1> QED  BY <1>5, FS_CardinalityType

(* A list with one more member.                                             *)
LEMMA ToSetAppend ==
    ASSUME NEW S, NEW s \in Seq(S), NEW x \in S
    PROVE  /\ Append(s, x) \in Seq(S) /\ Len(Append(s, x)) = Len(s) + 1
           /\ DOMAIN Append(s, x) = 1 .. (Len(s) + 1) /\ DOMAIN s = 1 .. Len(s) /\ Len(s) \in Nat
           /\ \A i \in 1 .. Len(s) : Append(s, x)[i] = s[i]
           /\ Append(s, x)[Len(s) + 1] = x
           /\ Config!ToSet(Append(s, x)) = Config!ToSet(s) \cup {x}
<1>1. /\ Append(s, x) \in Seq(S) /\ Len(Append(s, x)) = Len(s) + 1
      /\ DOMAIN Append(s, x) = 1 .. (Len(s) + 1) /\ DOMAIN s = 1 .. Len(s) /\ Len(s) \in Nat
      /\ \A i \in 1 .. Len(s) : Append(s, x)[i] = s[i]
      /\ Append(s, x)[Len(s) + 1] = x
  BY AppendProperties, LenProperties
<1>2. Config!ToSet(Append(s, x)) = {Append(s, x)[i] : i \in 1 .. (Len(s) + 1)}
  BY <1>1 DEF Config!ToSet
<1>3. Config!ToSet(s) = {s[i] : i \in 1 .. Len(s)}
  BY <1>1 DEF Config!ToSet
<1>4. Len(s) + 1 \in 1 .. (Len(s) + 1) /\ \A i \in 1 .. (Len(s) + 1) : i \in 1 .. Len(s) \/ i = Len(s) + 1
  BY <1>1
<1>5. \A y : y \in Config!ToSet(Append(s, x)) <=> y \in Config!ToSet(s) \cup {x}
  BY <1>1, <1>2, <1>3, <1>4
<1> QED  BY <1>1, <1>5

(* The shape of what the commands make of a configuration.                  *)
LEMMA DefaultIsRoute ==
    ASSUME NEW id \in Config!Providers, NEW enabled \in BOOLEAN
    PROVE  /\ Config!Default(id, enabled) \in Config!Routes
           /\ Config!Default(id, enabled).id = id /\ Config!Default(id, enabled).instance = "default"
           /\ Config!Default(id, enabled).endpoint = "none"
BY DEF Config!Default, Config!Route, Config!Routes

(* A configuration with one route changed is one.                           *)
LEMMA ChangedShape ==
    ASSUME NEW c \in Config!Configs, NEW i \in DOMAIN c.routes, NEW r \in Config!Routes
    PROVE  /\ [c EXCEPT !.routes[i] = r] \in Config!Configs
           /\ [c EXCEPT !.routes[i] = r].order = c.order
           /\ [c EXCEPT !.routes[i] = r].routes = [c.routes EXCEPT ![i] = r]
           /\ Len([c.routes EXCEPT ![i] = r]) = Len(c.routes)
           /\ DOMAIN [c.routes EXCEPT ![i] = r] = DOMAIN c.routes
<1>1. c.routes \in Seq(Config!Routes) /\ c.order \in Seq(Config!Providers)
  BY DEF Config!Configs
<1>2. /\ [c.routes EXCEPT ![i] = r] \in Seq(Config!Routes)
      /\ Len([c.routes EXCEPT ![i] = r]) = Len(c.routes)
      /\ DOMAIN [c.routes EXCEPT ![i] = r] = DOMAIN c.routes
  BY <1>1, ExceptSeq
<1> QED  BY <1>1, <1>2 DEF Config!Configs

(* What one command makes of the default route of a provider: the route     *)
(* that is there is replaced, or one is added.                              *)
RouteReplaced(c, d, i, r) == d = [c EXCEPT !.routes[i] = r]
RouteAdded(c, d, id, r) ==
    d = [routes |-> Append(c.routes, r),
         order |-> IF id \in Config!ToSet(c.order) THEN c.order ELSE Append(c.order, id)]

(* And so is one with a route added.                                        *)
LEMMA AddedShape ==
    ASSUME NEW c \in Config!Configs, NEW id \in Config!Providers, NEW r \in Config!Routes,
           NEW d, RouteAdded(c, d, id, r)
    PROVE  d \in Config!Configs
<1>1. c.routes \in Seq(Config!Routes) /\ c.order \in Seq(Config!Providers)
  BY DEF Config!Configs
<1>2. Append(c.routes, r) \in Seq(Config!Routes) /\ Append(c.order, id) \in Seq(Config!Providers)
  BY <1>1, AppendProperties
<1> QED  BY <1>1, <1>2 DEF RouteAdded, Config!Configs

(* set_provider_enabled changes the provider's default route, or adds it.   *)
LEMMA EnabledIs ==
    ASSUME NEW c \in Config!Configs, NEW id \in Config!Providers, NEW enabled \in BOOLEAN,
           NEW d, d = Config!SetProviderEnabled(c, id, enabled)
    PROVE  \/ \E i \in Config!AtDefault(c, id) : RouteReplaced(c, d, i, [c.routes[i] EXCEPT !.enabled = enabled])
           \/ /\ Config!AtDefault(c, id) = {}
              /\ RouteAdded(c, d, id, [Config!Default(id, enabled) EXCEPT !.enabled = enabled])
<1>1. CASE Config!AtDefault(c, id) # {}
  <2> DEFINE i == CHOOSE j \in Config!AtDefault(c, id) : TRUE
  <2>1. i \in Config!AtDefault(c, id)
    BY <1>1
  <2>2. d = [c EXCEPT !.routes[i] = [@ EXCEPT !.enabled = enabled]]
    BY <1>1 DEF Config!SetProviderEnabled, Config!WithRoute
  <2>3. RouteReplaced(c, d, i, [c.routes[i] EXCEPT !.enabled = enabled])
    BY <2>2 DEF RouteReplaced
  <2> QED  BY <2>1, <2>3
<1>2. CASE Config!AtDefault(c, id) = {}
  BY <1>2 DEF Config!SetProviderEnabled, Config!WithRoute, RouteAdded
<1> QED  BY <1>1, <1>2

(* So does set_provider_endpoint.                                           *)
LEMMA EndpointIs ==
    ASSUME NEW c \in Config!Configs, NEW id \in Config!Providers, NEW endpoint,
           NEW d, d = Config!SetProviderEndpoint(c, id, endpoint)
    PROVE  \/ \E i \in Config!AtDefault(c, id) : RouteReplaced(c, d, i, [c.routes[i] EXCEPT !.endpoint = endpoint])
           \/ RouteAdded(c, d, id, [Config!Default(id, FALSE) EXCEPT !.endpoint = endpoint])
<1>1. CASE Config!AtDefault(c, id) # {}
  <2> DEFINE i == CHOOSE j \in Config!AtDefault(c, id) : TRUE
  <2>1. i \in Config!AtDefault(c, id)
    BY <1>1
  <2>2. d = [c EXCEPT !.routes[i] = [@ EXCEPT !.endpoint = endpoint]]
    BY <1>1 DEF Config!SetProviderEndpoint, Config!WithRoute
  <2>3. RouteReplaced(c, d, i, [c.routes[i] EXCEPT !.endpoint = endpoint])
    BY <2>2 DEF RouteReplaced
  <2> QED  BY <2>1, <2>3
<1>2. CASE Config!AtDefault(c, id) = {}
  BY <1>2 DEF Config!SetProviderEndpoint, Config!WithRoute, RouteAdded
<1> QED  BY <1>1, <1>2

(* So does set_provider_option.                                             *)
LEMMA OptionIs ==
    ASSUME NEW c \in Config!Configs, NEW id \in Config!Providers, NEW option,
           NEW d, d = Config!SetProviderOption(c, id, option)
    PROVE  \/ \E i \in Config!AtDefault(c, id) : RouteReplaced(c, d, i, [c.routes[i] EXCEPT !.option = option])
           \/ RouteAdded(c, d, id, [Config!Default(id, FALSE) EXCEPT !.option = option])
<1>1. CASE Config!AtDefault(c, id) # {}
  <2> DEFINE i == CHOOSE j \in Config!AtDefault(c, id) : TRUE
  <2>1. i \in Config!AtDefault(c, id)
    BY <1>1
  <2>2. d = [c EXCEPT !.routes[i] = [@ EXCEPT !.option = option]]
    BY <1>1 DEF Config!SetProviderOption, Config!WithRoute
  <2>3. RouteReplaced(c, d, i, [c.routes[i] EXCEPT !.option = option])
    BY <2>2 DEF RouteReplaced
  <2> QED  BY <2>1, <2>3
<1>2. CASE Config!AtDefault(c, id) = {}
  BY <1>2 DEF Config!SetProviderOption, Config!WithRoute, RouteAdded
<1> QED  BY <1>1, <1>2

(* validate_config, of a whole list.                                        *)
LEMMA ValidMeans ==
    ASSUME NEW c
    PROVE  Config!ValidateConfig(c) = "ok" <=>
             /\ ~(Len(c.routes) > MaxInstances)
             /\ ~\E i, j \in DOMAIN c.routes : i < j /\ c.routes[i].id = c.routes[j].id
                                                /\ c.routes[i].instance = c.routes[j].instance
             /\ ~\E i \in DOMAIN c.routes : ~Config!EndpointAllowed(c.routes[i].id, c.routes[i].endpoint)
             /\ ~(Cardinality(Config!ToSet(c.order)) < Len(c.order))
             /\ Config!ToSet(c.order) = Config!Ids(c.routes)
BY CardinalityInConfig DEF Config!ValidateConfig

(* Too many routes are refused as such.                                     *)
LEMMA TooLargeMeans ==
    ASSUME NEW c, Len(c.routes) > MaxInstances
    PROVE  Config!ValidateConfig(c) = "CollectionTooLarge"
BY DEF Config!ValidateConfig

(* A route that keeps its names and its endpoint leaves a valid             *)
(* configuration valid.                                                     *)
LEMMA ReplacedValid ==
    ASSUME NEW c \in Config!Configs, Config!ValidateConfig(c) = "ok", NEW i \in DOMAIN c.routes,
           NEW r \in Config!Routes, r.id = c.routes[i].id, r.instance = c.routes[i].instance,
           r.endpoint = c.routes[i].endpoint, NEW d, RouteReplaced(c, d, i, r)
    PROVE  Config!ValidateConfig(d) = "ok"
<1>1. /\ d.order = c.order /\ d.routes = [c.routes EXCEPT ![i] = r]
      /\ Len(d.routes) = Len(c.routes) /\ DOMAIN d.routes = DOMAIN c.routes
  BY ChangedShape DEF RouteReplaced
<1>2. \A j \in DOMAIN c.routes : /\ d.routes[j].id = c.routes[j].id
                                 /\ d.routes[j].instance = c.routes[j].instance
                                 /\ d.routes[j].endpoint = c.routes[j].endpoint
  BY <1>1
<1>3. Config!Ids(d.routes) = Config!Ids(c.routes)
  BY <1>1, <1>2 DEF Config!Ids
<1> QED  BY <1>1, <1>2, <1>3, ValidMeans

(* A default route that is added leaves it valid, unless there are too many *)
(* now.                                                                     *)
LEMMA AddedValid ==
    ASSUME NEW c \in Config!Configs, Config!ValidateConfig(c) = "ok", NEW id \in Config!Providers,
           Config!AtDefault(c, id) = {}, NEW r \in Config!Routes,
           r.id = id, r.instance = "default", r.endpoint = "none",
           NEW d, RouteAdded(c, d, id, r)
    PROVE  Config!ValidateConfig(d) \in {"ok", "CollectionTooLarge"}
<1>1. c.routes \in Seq(Config!Routes) /\ c.order \in Seq(Config!Providers)
  BY DEF Config!Configs
<1> DEFINE n == Len(c.routes)
<1>2. /\ DOMAIN d.routes = 1 .. (n + 1) /\ DOMAIN c.routes = 1 .. n /\ n \in Nat
      /\ \A i \in 1 .. n : d.routes[i] = c.routes[i]
      /\ d.routes[n + 1] = r
  BY <1>1, ToSetAppend DEF RouteAdded
<1>3. \A i \in 1 .. (n + 1) : i \in 1 .. n \/ i = n + 1
  BY <1>2
<1> HIDE DEF n
<1>4. ~\E i, j \in DOMAIN d.routes : i < j /\ d.routes[i].id = d.routes[j].id
                                    /\ d.routes[i].instance = d.routes[j].instance
  <2> SUFFICES ASSUME NEW i \in 1 .. (n + 1), NEW j \in 1 .. (n + 1), i < j,
                      d.routes[i].id = d.routes[j].id, d.routes[i].instance = d.routes[j].instance
               PROVE  FALSE
    BY <1>2
  <2>1. i \in 1 .. n
    BY <1>2
  <2>2. CASE j \in 1 .. n
    BY <2>1, <2>2, <1>2, ValidMeans
  <2>3. CASE j = n + 1
    <3>1. c.routes[i].id = id /\ c.routes[i].instance = "default"
      BY <2>1, <2>3, <1>2
    <3> QED  BY <3>1, <2>1, <1>2 DEF Config!AtDefault
  <2> QED  BY <1>3, <2>2, <2>3
<1>5. ~\E i \in DOMAIN d.routes : ~Config!EndpointAllowed(d.routes[i].id, d.routes[i].endpoint)
  <2>1. Config!EndpointAllowed(r.id, r.endpoint)
    BY DEF Config!EndpointAllowed
  <2>2. \A i \in 1 .. n : Config!EndpointAllowed(c.routes[i].id, c.routes[i].endpoint)
    BY <1>2, ValidMeans
  <2> QED  BY <2>1, <2>2, <1>2, <1>3
<1>6. Config!ToSet(d.order) = Config!ToSet(c.order) \cup {id}
  <2>1. CASE id \in Config!ToSet(c.order)
    BY <2>1 DEF RouteAdded
  <2>2. CASE id \notin Config!ToSet(c.order)
    BY <2>2, <1>1, ToSetAppend DEF RouteAdded
  <2> QED  BY <2>1, <2>2
<1>7. Config!Ids(d.routes) = Config!Ids(c.routes) \cup {id}
  <2>1. Config!Ids(d.routes) = {d.routes[i].id : i \in 1 .. (n + 1)} /\ n + 1 \in 1 .. (n + 1)
    BY <1>2 DEF Config!Ids
  <2>2. Config!Ids(c.routes) = {c.routes[i].id : i \in 1 .. n}
    BY <1>2 DEF Config!Ids
  <2>3. \A x : x \in Config!Ids(d.routes) <=> x \in Config!Ids(c.routes) \cup {id}
    BY <2>1, <2>2, <1>2, <1>3
  <2> QED  BY <2>3
<1>8. ~(Cardinality(Config!ToSet(d.order)) < Len(d.order))
  <2>1. ~(Cardinality(Config!ToSet(c.order)) < Len(c.order)) /\ Len(c.order) \in Nat
    BY <1>1, ValidMeans, LenProperties
  <2>2. CASE id \in Config!ToSet(c.order)
    BY <2>1, <2>2 DEF RouteAdded
  <2>3. CASE id \notin Config!ToSet(c.order)
    <3>1. d.order = Append(c.order, id) /\ Len(d.order) = Len(c.order) + 1
      BY <2>3, <1>1, ToSetAppend DEF RouteAdded
    <3>2. IsFiniteSet(Config!ToSet(c.order)) /\ Cardinality(Config!ToSet(c.order)) \in Nat
      BY <1>1, ToSetFinite
    <3>3. Cardinality(Config!ToSet(d.order)) = Cardinality(Config!ToSet(c.order)) + 1
      <4>1. Cardinality(Config!ToSet(c.order) \cup {id}) = Cardinality(Config!ToSet(c.order)) + 1
        BY <3>2, <2>3, FS_AddElement, Zenon
      <4> QED  BY <4>1, <1>6
    <3> QED  BY <3>1, <3>2, <3>3, <2>1
  <2> QED  BY <2>2, <2>3
<1>9. Config!ToSet(c.order) = Config!Ids(c.routes)
  BY ValidMeans
<1> QED  BY <1>4, <1>5, <1>6, <1>7, <1>8, <1>9, ValidMeans, TooLargeMeans

(* What the commands are.                                                   *)
LEMMA KindMeans ==
    ASSUME NEW k \in Config!Kinds
    PROVE  /\ k.is \in {"enable", "disable", "reorder", "endpoint", "option", "init"}
           /\ k.is \in {"enable", "disable", "endpoint", "option"} => k.id \in Config!Providers
           /\ k.is = "reorder" => k.ids \in Seq(Config!Providers)
           /\ k.is = "endpoint" => k.endpoint \in {"none", "https", "loopback"}
           /\ k.is = "option" => k.option \in {"none", "cli", "unknown"}
<1>1. CASE k \in [is : {"enable", "disable"}, id : Config!Providers]
  BY <1>1
<1>2. CASE k \in [is : {"reorder"}, ids : {<<"Groq">>, <<"Ollama", "Codex">>, <<"Codex", "Codex">>}]
  <2>1. /\ <<"Groq">> \in Seq(Config!Providers) /\ <<"Ollama", "Codex">> \in Seq(Config!Providers)
        /\ <<"Codex", "Codex">> \in Seq(Config!Providers)
    BY DEF Config!Providers
  <2> QED  BY <1>2, <2>1
<1>3. CASE k \in [is : {"endpoint"}, id : {"Groq", "Ollama"}, endpoint : {"none", "https", "loopback"}]
  BY <1>3 DEF Config!Providers
<1>4. CASE k \in [is : {"option"}, id : {"Codex"}, option : {"none", "cli", "unknown"}]
  BY <1>4 DEF Config!Providers
<1>5. CASE k \in [is : {"init"}, force : BOOLEAN]
  BY <1>5
<1> QED  BY <1>1, <1>2, <1>3, <1>4, <1>5 DEF Config!Kinds

(* The configuration config init writes is valid.                           *)
LEMMA EmptyValid == Config!Empty \in Config!Configs /\ Config!ValidateConfig(Config!Empty) = "ok"
<1>1. MaxInstances \in Nat
  BY ServicesAssumption DEF Config!ConfigurationAssumption
<1>2. /\ Config!Empty.routes = << >> /\ Config!Empty.order = << >> /\ Config!Empty \in Config!Configs
      /\ Len(<< >>) = 0 /\ DOMAIN << >> = {}
  BY EmptySeq DEF Config!Empty, Config!Configs
<1>3. Config!ToSet(<< >>) = {} /\ Config!Ids(<< >>) = {}
  BY <1>2 DEF Config!ToSet, Config!Ids
<1>4. Cardinality({}) = 0
  BY FS_EmptySet
<1> QED  BY <1>1, <1>2, <1>3, <1>4, ValidMeans

(* A reordered configuration is a configuration.                            *)
LEMMA ReorderShape ==
    ASSUME NEW c \in Config!Configs, NEW ids \in Seq(Config!Providers)
    PROVE  Config!SetProviderOrder(c, ids) \in Config!Configs
<1> DEFINE missing == Config!Without(ids, Config!Ids(c.routes))
           added == [i \in DOMAIN missing |-> Config!Default(missing[i], TRUE)]
           rest == Config!Without(c.order, Config!ToSet(ids))
<1>1. c.routes \in Seq(Config!Routes) /\ c.order \in Seq(Config!Providers)
  BY DEF Config!Configs
<1>2. missing \in Seq(Config!Providers) /\ rest \in Seq(Config!Providers)
  BY <1>1, WithoutType
<1>3. added \in Seq(Config!Routes)
  <2> HIDE DEF missing
  <2>1. DOMAIN missing = 1 .. Len(missing) /\ Len(missing) \in Nat
    BY <1>2, LenProperties
  <2>2. \A i \in 1 .. Len(missing) : Config!Default(missing[i], TRUE) \in Config!Routes
    BY <1>2, ElementOfSeq, DefaultIsRoute
  <2>3. added \in [1 .. Len(missing) -> Config!Routes]
    BY <2>1, <2>2
  <2> HIDE DEF added
  <2> QED  BY <2>1, <2>3, IsASeq
<1> HIDE DEF missing, added, rest
<1>4. c.routes \o added \in Seq(Config!Routes) /\ ids \o rest \in Seq(Config!Providers)
  BY <1>1, <1>2, <1>3, ConcatProperties
<1>5. Config!SetProviderOrder(c, ids) = [routes |-> c.routes \o added, order |-> ids \o rest]
  BY DEF Config!SetProviderOrder, missing, added, rest
<1> QED  BY <1>4, <1>5 DEF Config!Configs

(* A default route is one of the routes.                                    *)
LEMMA DefaultRoutes ==
    ASSUME NEW c \in Config!Configs, NEW id, NEW i \in Config!AtDefault(c, id)
    PROVE  i \in DOMAIN c.routes /\ c.routes[i] \in Config!Routes
<1>1. i \in DOMAIN c.routes /\ c.routes \in Seq(Config!Routes)
  BY DEF Config!AtDefault, Config!Configs
<1> QED  BY <1>1, ElementOfSeq, LenProperties

(* Replacing a route leaves a configuration.                                *)
LEMMA ReplacedShape ==
    ASSUME NEW c \in Config!Configs, NEW i \in DOMAIN c.routes, NEW r \in Config!Routes,
           NEW d, RouteReplaced(c, d, i, r)
    PROVE  d \in Config!Configs
BY ChangedShape DEF RouteReplaced

(* What a command makes of a configuration is one.                          *)
LEMMA ChangedTyped ==
    ASSUME NEW c \in Config!Configs, NEW k \in Config!Kinds, k.is = "option" => k.option # "unknown"
    PROVE  Config!Changed(c, k) \in Config!Configs
<1> DEFINE d == Config!Changed(c, k)
<1>1. CASE k.is \in {"enable", "disable"}
  <2>1. PICK e \in BOOLEAN : d = Config!SetProviderEnabled(c, k.id, e)
    BY <1>1 DEF Config!Changed
  <2>2. k.id \in Config!Providers
    BY <1>1, KindMeans
  <2>3. [Config!Default(k.id, e) EXCEPT !.enabled = e] \in Config!Routes
    BY <2>2, DefaultIsRoute DEF Config!Routes
  <2>4. \A i \in Config!AtDefault(c, k.id) : [c.routes[i] EXCEPT !.enabled = e] \in Config!Routes
    BY DefaultRoutes DEF Config!Routes
  <2> HIDE DEF d
  <2>5. \/ \E i \in Config!AtDefault(c, k.id) : RouteReplaced(c, d, i, [c.routes[i] EXCEPT !.enabled = e])
        \/ RouteAdded(c, d, k.id, [Config!Default(k.id, e) EXCEPT !.enabled = e])
    BY <2>1, <2>2, EnabledIs
  <2>6. \A i \in Config!AtDefault(c, k.id) :
          RouteReplaced(c, d, i, [c.routes[i] EXCEPT !.enabled = e]) => d \in Config!Configs
    BY <2>4, DefaultRoutes, ReplacedShape
  <2>7. RouteAdded(c, d, k.id, [Config!Default(k.id, e) EXCEPT !.enabled = e]) => d \in Config!Configs
    BY <2>2, <2>3, AddedShape
  <2> QED  BY <2>5, <2>6, <2>7 DEF d
<1>2. CASE k.is = "endpoint"
  <2>1. d = Config!SetProviderEndpoint(c, k.id, k.endpoint)
    BY <1>2 DEF Config!Changed
  <2>2. k.id \in Config!Providers /\ k.endpoint \in {"none", "https", "loopback"}
    BY <1>2, KindMeans
  <2>3. [Config!Default(k.id, FALSE) EXCEPT !.endpoint = k.endpoint] \in Config!Routes
    <3>1. Config!Default(k.id, FALSE) \in Config!Routes
      BY <2>2, DefaultIsRoute
    <3> QED  BY <2>2, <3>1 DEF Config!Routes
  <2>4. ASSUME NEW i \in Config!AtDefault(c, k.id)
        PROVE  [c.routes[i] EXCEPT !.endpoint = k.endpoint] \in Config!Routes
    <3>1. c.routes[i] \in Config!Routes
      BY DefaultRoutes
    <3> QED  BY <2>2, <3>1 DEF Config!Routes
  <2> HIDE DEF d
  <2>5. \/ \E i \in Config!AtDefault(c, k.id) : RouteReplaced(c, d, i, [c.routes[i] EXCEPT !.endpoint = k.endpoint])
        \/ RouteAdded(c, d, k.id, [Config!Default(k.id, FALSE) EXCEPT !.endpoint = k.endpoint])
    BY <2>1, <2>2, EndpointIs
  <2>6. \A i \in Config!AtDefault(c, k.id) :
          RouteReplaced(c, d, i, [c.routes[i] EXCEPT !.endpoint = k.endpoint]) => d \in Config!Configs
    BY <2>4, DefaultRoutes, ReplacedShape
  <2>7. RouteAdded(c, d, k.id, [Config!Default(k.id, FALSE) EXCEPT !.endpoint = k.endpoint]) => d \in Config!Configs
    BY <2>2, <2>3, AddedShape
  <2> QED  BY <2>5, <2>6, <2>7 DEF d
<1>3. CASE k.is = "option"
  <2>1. d = Config!SetProviderOption(c, k.id, k.option)
    BY <1>3 DEF Config!Changed
  <2>2. k.id \in Config!Providers /\ k.option \in {"none", "cli"}
    BY <1>3, KindMeans
  <2>3. [Config!Default(k.id, FALSE) EXCEPT !.option = k.option] \in Config!Routes
    <3>1. Config!Default(k.id, FALSE) \in Config!Routes
      BY <2>2, DefaultIsRoute
    <3> QED  BY <2>2, <3>1 DEF Config!Routes
  <2>4. ASSUME NEW i \in Config!AtDefault(c, k.id)
        PROVE  [c.routes[i] EXCEPT !.option = k.option] \in Config!Routes
    <3>1. c.routes[i] \in Config!Routes
      BY DefaultRoutes
    <3> QED  BY <2>2, <3>1 DEF Config!Routes
  <2> HIDE DEF d
  <2>5. \/ \E i \in Config!AtDefault(c, k.id) : RouteReplaced(c, d, i, [c.routes[i] EXCEPT !.option = k.option])
        \/ RouteAdded(c, d, k.id, [Config!Default(k.id, FALSE) EXCEPT !.option = k.option])
    BY <2>1, <2>2, OptionIs
  <2>6. \A i \in Config!AtDefault(c, k.id) :
          RouteReplaced(c, d, i, [c.routes[i] EXCEPT !.option = k.option]) => d \in Config!Configs
    BY <2>4, DefaultRoutes, ReplacedShape
  <2>7. RouteAdded(c, d, k.id, [Config!Default(k.id, FALSE) EXCEPT !.option = k.option]) => d \in Config!Configs
    BY <2>2, <2>3, AddedShape
  <2> QED  BY <2>5, <2>6, <2>7 DEF d
<1>4. CASE k.is = "reorder"
  BY <1>4, KindMeans, ReorderShape DEF Config!Changed
<1>5. CASE k.is = "init"
  BY <1>5, EmptyValid DEF Config!Changed
<1> QED  BY <1>1, <1>2, <1>3, <1>4, <1>5, KindMeans

(* Enabling and disabling leave a valid configuration valid or too large,   *)
(* which the command checks before it writes.                               *)
LEMMA EnableLoads ==
    ASSUME NEW c \in Config!Configs, Config!ValidateConfig(c) = "ok",
           NEW k \in Config!Kinds, k.is \in {"enable", "disable"}
    PROVE  Config!ValidateConfig(Config!Changed(c, k)) \in {"ok", "CollectionTooLarge"}
<1> DEFINE d == Config!Changed(c, k)
<1>1. PICK e \in BOOLEAN : d = Config!SetProviderEnabled(c, k.id, e)
  BY DEF Config!Changed
<1>2. k.id \in Config!Providers
  BY KindMeans
<1> HIDE DEF d
<1>3. ASSUME NEW i \in Config!AtDefault(c, k.id), RouteReplaced(c, d, i, [c.routes[i] EXCEPT !.enabled = e])
      PROVE  Config!ValidateConfig(d) = "ok"
  <2> DEFINE r == [c.routes[i] EXCEPT !.enabled = e]
  <2>1. i \in DOMAIN c.routes /\ c.routes[i] \in Config!Routes
    BY DefaultRoutes
  <2>2. /\ r \in Config!Routes /\ r.id = c.routes[i].id
        /\ r.instance = c.routes[i].instance /\ r.endpoint = c.routes[i].endpoint
    BY <2>1 DEF Config!Routes
  <2> HIDE DEF r
  <2>3. RouteReplaced(c, d, i, r)
    BY <1>3 DEF r
  <2> QED  BY <2>1, <2>2, <2>3, ReplacedValid
<1>4. ASSUME Config!AtDefault(c, k.id) = {}, RouteAdded(c, d, k.id, [Config!Default(k.id, e) EXCEPT !.enabled = e])
      PROVE  Config!ValidateConfig(d) \in {"ok", "CollectionTooLarge"}
  <2> DEFINE r == [Config!Default(k.id, e) EXCEPT !.enabled = e]
  <2>1. r \in Config!Routes /\ r.id = k.id /\ r.instance = "default" /\ r.endpoint = "none"
    BY <1>2, DefaultIsRoute DEF Config!Routes
  <2> HIDE DEF r
  <2>2. RouteAdded(c, d, k.id, r)
    BY <1>4 DEF r
  <2> QED  BY <2>1, <2>2, <1>2, <1>4, AddedValid
<1> QED  BY <1>1, <1>2, <1>3, <1>4, EnabledIs DEF d

(* A configuration's size is a number.                                      *)
LEMMA BytesCount == ASSUME NEW c \in Config!Configs PROVE Config!Bytes(c) \in Nat
<1>1. c.routes \in Seq(Config!Routes)
  BY DEF Config!Configs
<1>2. Len(c.routes) \in Nat /\ DOMAIN c.routes = 1 .. Len(c.routes)
  BY <1>1, LenProperties
<1>3. IsFiniteSet(1 .. Len(c.routes))
  <2>1. 1 \in Int /\ Len(c.routes) \in Int
    BY <1>2
  <2> QED  BY <2>1, FS_Interval, Zenon
<1>4. ASSUME NEW S, S \subseteq 1 .. Len(c.routes) PROVE Config!Cardinality(S) \in Nat
  BY <1>3, <1>4, FS_Subset, FS_CardinalityType, CardinalityInConfig
<1> DEFINE E == {i \in DOMAIN c.routes : c.routes[i].endpoint # "none"}
           O == {i \in DOMAIN c.routes : c.routes[i].option # "none"}
<1>5. E \subseteq 1 .. Len(c.routes) /\ O \subseteq 1 .. Len(c.routes)
  BY <1>2
<1>6. Config!Bytes(c) = Len(c.routes) + Config!Cardinality(E) + Config!Cardinality(O)
  BY DEF Config!Bytes
<1>7. Config!Cardinality(E) \in Nat /\ Config!Cardinality(O) \in Nat
  BY <1>4, <1>5, Zenon
<1> HIDE DEF E, O
<1> DEFINE e == Config!Cardinality(E)
           o == Config!Cardinality(O)
<1>8. e \in Nat /\ o \in Nat /\ Config!Bytes(c) = Len(c.routes) + e + o
  BY <1>6, <1>7
<1> HIDE DEF e, o
<1> QED  BY <1>2, <1>8

(* load_config_bytes of a document the commands write, and of what is       *)
(* none.                                                                    *)
LEMMA LoadsMeans ==
    /\ \A c \in Config!Configs :
          /\ Config!Document(c) \in Config!Documents /\ Config!Document(c).config = c
          /\ Config!LoadConfig(Config!Document(c)) =
                IF Config!Document(c).bytes > MaxConfigBytes THEN "ConfigTooLarge"
                ELSE Config!ValidateConfig(c)
    /\ \A f \in Config!Files : Config!LoadConfig(f) = "ok" =>
          f \in Config!Documents /\ f.config \in Config!Configs /\ Config!ValidateConfig(f.config) = "ok"
<1>1. ASSUME NEW c \in Config!Configs
      PROVE  /\ Config!Document(c) \in Config!Documents /\ Config!Document(c).config = c
             /\ Config!LoadConfig(Config!Document(c)) =
                   IF Config!Document(c).bytes > MaxConfigBytes THEN "ConfigTooLarge"
                   ELSE Config!ValidateConfig(c)
  <2>1. /\ Config!Document(c).is = "json" /\ Config!Document(c).secret = FALSE
        /\ Config!Document(c).version = 1 /\ Config!Document(c).config = c
    BY DEF Config!Document
  <2>2. Config!Document(c) \in Config!Documents
    BY BytesCount DEF Config!Document, Config!Documents
  <2> QED  BY <2>1, <2>2 DEF Config!LoadConfig
<1>2. ASSUME NEW f \in Config!Files, Config!LoadConfig(f) = "ok"
      PROVE  f \in Config!Documents /\ f.config \in Config!Configs /\ Config!ValidateConfig(f.config) = "ok"
  <2>1. CASE f = Config!None \/ f = [is |-> "junk"] \/ f = [is |-> "huge"]
    <3>1. f.is \in {"none", "junk", "huge"}
      BY <2>1 DEF Config!None
    <3> QED  BY <1>2, <3>1 DEF Config!LoadConfig
  <2>2. CASE f \in Config!Documents
    <3>1. f.is = "json" /\ f.config \in Config!Configs
      BY <2>2 DEF Config!Documents
    <3> QED  BY <1>2, <2>2, <3>1 DEF Config!LoadConfig
  <2> QED  BY <2>1, <2>2 DEF Config!Files
<1> QED  BY <1>1, <1>2

(* A draft is not the absence of one.                                       *)
LEMMA DraftIsSome == \A d \in Config!Drafts : d # Config!None
<1>1. DOMAIN Config!None = {"is"}
  BY DEF Config!None
<1>2. ASSUME NEW d \in Config!Drafts PROVE "command" \in DOMAIN d
  BY DEF Config!Drafts
<1> QED  BY <1>1, <1>2

(* What a command can read is a configuration.                              *)
LEMMA ReadMeans ==
    ASSUME NEW f \in Config!Files, Config!Readable(f)
    PROVE  Config!Read(f) \in Config!Configs /\ Config!ValidateConfig(Config!Read(f)) = "ok"
<1>1. CASE f.is = "none"
  BY <1>1, EmptyValid DEF Config!Read
<1>2. CASE f.is # "none"
  BY <1>2, LoadsMeans DEF Config!Read, Config!Readable
<1> QED  BY <1>1, <1>2

(* A command keeps what it drafted, and changes no file.                    *)
LEMMA ConfigCommandStep ==
    ASSUME Config!ConfigKept, NEW p \in Commands, NEW k \in Config!Kinds, Config!RunCommand(p, k)
    PROVE  Config!ConfigKept'
<1>0. Config!TypeOK /\ Config!WrittenLoads /\ Config!DraftsKept /\ Config!ReaderKept
  BY DEF Config!ConfigKept
<1>1. UNCHANGED <<r1, r2, r5>> /\ r1 \in Config!Files /\ r6' \in [commands : Nat, edits : Nat]
  BY <1>0 DEF Config!RunCommand, Config!TypeOK
<1>2. Config!WrittenLoads' /\ Config!ReaderKept'
  BY <1>0, <1>1 DEF Config!WrittenLoads, Config!ReaderKept
<1>3. Config!TypeOK' /\ Config!DraftsKept'
  <2>1. CASE Config!Accepted(k)
    <3> DEFINE c == IF k.is = "init" THEN Config!Empty ELSE Config!Read(r1)
               d == [command |-> k, read |-> r1, writes |-> Config!Document(Config!Changed(c, k))]
    <3>1. r3' = [r3 EXCEPT ![p] = "write"] /\ r4' = [r4 EXCEPT ![p] = d]
      BY <2>1 DEF Config!RunCommand
    <3>2. c \in Config!Configs /\ Config!ValidateConfig(c) = "ok"
      <4>1. CASE k.is = "init"
        BY <4>1, EmptyValid
      <4>2. CASE k.is # "init"
        <5>1. Config!Readable(r1)
          BY <4>2, <2>1 DEF Config!Accepted
        <5> QED  BY <5>1, <4>2, <1>1, ReadMeans
      <4> QED  BY <4>1, <4>2
    <3>3. k.is = "option" => k.option # "unknown"
      BY <2>1 DEF Config!Accepted, Config!Sensible
    <3>4. Config!Changed(c, k) \in Config!Configs
      <4> HIDE DEF c
      <4> QED  BY <3>2, <3>3, ChangedTyped
    <3>5. Config!ValidateConfig(Config!Changed(c, k)) \in {"ok"} \cup Config!Unchecked(Config!WrittenBy(k))
      <4>1. CASE k.is \in {"enable", "disable"}
        <5>1. Config!Unchecked(Config!WrittenBy(k)) = {"CollectionTooLarge"}
          BY <4>1 DEF Config!Unchecked, Config!WrittenBy
        <5> HIDE DEF c
        <5> QED  BY <3>2, <4>1, <5>1, EnableLoads
      <4>2. CASE k.is = "init"
        BY <4>2, EmptyValid DEF Config!Changed
      <4>3. CASE k.is \notin {"enable", "disable", "init"}
        BY <4>3, <2>1 DEF Config!Accepted
      <4> QED  BY <4>1, <4>2, <4>3
    <3> HIDE DEF c
    <3>6. d \in Config!Drafts /\ Config!Encodes(d.writes, d.command)
      BY <1>1, <3>4, <3>5, LoadsMeans DEF Config!Encodes, Config!Drafts
    <3>7. d # Config!None
      BY <3>6, DraftIsSome
    <3> HIDE DEF d
    <3>8. Config!TypeOK'
      BY <1>0, <1>1, <3>1, <3>6, <3>7 DEF Config!TypeOK
    <3>9. \A q \in Commands : r3'[q] = "write" => Config!Encodes(r4'[q].writes, r4'[q].command)
      BY <1>0, <3>1, <3>6 DEF Config!TypeOK, Config!DraftsKept
    <3> QED  BY <3>8, <3>9 DEF Config!DraftsKept, Config!Encodes
  <2>2. CASE ~Config!Accepted(k)
    <3>1. UNCHANGED <<r3, r4>>
      BY <2>2 DEF Config!RunCommand
    <3> QED  BY <1>0, <1>1, <3>1 DEF Config!TypeOK, Config!DraftsKept, Config!Encodes
  <2> QED  BY <2>1, <2>2
<1> QED  BY <1>2, <1>3 DEF Config!ConfigKept

(* A write puts into place what its command made.                           *)
LEMMA WriteStep ==
    ASSUME Config!ConfigKept, NEW p \in Commands, Config!Write(p)
    PROVE  Config!ConfigKept'
<1>0. Config!TypeOK /\ Config!WrittenLoads /\ Config!DraftsKept /\ Config!ReaderKept
  BY DEF Config!ConfigKept
<1>1. /\ r3[p] = "write" /\ r3' = [r3 EXCEPT ![p] = "idle"] /\ r4' = [r4 EXCEPT ![p] = Config!None]
      /\ r5' = r5 /\ r6' = r6
      /\ \/ r1' = r4[p].writes /\ r2' = Config!WrittenBy(r4[p].command)
         \/ r1' = r1 /\ r2' = r2
  BY DEF Config!Write
<1>2. r4[p] \in Config!Drafts /\ Config!Encodes(r4[p].writes, r4[p].command)
  BY <1>0, <1>1 DEF Config!TypeOK, Config!DraftsKept
<1>3. /\ r4[p].writes \in Config!Documents /\ r4[p].writes.config \in Config!Configs
  BY <1>2 DEF Config!Drafts, Config!Documents
<1>4. Config!TypeOK'
  <2>1. r1' \in Config!Files /\ r2' \in {"edit", "enable", "command"}
    BY <1>0, <1>1, <1>3 DEF Config!TypeOK, Config!Files, Config!WrittenBy
  <2> QED  BY <1>0, <1>1, <2>1 DEF Config!TypeOK
<1>5. Config!DraftsKept'
  <2>1. \A q \in Commands : r3'[q] = "write" => Config!Encodes(r4'[q].writes, r4'[q].command)
    BY <1>0, <1>1 DEF Config!TypeOK, Config!DraftsKept
  <2> QED  BY <2>1 DEF Config!DraftsKept, Config!Encodes
<1>6. Config!ReaderKept'
  BY <1>0, <1>1 DEF Config!ReaderKept
<1>7. Config!WrittenLoads'
  <2>1. CASE r1' = r1 /\ r2' = r2
    BY <2>1, <1>0 DEF Config!WrittenLoads
  <2>2. CASE r1' = r4[p].writes /\ r2' = Config!WrittenBy(r4[p].command)
    <3> DEFINE f == r4[p].writes
    <3>1. /\ f = Config!Document(f.config) /\ f.is = "json"
          /\ Config!ValidateConfig(f.config) \in {"ok"} \cup Config!Unchecked(r2')
      BY <1>2, <1>3, <2>2 DEF Config!Encodes, Config!Documents
    <3> HIDE DEF f
    <3>2. Config!LoadConfig(f) = IF f.bytes > MaxConfigBytes THEN "ConfigTooLarge"
                                 ELSE Config!ValidateConfig(f.config)
      BY <3>1, <1>3, LoadsMeans DEF f
    <3>3. r1' = f
      BY <2>2 DEF f
    <3> QED  BY <3>1, <3>2, <3>3 DEF Config!WrittenLoads
  <2> QED  BY <1>1, <2>1, <2>2
<1> QED  BY <1>4, <1>5, <1>6, <1>7 DEF Config!ConfigKept

(* Short sequences of members of a set.                                     *)
LEMMA ShortSeqs ==
    ASSUME NEW S
    PROVE  << >> \in Seq(S) /\ \A a, b \in S : <<a>> \in Seq(S) /\ <<a, b>> \in Seq(S)
<1>1. << >> \in Seq(S)
  BY EmptySeq
<1>2. ASSUME NEW a \in S, NEW b \in S
      PROVE  <<a>> \in Seq(S) /\ <<a, b>> \in Seq(S)
  <2>1. <<a>> \in Seq(S)
    OBVIOUS
  <2>2. <<a, b>> \in Seq(S)
    OBVIOUS
  <2> QED  BY <2>1, <2>2
<1> QED  BY <1>1, <1>2

(* What an editor leaves is a file.                                         *)
LEMMA EditsAreFiles == Config!Edits \subseteq Config!Files
<1>1. /\ Config!Default("Groq", TRUE) \in Config!Routes /\ Config!Default("Groq", FALSE) \in Config!Routes
      /\ Config!Default("Codex", TRUE) \in Config!Routes
      /\ Config!Route("Groq", "work", TRUE, "https") \in Config!Routes
      /\ "Groq" \in Config!Providers /\ "Codex" \in Config!Providers
  BY DEF Config!Default, Config!Route, Config!Routes, Config!Providers
<1> HIDE DEF Config!Default, Config!Route, Config!Routes, Config!Providers
<1>2. /\ << >> \in Seq(Config!Providers) /\ <<"Groq">> \in Seq(Config!Providers)
      /\ <<"Codex", "Groq">> \in Seq(Config!Providers)
      /\ <<Config!Default("Groq", TRUE)>> \in Seq(Config!Routes)
      /\ <<Config!Default("Groq", TRUE), Config!Default("Groq", FALSE)>> \in Seq(Config!Routes)
      /\ <<Config!Route("Groq", "work", TRUE, "https"), Config!Default("Codex", TRUE)>> \in Seq(Config!Routes)
  BY <1>1, ShortSeqs
<1>3. \A routes \in Seq(Config!Routes), order \in Seq(Config!Providers) :
        Config!Document([routes |-> routes, order |-> order]) \in Config!Documents
  BY LoadsMeans DEF Config!Configs
<1>4. /\ [Config!Document(Config!Empty) EXCEPT !.secret = TRUE] \in Config!Documents
      /\ [Config!Document(Config!Empty) EXCEPT !.version = 2] \in Config!Documents
  BY EmptyValid, LoadsMeans DEF Config!Documents
<1>5. \A f \in Config!Documents : [f EXCEPT !.bytes = 1] \in Config!Documents
  BY DEF Config!Documents
<1> HIDE DEF Config!Documents, Config!Document
<1> QED  BY <1>2, <1>3, <1>4, <1>5 DEF Config!Edits, Config!Files

(* The reader takes only what loads.                                        *)
LEMMA ReaderSteps ==
    ASSUME Config!ConfigKept, Config!ReaderLoad \/ Config!ReaderPoll
    PROVE  Config!ConfigKept'
<1>0. Config!TypeOK /\ Config!WrittenLoads /\ Config!DraftsKept /\ Config!ReaderKept
  BY DEF Config!ConfigKept
<1>1. UNCHANGED <<r1, r2, r3, r4, r6>> /\ r1 \in Config!Files
  BY <1>0 DEF Config!ReaderLoad, Config!ReaderPoll, Config!TypeOK
<1>2. Config!WrittenLoads' /\ Config!DraftsKept'
  BY <1>0, <1>1 DEF Config!WrittenLoads, Config!DraftsKept, Config!Encodes
<1>3. ASSUME NEW o \in Config!Files, Config!LoadConfig(o) = "ok",
             r5' = [current |-> o.config, seen |-> o]
      PROVE  Config!ReaderKept' /\ r5' \in [current : Config!Configs, seen : Config!Files]
  <2>1. r5'.current = o.config /\ r5'.seen = o
    BY <1>3
  <2>2. o.config \in Config!Configs /\ Config!ValidateConfig(o.config) = "ok"
    BY <1>3, LoadsMeans
  <2>3. Config!ReaderKept'
    BY <2>1, <2>2, <1>3 DEF Config!ReaderKept
  <2> QED  BY <1>3, <2>2, <2>3
<1>4. ASSUME Config!ReaderLoad
      PROVE  Config!ReaderKept' /\ r5' \in [current : Config!Configs, seen : Config!Files]
  BY <1>1, <1>3, <1>4 DEF Config!ReaderLoad
<1>5. ASSUME Config!ReaderPoll
      PROVE  Config!ReaderKept' /\ r5' \in [current : Config!Configs, seen : Config!Files]
  <2>1. PICK o \in {r1, Config!None} : r5' = Config!Observed(o)
    BY <1>5 DEF Config!ReaderPoll
  <2>2. o \in Config!Files
    BY <1>1 DEF Config!Files
  <2>3. CASE Config!LoadConfig(o) = "ok"
    BY <1>3, <2>1, <2>2, <2>3 DEF Config!Observed
  <2>4. CASE Config!LoadConfig(o) # "ok"
    <3>1. r5' = [r5 EXCEPT !.seen = o]
      BY <2>1, <2>4 DEF Config!Observed
    <3>2. /\ r5 \in [current : Config!Configs, seen : Config!Files]
          /\ Config!ValidateConfig(r5.current) = "ok"
      BY <1>0, <1>5 DEF Config!ReaderPoll, Config!TypeOK, Config!ReaderKept
    <3>3. /\ r5' \in [current : Config!Configs, seen : Config!Files]
          /\ r5'.current = r5.current /\ r5'.seen = o
      BY <3>1, <3>2, <2>2
    <3> QED  BY <3>2, <3>3, <2>4 DEF Config!ReaderKept
  <2> QED  BY <2>3, <2>4
<1>6. Config!TypeOK'
  BY <1>0, <1>1, <1>4, <1>5 DEF Config!TypeOK
<1> QED  BY <1>2, <1>4, <1>5, <1>6 DEF Config!ConfigKept

(* So every step keeps the configuration.                                   *)
LEMMA ConfigStep ==
    ASSUME Config!ConfigKept, Config!Next
    PROVE  Config!ConfigKept'
<1>1. CASE Config!Edit
  <2>0. Config!TypeOK /\ Config!DraftsKept /\ Config!ReaderKept
    BY DEF Config!ConfigKept
  <2>1. /\ r1' \in Config!Files /\ r2' = "edit" /\ UNCHANGED <<r3, r4, r5>>
        /\ r6' \in [commands : Nat, edits : Nat]
    BY <1>1, <2>0, EditsAreFiles DEF Config!Edit, Config!TypeOK
  <2>2. Config!DraftsKept' /\ Config!ReaderKept'
    BY <2>0, <2>1 DEF Config!DraftsKept, Config!ReaderKept, Config!Encodes
  <2>3. Config!TypeOK'
    BY <2>0, <2>1 DEF Config!TypeOK
  <2> QED  BY <2>1, <2>2, <2>3 DEF Config!ConfigKept, Config!WrittenLoads
<1> QED  BY <1>1, ConfigCommandStep, WriteStep, ReaderSteps DEF Config!Next

(* At first there is no draft, and no reader.                               *)
LEMMA ConfigStarts == Config!Init => Config!ConfigKept
<1> SUFFICES ASSUME Config!Init  PROVE Config!ConfigKept
  OBVIOUS
<1>1. r1 \in Config!Files
  <2>1. Config!Default("Groq", TRUE) \in Config!Routes /\ "Groq" \in Config!Providers
    BY DEF Config!Default, Config!Route, Config!Routes, Config!Providers
  <2>2. [routes |-> <<Config!Default("Groq", TRUE)>>, order |-> <<"Groq">>] \in Config!Configs
    BY <2>1, ShortSeqs DEF Config!Configs
  <2> QED  BY <2>2, LoadsMeans DEF Config!Init, Config!Files
<1>2. MaxCommands \in Nat /\ MaxEdits \in Nat
  BY ServicesAssumption DEF Config!ConfigurationAssumption
<1>3. Config!TypeOK
  BY <1>1, <1>2 DEF Config!Init, Config!TypeOK
<1> QED  BY <1>3 DEF Config!Init, Config!ConfigKept, Config!WrittenLoads, Config!DraftsKept, Config!ReaderKept

(* What was written can be loaded, and the reader holds a good one.         *)
LEMMA ConfigMeans ==
    ASSUME Config!ConfigKept
    PROVE  Config!TypeOK /\ Config!WrittenLoads /\ Config!ReaderHoldsGood
BY DEF Config!ConfigKept, Config!ReaderKept, Config!ReaderHoldsGood

(* retain makes the same of two lists that differ in members it drops only. *)
LEMMA KeepingAgree ==
    ASSUME NEW s, NEW t, NEW T, NEW a \in Nat, NEW b \in Nat, NEW m \in Nat, m <= a, m <= b,
           NEW f, Keeps(s, T, f, a), NEW g, Keeps(t, T, g, b),
           \A n \in 1 .. m : s[n] = t[n] \/ (s[n] \in T /\ t[n] \in T)
    PROVE  f[m] = g[m]
<1>1. /\ f[0] = << >> /\ g[0] = << >>
      /\ \A n \in 1 .. a : f[n] = IF s[n] \in T THEN f[n - 1] ELSE Append(f[n - 1], s[n])
      /\ \A n \in 1 .. b : g[n] = IF t[n] \in T THEN g[n - 1] ELSE Append(g[n - 1], t[n])
  BY DEF Keeps
<1> DEFINE Bad == {n \in 0 .. m : f[n] # g[n]}
<1> SUFFICES ASSUME Bad # {}  PROVE FALSE
  OBVIOUS
<1>2. PICK k \in Bad : \A j \in Bad : k <= j
  <2>1. Bad \subseteq Nat
    OBVIOUS
  <2> HIDE DEF Bad
  <2> QED  BY <2>1, LeastNatural
<1>3. k \in 1 .. m
  BY <1>1, <1>2
<1>4. k - 1 \in 0 .. m /\ k - 1 \notin Bad /\ k \in 1 .. a /\ k \in 1 .. b
  BY <1>2, <1>3
<1>5. f[k - 1] = g[k - 1] /\ f[k] # g[k]
  BY <1>2, <1>4
<1> QED  BY <1>1, <1>3, <1>4, <1>5

(* It drops what is in the set,                                             *)
Drops(s, T, a, b) == \A n \in (a + 1) .. b : s[n] \in T

(* Members that are dropped add nothing.                                    *)
LEMMA KeepingSkips ==
    ASSUME NEW s, NEW T, NEW a \in Nat, NEW b \in Nat, a <= b, NEW f, Keeps(s, T, f, b),
           Drops(s, T, a, b)
    PROVE  f[b] = f[a]
<1>0. \A n \in (a + 1) .. b : s[n] \in T
  BY DEF Drops
<1>1. \A n \in 1 .. b : f[n] = IF s[n] \in T THEN f[n - 1] ELSE Append(f[n - 1], s[n])
  BY DEF Keeps
<1> DEFINE Bad == {n \in a .. b : f[n] # f[a]}
<1> SUFFICES ASSUME Bad # {}  PROVE FALSE
  OBVIOUS
<1>2. PICK k \in Bad : \A j \in Bad : k <= j
  <2>1. Bad \subseteq Nat
    OBVIOUS
  <2> HIDE DEF Bad
  <2> QED  BY <2>1, LeastNatural
<1>3. k \in (a + 1) .. b /\ k \in 1 .. b
  BY <1>2
<1>4. k - 1 \in a .. b /\ k - 1 \notin Bad
  BY <1>2, <1>3
<1>5. f[k - 1] = f[a] /\ f[k] # f[a]
  BY <1>2, <1>4
<1> QED  BY <1>0, <1>1, <1>3, <1>5

(* and keeps the rest as it is.                                             *)
LEMMA KeepingKeeps ==
    ASSUME NEW S, NEW w \in Seq(S), NEW s, NEW T, NEW a \in Nat,
           NEW f, Keeps(s, T, f, a + Len(w)), f[a] = << >>,
           \A n \in 1 .. Len(w) : s[a + n] = w[n] /\ w[n] \notin T
    PROVE  f[a + Len(w)] = w
<1>0. Len(w) \in Nat /\ a + Len(w) \in Nat /\ w \in [1 .. Len(w) -> S]
  BY LenProperties
<1>1. \A n \in 1 .. (a + Len(w)) : f[n] = IF s[n] \in T THEN f[n - 1] ELSE Append(f[n - 1], s[n])
  BY DEF Keeps
<1> DEFINE first(n) == SubSeq(w, 1, n)
<1> DEFINE Bad == {n \in 0 .. Len(w) : f[a + n] # first(n)}
<1>2. Bad = {}
  <2> SUFFICES ASSUME Bad # {}  PROVE FALSE
    OBVIOUS
  <2>2. PICK k \in Bad : \A j \in Bad : k <= j
    <3>1. Bad \subseteq Nat
      BY <1>0
    <3> HIDE DEF Bad
    <3> QED  BY <3>1, LeastNatural
  <2>3. k # 0
    <3>1. first(0) = << >> /\ a + 0 = a
      BY SubSeqEmpty
    <3>2. f[a + k] # first(k)
      BY <2>2
    <3> QED  BY <3>1, <3>2
  <2>4. k \in 1 .. Len(w) /\ k - 1 \in 0 .. Len(w) /\ k - 1 \notin Bad
    <3>1. k \in 1 .. Len(w)
      BY <1>0, <2>3
    <3> HIDE DEF Bad
    <3> QED  BY <1>0, <2>2, <3>1
  <2>5. f[a + (k - 1)] = first(k - 1) /\ f[a + k] # first(k)
    BY <2>2, <2>4
  <2>6. a + k \in 1 .. (a + Len(w)) /\ (a + k) - 1 = a + (k - 1)
    BY <1>0, <2>4
  <2>7. s[a + k] = w[k] /\ w[k] \notin T
    BY <2>4
  <2> HIDE DEF Bad, first
  <2>8. f[a + k] = Append(first(k - 1), w[k])
    BY <1>1, <2>5, <2>6, <2>7
  <2>9. Append(first(k - 1), w[k]) = first(k)
    <3>1. w[k] \in S /\ \A i \in 1 .. (k - 1) : w[i] \in S
      BY <1>0, <2>4
    <3>2. /\ first(k - 1) \in Seq(S) /\ Len(first(k - 1)) = k - 1
          /\ \A i \in 1 .. (k - 1) : first(k - 1)[i] = w[i]
      BY <2>4, <3>1, SubSeqProperties DEF first
    <3>3. first(k) \in Seq(S) /\ Len(first(k)) = k /\ \A i \in 1 .. k : first(k)[i] = w[i]
      <4>1. \A i \in 1 .. k : w[i] \in S
        BY <1>0, <2>4
      <4> QED  BY <2>4, <4>1, SubSeqProperties DEF first
    <3>4. /\ Append(first(k - 1), w[k]) \in Seq(S) /\ Len(Append(first(k - 1), w[k])) = (k - 1) + 1
          /\ \A i \in 1 .. (k - 1) : Append(first(k - 1), w[k])[i] = first(k - 1)[i]
          /\ Append(first(k - 1), w[k])[(k - 1) + 1] = w[k]
      BY <3>1, <3>2, AppendProperties
    <3> DEFINE app == Append(first(k - 1), w[k])
    <3> HIDE DEF app
    <3>5. /\ app \in Seq(S) /\ Len(app) = k /\ app[k] = w[k]
          /\ \A i \in 1 .. (k - 1) : app[i] = w[i]
      BY <2>4, <3>2, <3>4 DEF app
    <3>6. \A i \in 1 .. k : i \in 1 .. (k - 1) \/ i = k
      BY <2>4
    <3>7. \A i \in 1 .. k : app[i] = first(k)[i]
      BY <3>3, <3>5, <3>6
    <3>8. app = first(k)
      BY <3>3, <3>5, <3>7, SeqEqual
    <3> QED  BY <3>8 DEF app
  <2> QED  BY <2>5, <2>8, <2>9
<1>3. f[a + Len(w)] = first(Len(w))
  <2>1. Len(w) \in 0 .. Len(w)
    BY <1>0
  <2> QED  BY <1>2, <2>1
<1> QED  BY <1>3, SubSeqFull

(* retain drops what one command puts into a list: a member replaced by     *)
(* another of the set, one of the set added, a list of them before or       *)
(* after.                                                                   *)
LEMMA WithoutReplaced ==
    ASSUME NEW S, NEW s \in Seq(S), NEW T, NEW i \in 1 .. Len(s), NEW x \in S, x \in T, s[i] \in T
    PROVE  Config!Without([s EXCEPT ![i] = x], T) = Config!Without(s, T)
<1> DEFINE t == [s EXCEPT ![i] = x]
<1>1. t \in Seq(S) /\ Len(t) = Len(s) /\ \A j \in 1 .. Len(s) : t[j] = IF j = i THEN x ELSE s[j]
  BY ExceptSeq
<1>2. Len(s) \in Nat
  BY LenProperties
<1> HIDE DEF t
<1>3. PICK f : Keeps(s, T, f, Len(s)) /\ Config!Without(s, T) = f[Len(s)]
  BY WithoutIs
<1>4. PICK g : Keeps(t, T, g, Len(s)) /\ Config!Without(t, T) = g[Len(s)]
  BY <1>1, WithoutIs
<1>5. \A n \in 1 .. Len(s) : s[n] = t[n] \/ (s[n] \in T /\ t[n] \in T)
  BY <1>1
<1>6. f[Len(s)] = g[Len(s)]
  BY <1>2, <1>3, <1>4, <1>5, KeepingAgree
<1> QED  BY <1>3, <1>4, <1>6 DEF t

(* Dropped members that follow make no difference.                          *)
LEMMA WithoutFollowed ==
    ASSUME NEW S, NEW s \in Seq(S), NEW T, NEW t \in Seq(S), \A n \in 1 .. Len(t) : t[n] \in T
    PROVE  Config!Without(s \o t, T) = Config!Without(s, T)
<1> DEFINE u == s \o t
           m == Len(s)
           e == Len(s) + Len(t)
<1>1. /\ u \in Seq(S) /\ Len(u) = e
      /\ \A n \in 1 .. e : u[n] = IF n <= m THEN s[n] ELSE t[n - m]
  BY ConcatProperties
<1>2. m \in Nat /\ Len(t) \in Nat /\ e \in Nat /\ m <= e
  BY LenProperties
<1> HIDE DEF u
<1>3. PICK f : Keeps(s, T, f, m) /\ Config!Without(s, T) = f[m]
  BY WithoutIs
<1>4. PICK g : Keeps(u, T, g, e) /\ Config!Without(u, T) = g[e]
  BY <1>1, WithoutIs
<1>5. \A n \in 1 .. m : s[n] = u[n]
  BY <1>1, <1>2
<1>6. Drops(u, T, m, e)
  <2> SUFFICES \A n \in (m + 1) .. e : u[n] \in T
    BY DEF Drops
  <2> TAKE n \in (m + 1) .. e
  <2>1. n \in 1 .. e /\ ~(n <= m) /\ n - m \in 1 .. Len(t)
    BY <1>2
  <2> QED  BY <1>1, <2>1
<1>7. f[m] = g[m]
  <2>1. m <= m /\ \A n \in 1 .. m : s[n] = u[n] \/ (s[n] \in T /\ u[n] \in T)
    BY <1>2, <1>5
  <2> HIDE DEF e, m
  <2> QED  BY <1>2, <1>3, <1>4, <2>1, KeepingAgree
<1> HIDE DEF e, m
<1>8. g[e] = g[m]
  BY <1>2, <1>4, <1>6, KeepingSkips
<1> QED  BY <1>3, <1>4, <1>7, <1>8 DEF u

(* Nor do dropped members that precede.                                     *)
LEMMA WithoutPreceded ==
    ASSUME NEW S, NEW s \in Seq(S), NEW T, NEW w \in Seq(S \ T), \A n \in 1 .. Len(s) : s[n] \in T
    PROVE  Config!Without(s \o w, T) = w
<1> DEFINE u == s \o w
           m == Len(s)
<1>0. w \in Seq(S)
  BY SeqMonotonic
<1>1. /\ u \in Seq(S) /\ Len(u) = m + Len(w)
      /\ \A n \in 1 .. (m + Len(w)) : u[n] = IF n <= m THEN s[n] ELSE w[n - m]
  BY <1>0, ConcatProperties
<1>2. m \in Nat /\ Len(w) \in Nat /\ \A n \in 1 .. Len(w) : w[n] \notin T
  BY LenProperties
<1> HIDE DEF u, m
<1>3. PICK f : Keeps(u, T, f, m + Len(w)) /\ Config!Without(u, T) = f[m + Len(w)]
  BY <1>1, WithoutIs
<1>4. f[m] = << >>
  <2>1. Keeps(u, T, f, m) /\ f[0] = << >>
    BY <1>2, <1>3 DEF Keeps
  <2>2. Drops(u, T, 0, m) /\ 0 <= m
    BY <1>1, <1>2 DEF m, Drops
  <2>3. f[m] = f[0]
    BY <1>2, <2>1, <2>2, KeepingSkips
  <2> QED  BY <2>1, <2>3
<1>5. \A n \in 1 .. Len(w) : u[m + n] = w[n] /\ w[n] \notin T
  <2> TAKE n \in 1 .. Len(w)
  <2>1. m + n \in 1 .. (m + Len(w)) /\ ~(m + n <= m) /\ (m + n) - m = n
    BY <1>2
  <2> QED  BY <1>1, <1>2, <2>1
<1>6. f[m + Len(w)] = w
  BY <1>0, <1>2, <1>3, <1>4, <1>5, KeepingKeeps
<1> QED  BY <1>3, <1>6 DEF u

(* Nor does one that is appended.                                           *)
LEMMA WithoutAppended ==
    ASSUME NEW S, NEW s \in Seq(S), NEW T, NEW x \in S, x \in T
    PROVE  Config!Without(Append(s, x), T) = Config!Without(s, T)
<1> DEFINE t == <<x>>
<1>1. t \in Seq(S) /\ \A n \in 1 .. Len(t) : t[n] \in T
  BY ShortSeqs
<1>2. Append(s, x) = s \o t
  BY AppendIsConcat
<1> HIDE DEF t
<1>3. Config!Without(s \o t, T) = Config!Without(s, T)
  BY <1>1, WithoutFollowed
<1> QED  BY <1>2, <1>3

(* What a command makes of a configuration leaves the routes and the place  *)
(* of the providers it does not name alone.                                 *)
Alike(c, d, named) ==
    /\ Config!Others(d, named) = Config!Others(c, named)
    /\ Config!Without(d.order, named) = Config!Without(c.order, named)

(* Replacing a provider's default route leaves the others alone.            *)
LEMMA ReplacedAlike ==
    ASSUME NEW c \in Config!Configs, NEW id \in Config!Providers, NEW i \in Config!AtDefault(c, id),
           NEW r \in Config!Routes, r.id = id, r.instance = "default", NEW d, RouteReplaced(c, d, i, r)
    PROVE  Alike(c, d, {id})
<1> DEFINE T == {x \in Config!Routes : x.id \in {id} /\ x.instance = "default"}
<1>1. c.routes \in Seq(Config!Routes) /\ DOMAIN c.routes = 1 .. Len(c.routes)
  BY LenProperties DEF Config!Configs
<1>2. i \in 1 .. Len(c.routes) /\ i \in DOMAIN c.routes /\ c.routes[i].id = id /\ c.routes[i].instance = "default"
  BY <1>1 DEF Config!AtDefault
<1>3. d.order = c.order /\ d.routes = [c.routes EXCEPT ![i] = r]
  BY <1>2, ChangedShape DEF RouteReplaced
<1>4. c.routes[i] \in T /\ r \in T
  BY <1>1, <1>2, ElementOfSeq
<1>5. Config!Others(d, {id}) = Config!Without(d.routes, T) /\ Config!Others(c, {id}) = Config!Without(c.routes, T)
  BY DEF Config!Others
<1> HIDE DEF T
<1>6. Config!Without(d.routes, T) = Config!Without(c.routes, T)
  BY <1>1, <1>2, <1>3, <1>4, WithoutReplaced
<1> QED  BY <1>3, <1>5, <1>6 DEF Alike

(* So does adding it.                                                       *)
LEMMA AddedAlike ==
    ASSUME NEW c \in Config!Configs, NEW id \in Config!Providers,
           NEW r \in Config!Routes, r.id = id, r.instance = "default", NEW d, RouteAdded(c, d, id, r)
    PROVE  Alike(c, d, {id})
<1> DEFINE T == {x \in Config!Routes : x.id \in {id} /\ x.instance = "default"}
<1>1. c.routes \in Seq(Config!Routes) /\ c.order \in Seq(Config!Providers)
  BY DEF Config!Configs
<1>2. /\ d.routes = Append(c.routes, r)
      /\ d.order = IF id \in Config!ToSet(c.order) THEN c.order ELSE Append(c.order, id)
  BY DEF RouteAdded
<1>3. r \in T
  OBVIOUS
<1>4. Config!Others(d, {id}) = Config!Without(d.routes, T) /\ Config!Others(c, {id}) = Config!Without(c.routes, T)
  BY DEF Config!Others
<1> HIDE DEF T
<1>5. Config!Without(Append(c.routes, r), T) = Config!Without(c.routes, T)
  BY <1>1, <1>3, WithoutAppended
<1>6. Config!Without(Append(c.order, id), {id}) = Config!Without(c.order, {id})
  BY <1>1, WithoutAppended
<1> QED  BY <1>2, <1>4, <1>5, <1>6 DEF Alike

(* So does a new order, of the providers it does not name.                  *)
LEMMA ReorderAlike ==
    ASSUME NEW c \in Config!Configs, NEW ids \in Seq(Config!Providers)
    PROVE  Alike(c, Config!SetProviderOrder(c, ids), Config!ToSet(ids))
<1> DEFINE N == Config!ToSet(ids)
           T == {x \in Config!Routes : x.id \in N /\ x.instance = "default"}
           missing == Config!Without(ids, Config!Ids(c.routes))
           new == [i \in DOMAIN missing |-> Config!Default(missing[i], TRUE)]
           d == Config!SetProviderOrder(c, ids)
           w == Config!Without(c.order, N)
<1>1. c.routes \in Seq(Config!Routes) /\ c.order \in Seq(Config!Providers)
  BY DEF Config!Configs
<1>2. d.routes = c.routes \o new /\ d.order = ids \o w
  BY DEF Config!SetProviderOrder
<1>3. Config!Others(d, N) = Config!Without(d.routes, T) /\ Config!Others(c, N) = Config!Without(c.routes, T)
  BY DEF Config!Others
<1>4. N \subseteq Config!Providers /\ \A n \in 1 .. Len(ids) : ids[n] \in N
  <2>1. DOMAIN ids = 1 .. Len(ids) /\ \A n \in 1 .. Len(ids) : ids[n] \in Config!Providers
    BY LenProperties
  <2> QED  BY <2>1 DEF Config!ToSet
<1>5. ids \in Seq(N)
  <2>1. Len(ids) \in Nat /\ ids \in [1 .. Len(ids) -> Config!Providers]
    BY LenProperties
  <2>2. ids \in [1 .. Len(ids) -> N]
    BY <2>1, <1>4
  <2> QED  BY <2>1, <2>2
<1>6. missing \in Seq(N \ Config!Ids(c.routes))
  BY <1>5, WithoutMembers
<1>7. w \in Seq(Config!Providers \ N)
  BY <1>1, WithoutMembers
<1> HIDE DEF N, w, missing, d
<1>8. /\ DOMAIN missing = 1 .. Len(missing) /\ Len(missing) \in Nat
      /\ \A n \in 1 .. Len(missing) : missing[n] \in N
  BY <1>6, LenProperties
<1>9. /\ new \in Seq(Config!Routes)
      /\ \A n \in 1 .. Len(new) : new[n] \in T
  <2>1. \A n \in 1 .. Len(missing) : Config!Default(missing[n], TRUE) \in T
    BY <1>4, <1>8, DefaultIsRoute
  <2>2. new \in [1 .. Len(missing) -> T] /\ T \subseteq Config!Routes
    BY <1>8, <2>1
  <2> HIDE DEF T, new
  <2>3. new \in Seq(T)
    BY <1>8, <2>2
  <2> QED  BY <2>2, <2>3, LenProperties, SeqMonotonic
<1> HIDE DEF T, new
<1>10. Config!Without(d.routes, T) = Config!Without(c.routes, T)
  <2>1. Config!Without(c.routes \o new, T) = Config!Without(c.routes, T)
    BY <1>1, <1>9, WithoutFollowed
  <2> QED  BY <1>2, <2>1
<1>11. Config!Without(d.order, N) = w
  BY <1>2, <1>4, <1>7, WithoutPreceded
<1> QED  BY <1>3, <1>10, <1>11 DEF Alike, d, N, w

(* So does every command but config init.                                   *)
LEMMA ChangedAlike ==
    ASSUME NEW c \in Config!Configs, NEW k \in Config!Kinds, Config!Sensible(k), k.is # "init"
    PROVE  Alike(c, Config!Changed(c, k), Config!Named(k))
<1> DEFINE d == Config!Changed(c, k)
<1>1. CASE k.is = "reorder"
  BY <1>1, KindMeans, ReorderAlike DEF Config!Changed, Config!Named
<1>2. CASE k.is \in {"enable", "disable"}
  <2>1. PICK e \in BOOLEAN : d = Config!SetProviderEnabled(c, k.id, e)
    BY <1>2 DEF Config!Changed
  <2>2. k.id \in Config!Providers /\ Config!Named(k) = {k.id}
    BY <1>2, KindMeans DEF Config!Named
  <2>3. /\ [Config!Default(k.id, e) EXCEPT !.enabled = e] \in Config!Routes
        /\ [Config!Default(k.id, e) EXCEPT !.enabled = e].id = k.id
        /\ [Config!Default(k.id, e) EXCEPT !.enabled = e].instance = "default"
    BY <2>2, DefaultIsRoute DEF Config!Routes
  <2>4. ASSUME NEW i \in Config!AtDefault(c, k.id)
        PROVE  /\ [c.routes[i] EXCEPT !.enabled = e] \in Config!Routes
               /\ [c.routes[i] EXCEPT !.enabled = e].id = k.id
               /\ [c.routes[i] EXCEPT !.enabled = e].instance = "default"
    BY DefaultRoutes DEF Config!Routes, Config!AtDefault
  <2> HIDE DEF d
  <2>5. \A i \in Config!AtDefault(c, k.id) :
          RouteReplaced(c, d, i, [c.routes[i] EXCEPT !.enabled = e]) => Alike(c, d, {k.id})
    BY <2>2, <2>4, ReplacedAlike
  <2>6. RouteAdded(c, d, k.id, [Config!Default(k.id, e) EXCEPT !.enabled = e]) => Alike(c, d, {k.id})
    BY <2>2, <2>3, AddedAlike
  <2> QED  BY <2>1, <2>2, <2>5, <2>6, EnabledIs DEF d
<1>3. CASE k.is = "endpoint"
  <2>1. d = Config!SetProviderEndpoint(c, k.id, k.endpoint)
    BY <1>3 DEF Config!Changed
  <2>2. k.id \in Config!Providers /\ Config!Named(k) = {k.id} /\ k.endpoint \in {"none", "https", "loopback"}
    BY <1>3, KindMeans DEF Config!Named
  <2>3. /\ [Config!Default(k.id, FALSE) EXCEPT !.endpoint = k.endpoint] \in Config!Routes
        /\ [Config!Default(k.id, FALSE) EXCEPT !.endpoint = k.endpoint].id = k.id
        /\ [Config!Default(k.id, FALSE) EXCEPT !.endpoint = k.endpoint].instance = "default"
    <3>1. /\ Config!Default(k.id, FALSE) \in Config!Routes
          /\ Config!Default(k.id, FALSE).id = k.id /\ Config!Default(k.id, FALSE).instance = "default"
      BY <2>2, DefaultIsRoute
    <3> QED  BY <2>2, <3>1 DEF Config!Routes
  <2>4. ASSUME NEW i \in Config!AtDefault(c, k.id)
        PROVE  /\ [c.routes[i] EXCEPT !.endpoint = k.endpoint] \in Config!Routes
               /\ [c.routes[i] EXCEPT !.endpoint = k.endpoint].id = k.id
               /\ [c.routes[i] EXCEPT !.endpoint = k.endpoint].instance = "default"
    BY <2>2, DefaultRoutes DEF Config!Routes, Config!AtDefault
  <2> HIDE DEF d
  <2>5. \A i \in Config!AtDefault(c, k.id) :
          RouteReplaced(c, d, i, [c.routes[i] EXCEPT !.endpoint = k.endpoint]) => Alike(c, d, {k.id})
    BY <2>2, <2>4, ReplacedAlike
  <2>6. RouteAdded(c, d, k.id, [Config!Default(k.id, FALSE) EXCEPT !.endpoint = k.endpoint]) => Alike(c, d, {k.id})
    BY <2>2, <2>3, AddedAlike
  <2> QED  BY <2>1, <2>2, <2>5, <2>6, EndpointIs DEF d
<1>4. CASE k.is = "option"
  <2>1. d = Config!SetProviderOption(c, k.id, k.option)
    BY <1>4 DEF Config!Changed
  <2>2. k.id \in Config!Providers /\ Config!Named(k) = {k.id} /\ k.option \in {"none", "cli"}
    BY <1>4, KindMeans DEF Config!Named, Config!Sensible
  <2>3. /\ [Config!Default(k.id, FALSE) EXCEPT !.option = k.option] \in Config!Routes
        /\ [Config!Default(k.id, FALSE) EXCEPT !.option = k.option].id = k.id
        /\ [Config!Default(k.id, FALSE) EXCEPT !.option = k.option].instance = "default"
    <3>1. /\ Config!Default(k.id, FALSE) \in Config!Routes
          /\ Config!Default(k.id, FALSE).id = k.id /\ Config!Default(k.id, FALSE).instance = "default"
      BY <2>2, DefaultIsRoute
    <3> QED  BY <2>2, <3>1 DEF Config!Routes
  <2>4. ASSUME NEW i \in Config!AtDefault(c, k.id)
        PROVE  /\ [c.routes[i] EXCEPT !.option = k.option] \in Config!Routes
               /\ [c.routes[i] EXCEPT !.option = k.option].id = k.id
               /\ [c.routes[i] EXCEPT !.option = k.option].instance = "default"
    BY <2>2, DefaultRoutes DEF Config!Routes, Config!AtDefault
  <2> HIDE DEF d
  <2>5. \A i \in Config!AtDefault(c, k.id) :
          RouteReplaced(c, d, i, [c.routes[i] EXCEPT !.option = k.option]) => Alike(c, d, {k.id})
    BY <2>2, <2>4, ReplacedAlike
  <2>6. RouteAdded(c, d, k.id, [Config!Default(k.id, FALSE) EXCEPT !.option = k.option]) => Alike(c, d, {k.id})
    BY <2>2, <2>3, AddedAlike
  <2> QED  BY <2>1, <2>2, <2>5, <2>6, OptionIs DEF d
<1> QED  BY <1>1, <1>2, <1>3, <1>4, KindMeans

(* A command writes what it made of what it read.                           *)
LEMMA ChangesStart == Config!Init => Config!DraftsAreChanges
BY DEF Config!Init, Config!DraftsAreChanges

(* Every draft is what its command makes of what it read.                   *)
LEMMA ChangesStep ==
    ASSUME Config!ConfigKept, Config!DraftsAreChanges, Config!Next
    PROVE  Config!DraftsAreChanges'
<1> DEFINE OfChange(x) ==
             /\ x.command \in Config!Kinds /\ Config!Sensible(x.command)
             /\ x.command.is # "init" =>
                   /\ Config!Readable(x.read)
                   /\ x.writes = Config!Document(Config!Changed(Config!Read(x.read), x.command))
<1>1. \A q \in Commands : r3[q] = "write" => OfChange(r4[q])
  BY DEF Config!DraftsAreChanges
<1>2. DOMAIN r3 = Commands /\ DOMAIN r4 = Commands
  BY DEF Config!ConfigKept, Config!TypeOK
<1>3. \A q \in Commands : r3'[q] = "write" => OfChange(r4'[q])
  <2>1. CASE UNCHANGED <<r3, r4>>
    BY <1>1, <2>1
  <2>2. ASSUME NEW p \in Commands, Config!Write(p)
        PROVE  \A q \in Commands : r3'[q] = "write" => OfChange(r4'[q])
    <3>1. r3' = [r3 EXCEPT ![p] = "idle"] /\ r4' = [r4 EXCEPT ![p] = Config!None]
      BY <2>2 DEF Config!Write
    <3> HIDE DEF OfChange
    <3> QED  BY <1>1, <1>2, <3>1
  <2>3. ASSUME NEW p \in Commands, NEW k \in Config!Kinds, Config!RunCommand(p, k), Config!Accepted(k)
        PROVE  \A q \in Commands : r3'[q] = "write" => OfChange(r4'[q])
    <3> DEFINE x == [command |-> k, read |-> r1, writes |->
                       Config!Document(Config!Changed(IF k.is = "init" THEN Config!Empty ELSE Config!Read(r1), k))]
    <3>1. r3' = [r3 EXCEPT ![p] = "write"] /\ r4' = [r4 EXCEPT ![p] = x]
      BY <2>3 DEF Config!RunCommand
    <3>2. Config!Sensible(k) /\ (k.is # "init" => Config!Readable(r1))
      BY <2>3 DEF Config!Accepted, Config!Sensible
    <3>3. OfChange(x)
      BY <3>2
    <3> HIDE DEF OfChange, x
    <3> QED  BY <1>1, <1>2, <3>1, <3>3
  <2>4. \/ UNCHANGED <<r3, r4>>
        \/ \E p \in Commands : Config!Write(p)
        \/ \E p \in Commands, k \in Config!Kinds : Config!RunCommand(p, k) /\ Config!Accepted(k)
    BY DEF Config!Next, Config!RunCommand, Config!Edit, Config!ReaderLoad, Config!ReaderPoll
  <2> HIDE DEF OfChange
  <2> QED  BY <2>1, <2>2, <2>3, <2>4
<1> QED  BY <1>3 DEF Config!DraftsAreChanges, Config!Sensible, Config!InitAllowed, Config!Readable

(* What a step of a command never does: change what it does not name.       *)
LEMMA ChangesMean ==
    ASSUME Config!ConfigKept, Config!DraftsAreChanges, Config!Next
    PROVE  Config!OthersKept
<1> SUFFICES ASSUME NEW p \in Commands, r3[p] = "write", r1' # r1, r3'[p] = "idle",
                    r4[p].command.is # "init"
             PROVE  Alike(Config!Read(r4[p].read), r1'.config, Config!Named(r4[p].command))
  BY DEF Config!OthersKept, Alike
<1>1. DOMAIN r3 = Commands /\ r4[p] \in Config!Drafts
  BY DEF Config!ConfigKept, Config!TypeOK
<1>2. Config!Write(p)
  <2>1. ASSUME NEW q \in Commands, Config!Write(q)  PROVE q = p
    BY <1>1, <2>1 DEF Config!Write
  <2>2. r1' # r1 => Config!Edit \/ \E q \in Commands : Config!Write(q)
    BY DEF Config!Next, Config!RunCommand, Config!ReaderLoad, Config!ReaderPoll
  <2>3. ~Config!Edit
    BY DEF Config!Edit
  <2> QED  BY <2>1, <2>2, <2>3
<1>3. r1' = r4[p].writes
  BY <1>2 DEF Config!Write
<1> DEFINE c == Config!Read(r4[p].read)
<1>4. /\ r4[p].command \in Config!Kinds /\ Config!Sensible(r4[p].command)
      /\ Config!Readable(r4[p].read)
      /\ r4[p].writes = Config!Document(Config!Changed(c, r4[p].command))
  BY DEF Config!DraftsAreChanges
<1>5. c \in Config!Configs
  <2>1. r4[p].read \in Config!Files
    BY <1>1 DEF Config!Drafts
  <2> QED  BY <2>1, <1>4, ReadMeans
<1>6. r1'.config = Config!Changed(c, r4[p].command)
  BY <1>3, <1>4 DEF Config!Document
<1> QED  BY <1>4, <1>5, <1>6, ChangedAlike
================================================================================
