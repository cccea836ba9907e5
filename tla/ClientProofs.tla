---------------------------- MODULE ClientProofs ----------------------------
(* Theorems about Client, for any Clients, goroutines, options and hosts.   *)
EXTENDS Client, SequenceTheorems, TLAPS

\* What NewClient finds in an *http.Client: no Transport, or the caller's.
Plain == {<<>>} \union {<<[kind |-> "net", of |-> t]>> : t \in RoundTripper}

\* What is known of a chain that was composed for the configuration k.
Shape(ch, k) ==
    /\ ch \in Chain
    /\ Len(ch) \in 1..5
    /\ ch[Len(ch)].kind = "net"
    /\ k.hook # None => ch[1].kind = "hook"
    /\ \A i \in 1..Len(ch) :
          /\ ch[i].kind = "hook"  => i = 1 /\ k.hook # None /\ ch[i].of = k.hook
          /\ ch[i].kind = "cache" => k.cache # None /\ ch[i].of = k.cache

Joined(s, s1, s2) ==
    /\ s \in Seq(Layer) /\ Len(s) = Len(s1) + Len(s2)
    /\ \A i \in 1..Len(s) : s[i] = IF i <= Len(s1) THEN s1[i] ELSE s2[i - Len(s1)]

LEMMA Joining ==
    ASSUME NEW s1 \in Seq(Layer), NEW s2 \in Seq(Layer)
    PROVE  Joined(s1 \o s2, s1, s2)
<1> DEFINE s == s1 \o s2
<1>1. /\ s \in Seq(Layer) /\ Len(s) = Len(s1) + Len(s2)
      /\ \A i \in 1..Len(s1) + Len(s2) : s[i] = IF i <= Len(s1) THEN s1[i] ELSE s2[i - Len(s1)]
  BY ConcatProperties
<1> HIDE DEF s
<1>2. Joined(s, s1, s2)
  BY <1>1 DEF Joined
<1> QED  BY <1>2 DEF s

LEMMA LayersAre ==
    ASSUME NEW kind, NEW x, x # None => [kind |-> kind, of |-> x] \in Layer
    PROVE  /\ Layers(kind, x) \in Seq(Layer)
           /\ Len(Layers(kind, x)) = IF x = None THEN 0 ELSE 1
           /\ x # None => Layers(kind, x)[1] = [kind |-> kind, of |-> x]
<1>1. CASE x = None
  BY <1>1 DEF Layers
<1>2. CASE x # None
  BY <1>2 DEF Layers
<1> QED  BY <1>1, <1>2

\* At most five layers: those of the hook and of the cache, if any, and three more.
LEMMA ShapeOfBuilt ==
    ASSUME NEW k \in Config, NEW tr \in Plain
    PROVE  Shape(buildTransport(k, tr), k)
<1> DEFINE h == Layers("hook", k.hook)
           c == Layers("cache", k.cache)
           m == <<[kind |-> "logging", of |-> None], [kind |-> "header", of |-> None]>>
           u == Underlying(tr)
           ch == buildTransport(k, tr)
<1>1. /\ u \in Seq(Layer) /\ Len(u) = 1 /\ u[1].kind = "net"
  BY DEF Plain, Underlying, Layer
<1>2. /\ m \in Seq(Layer) /\ Len(m) = 2
      /\ m[1].kind = "logging" /\ m[2].kind = "header"
  BY DEF Layer
<1>3. /\ h \in Seq(Layer) /\ Len(h) = IF k.hook = None THEN 0 ELSE 1
      /\ k.hook # None => h[1].kind = "hook" /\ h[1].of = k.hook
  <2>1. k.hook # None => [kind |-> "hook", of |-> k.hook] \in Layer
    BY DEF Layer, Config
  <2>2. /\ h \in Seq(Layer) /\ Len(h) = IF k.hook = None THEN 0 ELSE 1
        /\ k.hook # None => h[1] = [kind |-> "hook", of |-> k.hook]
    BY <2>1, LayersAre
  <2> QED  BY <2>2
<1>4. /\ c \in Seq(Layer) /\ Len(c) = IF k.cache = None THEN 0 ELSE 1
      /\ k.cache # None => c[1].kind = "cache" /\ c[1].of = k.cache
  <2>1. k.cache # None => [kind |-> "cache", of |-> k.cache] \in Layer
    BY DEF Layer, Config
  <2>2. /\ c \in Seq(Layer) /\ Len(c) = IF k.cache = None THEN 0 ELSE 1
        /\ k.cache # None => c[1] = [kind |-> "cache", of |-> k.cache]
    BY <2>1, LayersAre
  <2> QED  BY <2>2
<1>5. ch = ((h \o c) \o m) \o u
  BY DEF buildTransport
<1> HIDE DEF h, c, m, u, ch
<1> DEFINE hc == h \o c
           hcm == hc \o m
<1>6. Joined(hc, h, c)
  BY <1>3, <1>4, Joining
<1>7. Joined(hcm, hc, m)
  <2>1. hc \in Seq(Layer)
    BY <1>6 DEF Joined
  <2> HIDE DEF hc
  <2> QED  BY <1>2, <2>1, Joining
<1>8. Joined(ch, hcm, u)
  <2>1. ch = hcm \o u
    BY <1>5
  <2>2. hcm \in Seq(Layer)
    BY <1>7 DEF Joined
  <2> HIDE DEF hcm
  <2> QED  BY <1>1, <2>1, <2>2, Joining
<1> HIDE DEF hc, hcm
<1>9. /\ ch \in Seq(Layer)
      /\ Len(ch) \in 1..5 /\ Len(ch) = Len(h) + Len(c) + 3
      /\ ch[Len(ch)].kind = "net"
      /\ Len(h) = 1 => ch[1] = h[1]
  <2>1. Len(ch) = Len(h) + Len(c) + 3 /\ ch \in Seq(Layer)
    BY <1>1, <1>2, <1>6, <1>7, <1>8 DEF Joined
  <2>2. Len(h) \in 0..1 /\ Len(c) \in 0..1
    BY <1>3, <1>4
  <2>3. ch[Len(ch)] = u[1]
    BY <2>1, <2>2, <1>1, <1>2, <1>6, <1>7, <1>8 DEF Joined
  <2>4. Len(h) = 1 => ch[1] = h[1]
    BY <2>1, <2>2, <1>1, <1>2, <1>6, <1>7, <1>8 DEF Joined
  <2>5. Len(ch) \in 1..5
    <3>1. \A p, q \in 0..1 : p + q + 3 \in 1..5
      OBVIOUS
    <3> QED  BY <2>1, <2>2, <3>1
  <2>6. u[1].kind = "net"
    BY <1>1
  <2> QED  BY <2>1, <2>3, <2>4, <2>5, <2>6
<1>10. ASSUME NEW i \in 1..Len(ch)
       PROVE  /\ ch[i].kind = "hook"  => i = 1 /\ k.hook # None /\ ch[i].of = k.hook
              /\ ch[i].kind = "cache" => k.cache # None /\ ch[i].of = k.cache
  <2>1. CASE i <= Len(h)
    <3>1. ch[i] = h[1] /\ i = 1 /\ k.hook # None
      BY <1>2, <1>3, <1>4, <1>6, <1>7, <1>8, <2>1 DEF Joined
    <3> QED  BY <1>3, <3>1
  <2>2. CASE i > Len(h) /\ i <= Len(h) + Len(c)
    <3>1. ch[i] = c[1] /\ k.cache # None
      BY <1>2, <1>3, <1>4, <1>6, <1>7, <1>8, <2>2 DEF Joined
    <3> QED  BY <1>4, <3>1
  <2>3. CASE i > Len(h) + Len(c)
    <3>1. ch[i] = m[1] \/ ch[i] = m[2] \/ ch[i] = u[1]
      BY <1>1, <1>2, <1>3, <1>4, <1>6, <1>7, <1>8, <2>3 DEF Joined
    <3> QED  BY <1>1, <1>2, <3>1
  <2> QED  BY <1>3, <1>4, <2>1, <2>2, <2>3
<1>11. Shape(ch, k)
  BY <1>3, <1>9, <1>10 DEF Shape, Chain
<1> QED  BY <1>11 DEF ch

LEMMA AmongFive ==
    ASSUME NEW T \in SUBSET (1..5), T # {}
    PROVE  /\ \E n \in T : \A m \in T : n <= m
           /\ \E n \in T : \A m \in T : m <= n
<1>1. 1 \in T \/ 2 \in T \/ 3 \in T \/ 4 \in T \/ 5 \in T
  <2>1. PICK n \in T : n \in 1..5
    OBVIOUS
  <2> QED  BY <2>1
<1>2. \E n \in T : \A m \in T : n <= m
  BY <1>1
<1>3. \E n \in T : \A m \in T : m <= n
  BY <1>1
<1> QED  BY <1>2, <1>3

\* The next layer inward exists, because the last one is the network.
LEMMA NextInward ==
    ASSUME NEW k, NEW ch, Shape(ch, k), NEW i \in 0..(Len(ch) - 1)
    PROVE  /\ Next_In(ch, i) \in (i + 1)..Len(ch)
           /\ ch[Next_In(ch, i)].kind \in {"cache", "net"}
<1> DEFINE T == {n \in (i + 1)..Len(ch) : ch[n].kind \in {"cache", "net"}}
<1>1. Len(ch) \in 1..5 /\ Len(ch) \in T
  BY DEF Shape
<1>2. PICK n \in T : \A m \in T : n <= m
  <2>1. T \in SUBSET (1..5) /\ T # {}
    BY <1>1
  <2> HIDE DEF T
  <2> QED  BY <2>1, AmongFive
<1>3. \A m \in (i + 1)..(n - 1) : m \notin T
  BY <1>1, <1>2
<1>4. /\ n \in (i + 1)..Len(ch) /\ ch[n].kind \in {"cache", "net"}
      /\ \A m \in (i + 1)..(n - 1) : ch[m].kind \notin {"cache", "net"}
  BY <1>1, <1>2, <1>3
<1> HIDE DEF T
<1> QED  BY <1>4 DEF Next_In

\* So does the next one outward, be it the caller: and a hook is not skipped.
LEMMA NextOutward ==
    ASSUME NEW k, NEW ch, Shape(ch, k), NEW i \in 1..Len(ch)
    PROVE  /\ Next_Out(ch, i) \in 0..(i - 1)
           /\ Next_Out(ch, i) > 0 => ch[Next_Out(ch, i)].kind \in {"cache", "hook"}
           /\ k.hook # None /\ i > 1 => Next_Out(ch, i) > 0
<1> DEFINE T == {n \in 1..(i - 1) : ch[n].kind \in {"cache", "hook"}}
           Chosen(n) == /\ n > 0 => ch[n].kind \in {"cache", "hook"}
                        /\ \A m \in (n + 1)..(i - 1) : ch[m].kind \notin {"cache", "hook"}
<1>1. Len(ch) \in 1..5 /\ (k.hook # None => ch[1].kind = "hook")
  BY DEF Shape
<1>2. \E n \in 0..(i - 1) : Chosen(n)
  <2>1. CASE T = {}
    <3>1. Chosen(0)
      BY <2>1
    <3> QED  BY <3>1
  <2>2. CASE T # {}
    <3>1. PICK n \in T : \A m \in T : m <= n
      <4>1. T \in SUBSET (1..5)
        BY <1>1
      <4> HIDE DEF T
      <4> QED  BY <2>2, <4>1, AmongFive
    <3>2. \A m \in (n + 1)..(i - 1) : m \notin T
      BY <1>1, <3>1
    <3>3. Chosen(n)
      BY <1>1, <3>1, <3>2
    <3> QED  BY <3>3
  <2> QED  BY <2>1, <2>2
<1>3. Next_Out(ch, i) \in 0..(i - 1) /\ Chosen(Next_Out(ch, i))
  BY <1>2 DEF Next_Out
<1>4. Next_Out(ch, i) = 0 /\ i > 1 => ch[1].kind # "hook"
  BY <1>3
<1> QED  BY <1>1, <1>3, <1>4

-----------------------------------------------------------------------------
(* The inductive invariant.                                                 *)

Owns(c, x) == Ready(c) /\ cfg[c].cache = x

\* NewClient: what options leave in the configuration, and what becomes of it.
Built ==
    \A c \in ClientId :
        /\ phase[c] = "new" => applied[c] = 0
        /\ phase[c] = "options" => cfg[c].made <= applied[c]
        /\ cfg[c].http \in HTTPClient \union {DefaultHTTP(c)}
        /\ cfg[c].cache \in Private => cfg[c].cache[1] = c
        /\ Ready(c) => http[c] = CopyHTTP(c) /\ Shape(transport[CopyHTTP(c)], cfg[c])

\* No chain is ever put into an *http.Client that a caller or a later NewClient
\* may see.
Untouched ==
    \A o \in HTTPClient \union {DefaultHTTP(c) : c \in ClientId} : transport[o] \in Plain

InTrip(g) ==
    /\ on[g] \in ClientId /\ Ready(on[g]) /\ query[g] \in Query
    /\ Shape(chain[g], cfg[on[g]])
    /\ at[g] \in 0..Len(chain[g])
    /\ pc[g] = "down"  => at[g] > 0 /\ Here(g).kind \in {"cache", "net"} /\ answer[g] = None
    /\ pc[g] = "up" /\ at[g] > 0 => Here(g).kind \in {"cache", "hook"}
    /\ pc[g] = "start" => at[g] > 0 /\ Here(g).kind = "cache"
    /\ fired[g] = IF at[g] = 0 /\ cfg[on[g]].hook # None THEN <<cfg[on[g]].hook>> ELSE <<>>

TripOf(g) ==
    /\ pc[g] \in {"down", "up", "start"} => InTrip(g)
    /\ pc[g] \notin {"down", "up", "start"} => fired[g] = <<>> /\ answer[g] = None
    /\ pc[g] \in {"closeClient", "closeCache", "wait", "closeDone"} =>
          on[g] \in ClientId /\ Ready(on[g])

Trips == \A g \in Proc : TripOf(g)

\* Whose cache is shut down, by whom, and who may rely on it.
Closing ==
    /\ \A c \in ClientId :
          /\ closeOnce[c] # "new" => Ready(c)
          /\ closed[c] => closeOnce[c] = "done"
          /\ closeOnce[c] = "done" /\ cfg[c].cache # None => sweepCtx[cfg[c].cache]
    /\ \A x \in Cache :
          /\ cacheOnce[x] # "new" => sweepCtx[x]
          /\ sweepCtx[x] => \E c \in ClientId : Owns(c, x) /\ closeOnce[c] # "new"
    /\ \A g \in Proc :
          /\ pc[g] \in {"closeCache", "wait"} => TheCache(g) # None
          /\ pc[g] \in {"closeCache", "wait", "closeDone"} => closeOnce[on[g]] # "new"
          /\ pc[g] \in {"wait", "closeDone"} /\ TheCache(g) # None => sweepCtx[TheCache(g)]

\* Where bodies in caches and in calls come from, and sweepers.
Fetched ==
    /\ \A x \in Cache, q \in Cacheable : entries[x][q] # None =>
          \E c \in ClientId : Owns(c, x) /\ cfg[c].base = entries[x][q]
    /\ \A x \in Cache : sweeper[x] = "running" => \E c \in ClientId : Owns(c, x)
    /\ AnswersComeThroughOwnCache

IInv == TypeOK /\ Built /\ Untouched /\ Trips /\ Closing /\ Fetched

-----------------------------------------------------------------------------
(* NewClient.                                                               *)

\* A Client that is ready keeps its configuration: whatever else changes while
\* another one is built, nobody who uses or closes a Client notices.
LEMMA BuildDisturbsNobody ==
    ASSUME Trips, Closing, Fetched,
           \A c \in ClientId : Ready(c) => phase'[c] = "ready" /\ cfg'[c] = cfg[c],
           UNCHANGED <<closeVars, cacheVars, procVars>>
    PROVE  Trips' /\ Closing' /\ Fetched'
<1> USE DEF closeVars, cacheVars, procVars, tripVars, Ready, Owns, TheCache
<1>1. Trips'
  BY DEF Trips, TripOf, InTrip, Here
<1>2. Closing'
  <2>1. ASSUME NEW c \in ClientId
        PROVE  /\ closeOnce'[c] # "new" => phase'[c] = "ready"
               /\ closed'[c] => closeOnce'[c] = "done"
               /\ closeOnce'[c] = "done" /\ cfg'[c].cache # None => sweepCtx'[cfg'[c].cache]
    BY DEF Closing
  <2>2. ASSUME NEW x \in Cache
        PROVE  /\ cacheOnce'[x] # "new" => sweepCtx'[x]
               /\ sweepCtx'[x] => \E c \in ClientId :
                     phase'[c] = "ready" /\ cfg'[c].cache = x /\ closeOnce'[c] # "new"
    BY DEF Closing
  <2>3. ASSUME NEW g \in Proc
        PROVE  /\ pc'[g] \in {"closeCache", "wait"} => cfg'[on'[g]].cache # None
               /\ pc'[g] \in {"closeCache", "wait", "closeDone"} => closeOnce'[on'[g]] # "new"
               /\ pc'[g] \in {"wait", "closeDone"} /\ cfg'[on'[g]].cache # None
                     => sweepCtx'[cfg'[on'[g]].cache]
    BY DEF Closing, Trips, TripOf
  <2> QED  BY <2>1, <2>2, <2>3 DEF Closing
<1>3. Fetched'
  <2>1. AnswersComeThroughOwnCache'
    <3> SUFFICES ASSUME NEW g \in Proc, answer[g] # None
                 PROVE  \E c \in ClientId :
                           /\ phase'[c] = "ready" /\ cfg'[c].base = answer[g]
                           /\ c = on[g] \/ (query[g] \in Cacheable /\ cfg'[c].cache = cfg'[on[g]].cache)
      BY DEF AnswersComeThroughOwnCache
    <3>1. on[g] \in ClientId /\ Ready(on[g])
      BY DEF Trips, TripOf, InTrip
    <3>2. PICK c \in ClientId :
             /\ Ready(c) /\ cfg[c].base = answer[g]
             /\ c = on[g] \/ (query[g] \in Cacheable /\ cfg[c].cache = TheCache(g))
      BY DEF Fetched, AnswersComeThroughOwnCache
    <3> QED  BY <3>1, <3>2
  <2> QED  BY <2>1 DEF Fetched
<1> QED  BY <1>1, <1>2, <1>3

LEMMA OptionStep ==
    ASSUME IInv, NEW c \in ClientId, NEW k \in Config, Option(c, k), UNCHANGED sweeper,
           k.made <= applied[c] + 1, k.http \in HTTPClient \union {DefaultHTTP(c)},
           k.cache \in Private => k.cache[1] = c
    PROVE  IInv'
<1>1. TypeOK'
  BY OptionAssumption DEF IInv, TypeOK, Option, closeVars, procVars, tripVars
<1>2. Built'
  BY DEF IInv, TypeOK, Built, Option, Ready
<1>3. Untouched'
  BY DEF IInv, Untouched, Option
<1>4. Trips' /\ Closing' /\ Fetched'
  <2>1. \A d \in ClientId : Ready(d) => phase'[d] = "ready" /\ cfg'[d] = cfg[d]
    BY DEF IInv, TypeOK, Option, Ready
  <2>2. UNCHANGED <<closeVars, cacheVars, procVars>>
    BY DEF Option, cacheVars
  <2> QED  BY <2>1, <2>2, BuildDisturbsNobody DEF IInv
<1> QED  BY <1>1, <1>2, <1>3, <1>4 DEF IInv

LEMMA NewClientStep ==
    ASSUME IInv, NEW c \in ClientId, NewClient(c)
    PROVE  IInv'
<1>1. defaultConfig(c) \in Config
  BY HostAssumption, OptionAssumption DEF defaultConfig, Config, HTTPObject, DefaultHTTP
<1>2. defaultConfig(c).cache \notin Private
  BY NoneAssumption DEF defaultConfig, Cache
<1>3. TypeOK'
  BY <1>1 DEF IInv, TypeOK, NewClient, closeVars, cacheVars, procVars, tripVars
<1>4. Built'
  BY <1>2 DEF IInv, TypeOK, Built, NewClient, Ready, defaultConfig
<1>5. Untouched'
  BY DEF IInv, Untouched, NewClient
<1>6. Trips' /\ Closing' /\ Fetched'
  <2>1. \A d \in ClientId : Ready(d) => phase'[d] = "ready" /\ cfg'[d] = cfg[d]
    BY DEF IInv, TypeOK, NewClient, Ready
  <2> QED  BY <2>1, BuildDisturbsNobody DEF IInv, NewClient
<1> QED  BY <1>3, <1>4, <1>5, <1>6 DEF IInv

LEMMA CopyIsNobodysElse ==
    ASSUME NEW c \in ClientId
    PROVE  /\ CopyHTTP(c) \in HTTPObject
           /\ CopyHTTP(c) \notin HTTPClient
           /\ \A d \in ClientId : CopyHTTP(c) # DefaultHTTP(d) /\ (d # c => CopyHTTP(c) # CopyHTTP(d))
BY HTTPAssumption DEF CopyHTTP, DefaultHTTP, HTTPObject

LEMMA ComposeStep ==
    ASSUME IInv, NEW c \in ClientId, Compose(c)
    PROVE  IInv'
<1> DEFINE built == buildTransport(cfg[c], transport[cfg[c].http])
<1>1. cfg[c] \in Config /\ Shape(built, cfg[c]) /\ built \in Chain
  <2>1. cfg[c] \in Config /\ transport[cfg[c].http] \in Plain
    BY DEF IInv, TypeOK, Built, Untouched
  <2> QED  BY <2>1, ShapeOfBuilt DEF Shape
<1>2. /\ transport' = [transport EXCEPT ![CopyHTTP(c)] = built]
      /\ http' = [http EXCEPT ![c] = CopyHTTP(c)]
      /\ phase' = [phase EXCEPT ![c] = "ready"] /\ applied' = [applied EXCEPT ![c] = 0]
      /\ UNCHANGED <<cfg, closeVars, cacheVars, procVars>>
  BY DEF Compose, composeHTTPClient
<1> HIDE DEF built
<1>3. TypeOK'
  BY <1>1, <1>2, CopyIsNobodysElse, OptionAssumption
  DEF IInv, TypeOK, closeVars, cacheVars, procVars, tripVars
<1>4. Built'
  <2> SUFFICES ASSUME NEW d \in ClientId
               PROVE  /\ phase'[d] = "new" => applied'[d] = 0
                      /\ phase'[d] = "options" => cfg'[d].made <= applied'[d]
                      /\ cfg'[d].http \in HTTPClient \union {DefaultHTTP(d)}
                      /\ cfg'[d].cache \in Private => cfg'[d].cache[1] = d
                      /\ phase'[d] = "ready" => /\ http'[d] = CopyHTTP(d)
                                                /\ Shape(transport'[CopyHTTP(d)], cfg'[d])
    BY DEF Built, Ready
  <2>1. CopyHTTP(c) \in DOMAIN transport /\ (d # c => CopyHTTP(d) # CopyHTTP(c))
    BY CopyIsNobodysElse DEF IInv, TypeOK
  <2>2. CASE d = c
    BY <1>1, <1>2, <2>1, <2>2 DEF IInv, TypeOK, Built
  <2>3. CASE d # c
    <3>1. transport'[CopyHTTP(d)] = transport[CopyHTTP(d)]
      BY <1>2, <2>1, <2>3, CopyIsNobodysElse DEF IInv, TypeOK
    <3> QED  BY <1>2, <2>3, <3>1 DEF IInv, TypeOK, Built, Ready
  <2> QED  BY <2>2, <2>3
<1>5. Untouched'
  BY <1>2, CopyIsNobodysElse DEF IInv, TypeOK, Untouched, HTTPObject, DefaultHTTP
<1>6. Trips' /\ Closing' /\ Fetched'
  <2>1. \A d \in ClientId : Ready(d) => phase'[d] = "ready" /\ cfg'[d] = cfg[d]
    BY <1>2 DEF IInv, TypeOK, Ready
  <2> QED  BY <1>2, <2>1, BuildDisturbsNobody DEF IInv
<1> QED  BY <1>3, <1>4, <1>5, <1>6 DEF IInv

LEMMA SetTransportStep ==
    ASSUME IInv, NEW h \in HTTPClient, NEW tr \in RoundTripper \union {None}, SetTransport(h, tr)
    PROVE  IInv'
<1> DEFINE new == IF tr = None THEN <<>> ELSE <<[kind |-> "net", of |-> tr]>>
<1>1. new \in Plain /\ new \in Chain
  <2>1. CASE tr = None
    BY <2>1 DEF Plain, Chain
  <2>2. CASE tr # None
    <3>1. tr \in RoundTripper /\ new = <<[kind |-> "net", of |-> tr]>>
      BY <2>2
    <3>2. [kind |-> "net", of |-> tr] \in Layer
      BY <3>1 DEF Layer
    <3>3. new \in Plain
      BY <3>1 DEF Plain
    <3> HIDE DEF new
    <3> QED  BY <3>1, <3>2, <3>3 DEF Chain
  <2> QED  BY <2>1, <2>2
<1>2. /\ transport' = [transport EXCEPT ![h] = new]
      /\ UNCHANGED <<phase, applied, cfg, http, closeVars, cacheVars, procVars>>
  BY DEF SetTransport
<1> HIDE DEF new
<1>3. TypeOK'
  BY <1>1, <1>2 DEF IInv, TypeOK, HTTPObject, closeVars, cacheVars, procVars, tripVars
<1>4. Built'
  <2>1. \A d \in ClientId : transport'[CopyHTTP(d)] = transport[CopyHTTP(d)]
    BY <1>2, CopyIsNobodysElse DEF IInv, TypeOK
  <2> QED  BY <1>2, <2>1 DEF IInv, Built, Ready
<1>5. Untouched'
  BY <1>1, <1>2 DEF IInv, TypeOK, Untouched, HTTPObject, DefaultHTTP
<1>6. Trips' /\ Closing' /\ Fetched'
  <2>1. \A d \in ClientId : Ready(d) => phase'[d] = "ready" /\ cfg'[d] = cfg[d]
    BY <1>2 DEF Ready
  <2> QED  BY <1>2, <2>1, BuildDisturbsNobody DEF IInv
<1> QED  BY <1>3, <1>4, <1>5, <1>6 DEF IInv

LEMMA BuildStep ==
    ASSUME IInv, NEW c \in ClientId, Build(c)
    PROVE  IInv'
<1>1. cfg[c] \in Config /\ applied[c] \in 0..MaxOptions /\ cfg[c].made \in 0..MaxOptions
  <2>1. cfg[c] \in Config /\ applied[c] \in 0..MaxOptions
    BY DEF IInv, TypeOK
  <2> QED  BY <2>1 DEF Config
<1>2. /\ cfg[c].http \in HTTPClient \union {DefaultHTTP(c)}
      /\ cfg[c].cache \in Private => cfg[c].cache[1] = c
      /\ phase[c] = "options" => cfg[c].made <= applied[c]
  BY DEF IInv, Built
<1>3. CASE NewClient(c)
  BY <1>3, NewClientStep
<1>4. CASE WithNothing(c)
  <2>1. UNCHANGED vars
    BY <1>4 DEF WithNothing
  <2> QED  BY <2>1 DEF IInv, TypeOK, Built, Untouched, Trips, TripOf, InTrip, Closing, Fetched, vars,
             tripVars, Ready, Owns, Here, TheCache, AnswersComeThroughOwnCache
<1>5. CASE WithCache(c)
  <2> DEFINE k == [cfg[c] EXCEPT !.cache = <<c, cfg[c].made + 1>>, !.made = @ + 1]
  <2>1. Option(c, k) /\ UNCHANGED sweeper
    BY <1>5 DEF WithCache
  <2>2. applied[c] < MaxOptions /\ cfg[c].made <= applied[c]
    BY <1>2, <2>1 DEF Option
  <2>3. cfg[c].made + 1 \in 1..MaxOptions
    BY <1>1, <2>2, OptionAssumption
  <2>4. k \in Config
    <3>1. <<c, cfg[c].made + 1>> \in Cache /\ cfg[c].made + 1 \in 0..MaxOptions
      BY <2>3, OptionAssumption DEF Cache, Private
    <3> QED  BY <1>1, <3>1 DEF Config
  <2>5. k.made = cfg[c].made + 1 /\ k.http = cfg[c].http /\ k.cache = <<c, cfg[c].made + 1>>
    BY <1>1 DEF Config
  <2>6. k.made <= applied[c] + 1 /\ k.cache[1] = c
    BY <1>1, <2>2, <2>5
  <2> HIDE DEF k
  <2> QED  BY <1>2, <2>1, <2>4, <2>5, <2>6, OptionStep
<1>6. CASE Compose(c)
  BY <1>6, ComposeStep
<1>7. ASSUME NEW h \in HTTPClient, WithHTTPClient(c, h) PROVE IInv'
  <2> DEFINE k == [cfg[c] EXCEPT !.http = h]
  <2>1. Option(c, k) /\ UNCHANGED sweeper
    BY <1>7 DEF WithHTTPClient
  <2>2. k \in Config /\ k.http = h /\ k.cache = cfg[c].cache /\ k.made = cfg[c].made
    BY <1>1 DEF Config, HTTPObject
  <2>3. k.made <= applied[c] + 1
    BY <1>1, <1>2, <2>1, <2>2 DEF Option
  <2> HIDE DEF k
  <2> QED  BY <1>2, <2>1, <2>2, <2>3, OptionStep
<1>8. ASSUME NEW u \in Host, WithBaseURL(c, u) PROVE IInv'
  <2> DEFINE k == [cfg[c] EXCEPT !.base = u]
  <2>1. Option(c, k) /\ UNCHANGED sweeper
    BY <1>8 DEF WithBaseURL
  <2>2. k \in Config /\ k.http = cfg[c].http /\ k.cache = cfg[c].cache /\ k.made = cfg[c].made
    BY <1>1 DEF Config
  <2>3. k.made <= applied[c] + 1
    BY <1>1, <1>2, <2>1, <2>2 DEF Option
  <2> HIDE DEF k
  <2> QED  BY <1>2, <2>1, <2>2, <2>3, OptionStep
<1>9. ASSUME NEW f \in Hook, WithRequestHook(c, f) PROVE IInv'
  <2> DEFINE k == [cfg[c] EXCEPT !.hook = f]
  <2>1. Option(c, k) /\ UNCHANGED sweeper
    BY <1>9 DEF WithRequestHook
  <2>2. k \in Config /\ k.http = cfg[c].http /\ k.cache = cfg[c].cache /\ k.made = cfg[c].made
    BY <1>1 DEF Config
  <2>3. k.made <= applied[c] + 1
    BY <1>1, <1>2, <2>1, <2>2 DEF Option
  <2> HIDE DEF k
  <2> QED  BY <1>2, <2>1, <2>2, <2>3, OptionStep
<1>10. ASSUME NEW b \in Backend, WithCacheBackend(c, b) PROVE IInv'
  <2> DEFINE k == [cfg[c] EXCEPT !.cache = b]
  <2>1. Option(c, k) /\ UNCHANGED sweeper
    BY <1>10 DEF WithCacheBackend
  <2>2. k \in Config /\ k.http = cfg[c].http /\ k.cache = b /\ k.made = cfg[c].made
    BY <1>1 DEF Config, Cache
  <2>3. k.made <= applied[c] + 1 /\ k.cache \notin Private
    BY <1>1, <1>2, <2>1, <2>2, BackendAssumption DEF Option
  <2> HIDE DEF k
  <2> QED  BY <1>2, <2>1, <2>2, <2>3, OptionStep
<1> QED  BY <1>3, <1>4, <1>5, <1>6, <1>7, <1>8, <1>9, <1>10 DEF Build

-----------------------------------------------------------------------------
(* What a step leaves alone.                                                *)

LEMMA BuiltStays ==
    ASSUME Built, Untouched, UNCHANGED buildVars
    PROVE  Built' /\ Untouched'
BY DEF Built, Untouched, buildVars, Ready

LEMMA TripsStay ==
    ASSUME Trips, UNCHANGED buildVars, NEW g, TripOf(g)',
           \A p \in Proc \ {g} : UNCHANGED <<pc[p], on[p], query[p], chain[p], at[p], answer[p], fired[p]>>
    PROVE  Trips'
<1> SUFFICES ASSUME NEW p \in Proc \ {g} PROVE TripOf(p)'
  BY DEF Trips
<1>1. UNCHANGED <<pc[p], on[p], query[p], chain[p], at[p], answer[p], fired[p], phase, cfg>>
  BY DEF buildVars
<1>2. TripOf(p)
  BY DEF Trips
<1> QED  BY <1>1, <1>2 DEF TripOf, InTrip, Here, Ready

LEMMA ClosingStays ==
    ASSUME Closing, UNCHANGED <<buildVars, closeVars, sweepCtx, cacheOnce>>,
           \A p \in Proc : pc'[p] \in {"closeCache", "wait", "closeDone"} => UNCHANGED <<pc[p], on[p]>>
    PROVE  Closing'
<1> USE DEF buildVars, closeVars, Ready, Owns, TheCache
<1>1. \A p \in Proc :
         /\ pc'[p] \in {"closeCache", "wait"} => cfg'[on'[p]].cache # None
         /\ pc'[p] \in {"closeCache", "wait", "closeDone"} => closeOnce'[on'[p]] # "new"
         /\ pc'[p] \in {"wait", "closeDone"} /\ cfg'[on'[p]].cache # None => sweepCtx'[cfg'[on'[p]].cache]
  BY DEF Closing
<1> QED  BY <1>1 DEF Closing

LEMMA AnswersStay ==
    ASSUME AnswersComeThroughOwnCache, UNCHANGED buildVars,
           \A p \in Proc : answer'[p] # None => UNCHANGED <<on[p], query[p], answer[p]>>
    PROVE  AnswersComeThroughOwnCache'
BY DEF AnswersComeThroughOwnCache, buildVars, Ready, TheCache

LEMMA FetchedStays ==
    ASSUME Fetched, UNCHANGED <<buildVars, entries, sweeper>>,
           \A p \in Proc : answer'[p] # None => UNCHANGED <<on[p], query[p], answer[p]>>
    PROVE  Fetched'
<1>1. AnswersComeThroughOwnCache'
  BY AnswersStay DEF Fetched
<1> QED  BY <1>1 DEF Fetched, buildVars, Ready, Owns

-----------------------------------------------------------------------------
(* Round trips.                                                             *)

\* Where a request or a response is, and whose cache that layer is.
LEMMA AtLayer ==
    ASSUME IInv, NEW g \in Proc, pc[g] \in {"down", "up", "start"}
    PROVE  /\ on[g] \in ClientId /\ Ready(on[g]) /\ query[g] \in Query
           /\ Shape(chain[g], cfg[on[g]])
           /\ Len(chain[g]) \in 1..5 /\ at[g] \in 0..Len(chain[g])
           /\ cfg[on[g]] \in Config
           /\ at[g] > 0 /\ Here(g).kind = "cache" =>
                 /\ Here(g).of = TheCache(g) /\ Here(g).of \in Cache /\ TheCache(g) # None
                 /\ at[g] < Len(chain[g])
           /\ at[g] > 0 /\ Here(g).kind = "hook" =>
                 at[g] = 1 /\ cfg[on[g]].hook # None /\ Here(g).of = cfg[on[g]].hook
           /\ Consulted(g) => at[g] > 0
           /\ pc[g] = "down" => at[g] > 0 /\ answer[g] = None
           /\ at[g] > 0 => fired[g] = <<>>
<1>1. /\ on[g] \in ClientId /\ Ready(on[g]) /\ query[g] \in Query
      /\ Shape(chain[g], cfg[on[g]]) /\ at[g] \in 0..Len(chain[g])
  BY DEF IInv, Trips, TripOf, InTrip
<1>2. cfg[on[g]] \in Config
  BY <1>1 DEF IInv, TypeOK
<1>3. cfg[on[g]].cache \in Cache \union {None}
  BY <1>2 DEF Config
<1>4. chain[g] \in Chain /\ Len(chain[g]) \in 1..5
  BY <1>1 DEF Shape
<1>5. DOMAIN chain[g] = 1..Len(chain[g])
  BY <1>4 DEF Chain
<1>6. at[g] > 0 => at[g] \in 1..Len(chain[g])
  BY <1>1, <1>4
<1>7. at[g] > 0 /\ Here(g).kind = "cache" => at[g] # Len(chain[g])
  BY <1>1 DEF Shape, Here
<1>8. Consulted(g) => at[g] > 0
  BY <1>4, <1>5 DEF Consulted
<1>9. /\ at[g] > 0 /\ Here(g).kind = "cache" =>
            /\ Here(g).of = TheCache(g) /\ Here(g).of \in Cache /\ TheCache(g) # None
            /\ at[g] < Len(chain[g])
      /\ at[g] > 0 /\ Here(g).kind = "hook" =>
            at[g] = 1 /\ cfg[on[g]].hook # None /\ Here(g).of = cfg[on[g]].hook
  BY <1>1, <1>2, <1>3, <1>4, <1>5, <1>6, <1>7 DEF Shape, Here, TheCache
<1>10. InTrip(g)
  BY DEF IInv, Trips, TripOf
<1>11. at[g] > 0 => at[g] # 0
  OBVIOUS
<1>12. /\ pc[g] = "down" => at[g] > 0 /\ answer[g] = None
       /\ at[g] > 0 => fired[g] = <<>>
  BY <1>10, <1>11 DEF InTrip
<1> QED  BY <1>1, <1>2, <1>4, <1>8, <1>9, <1>12

\* An action that moves the request on, and nothing but where it is.
LEMMA MoveStays ==
    ASSUME IInv, NEW g \in Proc, TypeOK', TripOf(g)',
           UNCHANGED <<buildVars, closeVars, cacheVars>>,
           \A p \in Proc \ {g} : UNCHANGED <<pc[p], on[p], query[p], chain[p], at[p], answer[p], fired[p]>>,
           pc'[g] \in {"idle", "down", "up", "start", "closeClient"},
           answer'[g] # None => UNCHANGED <<on[g], query[g], answer[g]>>
    PROVE  IInv'
<1>1. Built' /\ Untouched'
  BY BuiltStays DEF IInv
<1>2. Trips'
  BY TripsStay DEF IInv
<1>3. Closing'
  <2>1. \A p \in Proc : pc'[p] \in {"closeCache", "wait", "closeDone"} => UNCHANGED <<pc[p], on[p]>>
    OBVIOUS
  <2> QED  BY <2>1, ClosingStays DEF IInv, cacheVars
<1>4. Fetched'
  <2>1. \A p \in Proc : answer'[p] # None => UNCHANGED <<on[p], query[p], answer[p]>>
    OBVIOUS
  <2> QED  BY <2>1, FetchedStays DEF IInv, cacheVars
<1> QED  BY <1>1, <1>2, <1>3, <1>4 DEF IInv

LEMMA CallStep ==
    ASSUME IInv, NEW g \in Proc, Call(g)
    PROVE  IInv'
<1>1. PICK c \in ClientId, q \in Query :
         /\ Ready(c)
         /\ on' = [on EXCEPT ![g] = c] /\ query' = [query EXCEPT ![g] = q]
         /\ chain' = [chain EXCEPT ![g] = Underlying(transport[http[c]])]
         /\ at' = [at EXCEPT ![g] = Next_In(chain'[g], 0)]
  BY DEF Call, Ready
<1>2. /\ pc[g] = "idle" /\ pc' = [pc EXCEPT ![g] = "down"]
      /\ UNCHANGED <<buildVars, closeVars, cacheVars, answer, fired>>
  BY DEF Call, Goto
<1> DEFINE ch == transport[CopyHTTP(c)]
<1>3. Shape(ch, cfg[c]) /\ Underlying(transport[http[c]]) = ch
  <2>1. Shape(ch, cfg[c]) /\ transport[http[c]] = ch
    BY <1>1 DEF IInv, Built
  <2>2. ch # <<>>
    <3> HIDE DEF ch
    <3>1. Len(ch) \in 1..5
      BY <2>1 DEF Shape
    <3> QED  BY <3>1
  <2> QED  BY <2>1, <2>2 DEF Underlying
<1> HIDE DEF ch
<1>4. ch \in Chain /\ Len(ch) \in 1..5
  BY <1>3 DEF Shape
<1>5. Next_In(ch, 0) \in 1..Len(ch) /\ ch[Next_In(ch, 0)].kind \in {"cache", "net"}
  <2>1. 0 \in 0..(Len(ch) - 1)
    BY <1>4
  <2>2. Next_In(ch, 0) \in (0 + 1)..Len(ch) /\ ch[Next_In(ch, 0)].kind \in {"cache", "net"}
    BY <1>3, <2>1, NextInward
  <2> QED  BY <2>2
<1>6. /\ pc'[g] = "down" /\ on'[g] = c /\ query'[g] = q /\ chain'[g] = ch
      /\ at'[g] = Next_In(ch, 0) /\ answer'[g] = answer[g] /\ fired'[g] = fired[g]
  BY <1>1, <1>2, <1>3 DEF IInv, TypeOK
<1>7. TypeOK'
  <2>1. Next_In(ch, 0) \in Nat
    BY <1>4, <1>5
  <2>2. pc' \in [Proc -> Pc] /\ on' \in [Proc -> ClientId \union {None}]
        /\ query' \in [Proc -> Query \union {None}]
    BY <1>1, <1>2 DEF IInv, TypeOK, Pc
  <2>3. chain' \in [Proc -> Chain]
    BY <1>1, <1>3, <1>4 DEF IInv, TypeOK
  <2>4. at' \in [Proc -> Nat]
    BY <1>1, <1>6, <2>1 DEF IInv, TypeOK
  <2> QED  BY <1>2, <2>2, <2>3, <2>4 DEF IInv, TypeOK, buildVars, closeVars, cacheVars
<1>8. TripOf(g)'
  <2>1. fired[g] = <<>> /\ answer[g] = None
    BY <1>2 DEF IInv, Trips, TripOf
  <2>2. phase' = phase /\ cfg' = cfg
    BY <1>2 DEF buildVars
  <2>3. InTrip(g)'
    BY <1>1, <1>3, <1>4, <1>5, <1>6, <2>1, <2>2 DEF InTrip, Here, Ready
  <2> QED  BY <1>6, <2>3 DEF TripOf
<1>9. answer'[g] = None
  BY <1>2, <1>6 DEF IInv, Trips, TripOf
<1>10. \A p \in Proc \ {g} : UNCHANGED <<pc[p], on[p], query[p], chain[p], at[p], answer[p], fired[p]>>
  BY <1>1, <1>2 DEF IInv, TypeOK
<1> QED  BY <1>2, <1>6, <1>7, <1>8, <1>9, <1>10, MoveStays

\* A response that goes outward: a hook fires as it passes, and is not missed.
LEMMA OutwardTrip ==
    ASSUME IInv, NEW g \in Proc, pc[g] \in {"down", "up", "start"}, at[g] > 0,
           Outer(g), pc'[g] = "up",
           UNCHANGED <<buildVars, on, query, chain>>,
           fired'[g] = IF Here(g).kind = "hook" THEN Append(fired[g], Here(g).of) ELSE fired[g]
    PROVE  TripOf(g)' /\ at' \in [Proc -> Nat]
<1> DEFINE n == Next_Out(chain[g], at[g])
           k == cfg[on[g]]
<1>1. /\ on[g] \in ClientId /\ Ready(on[g]) /\ query[g] \in Query /\ Shape(chain[g], k)
      /\ Len(chain[g]) \in 1..5 /\ at[g] \in 1..Len(chain[g])
  BY AtLayer
<1>2. /\ n \in 0..(at[g] - 1) /\ (n > 0 => chain[g][n].kind \in {"cache", "hook"})
      /\ k.hook # None /\ at[g] > 1 => n > 0
  BY <1>1, NextOutward
<1>3. at'[g] = n /\ at' = [at EXCEPT ![g] = n] /\ at \in [Proc -> Nat]
  BY DEF Outer, IInv, TypeOK
<1>4. n \in Nat /\ n \in 0..Len(chain[g])
  BY <1>1, <1>2
<1> HIDE DEF n
<1>5. at' \in [Proc -> Nat]
  BY <1>3, <1>4
<1>6. fired[g] = <<>>
  BY AtLayer
<1>7. fired'[g] = IF n = 0 /\ k.hook # None THEN <<k.hook>> ELSE <<>>
  <2>1. CASE Here(g).kind = "hook"
    <3>1. at[g] = 1 /\ k.hook # None /\ Here(g).of = k.hook
      BY <2>1, AtLayer
    <3>2. n = 0
      BY <1>2, <3>1
    <3> QED  BY <1>6, <2>1, <3>1, <3>2
  <2>2. CASE Here(g).kind # "hook"
    <3>1. k.hook # None => at[g] # 1
      BY <1>1, <2>2 DEF Shape, Here
    <3>2. k.hook # None => n > 0
      BY <1>1, <1>2, <3>1
    <3> QED  BY <1>6, <2>2, <3>2
  <2> QED  BY <2>1, <2>2
<1>8. phase' = phase /\ cfg' = cfg
  BY DEF buildVars
<1>9. InTrip(g)'
  BY <1>1, <1>2, <1>3, <1>4, <1>7, <1>8 DEF InTrip, Here, Ready
<1> QED  BY <1>5, <1>9 DEF TripOf

LEMMA DownStep ==
    ASSUME IInv, NEW g \in Proc, Down(g)
    PROVE  IInv'
<1>1. /\ pc[g] = "down" /\ Here(g).kind = "cache"
      /\ at' = [at EXCEPT ![g] = Next_In(chain[g], at[g])]
      /\ UNCHANGED <<buildVars, closeVars, cacheVars, pc, on, query, chain, answer, fired>>
  BY DEF Down, Inner, IInv, TypeOK
<1>2. at[g] > 0 /\ answer[g] = None /\ fired[g] = <<>>
  BY <1>1, AtLayer
<1>3. /\ on[g] \in ClientId /\ Ready(on[g]) /\ query[g] \in Query
      /\ Shape(chain[g], cfg[on[g]])
      /\ Len(chain[g]) \in 1..5 /\ at[g] \in 1..(Len(chain[g]) - 1)
  BY <1>1, <1>2, AtLayer
<1> DEFINE n == Next_In(chain[g], at[g])
<1>4. n \in (at[g] + 1)..Len(chain[g]) /\ chain[g][n].kind \in {"cache", "net"}
  <2>1. at[g] \in 0..(Len(chain[g]) - 1)
    BY <1>3
  <2> QED  BY <1>3, <2>1, NextInward
<1>5. n \in Nat /\ n > 0 /\ n \in 0..Len(chain[g])
  BY <1>3, <1>4
<1> HIDE DEF n
<1>6. at'[g] = n /\ at' = [at EXCEPT ![g] = n]
  BY <1>1 DEF IInv, TypeOK, n
<1>7. TypeOK'
  BY <1>1, <1>5, <1>6 DEF IInv, TypeOK, buildVars, closeVars, cacheVars
<1>8. TripOf(g)'
  <2>1. phase' = phase /\ cfg' = cfg
    BY <1>1 DEF buildVars
  <2>2. InTrip(g)'
    BY <1>1, <1>2, <1>3, <1>4, <1>5, <1>6, <2>1 DEF InTrip, Here, Ready
  <2> QED  BY <1>1, <2>2 DEF TripOf
<1>9. \A p \in Proc \ {g} : UNCHANGED <<pc[p], on[p], query[p], chain[p], at[p], answer[p], fired[p]>>
  BY <1>1 DEF IInv, TypeOK
<1> QED  BY <1>1, <1>7, <1>8, <1>9, MoveStays

LEMMA UpHookStep ==
    ASSUME IInv, NEW g \in Proc, UpHook(g)
    PROVE  IInv'
<1>1. /\ pc[g] = "up" /\ at[g] > 0 /\ Here(g).kind = "hook"
      /\ fired' = [fired EXCEPT ![g] = Append(fired[g], Here(g).of)]
      /\ Outer(g)
      /\ UNCHANGED <<buildVars, closeVars, cacheVars, pc, on, query, chain, answer>>
  BY DEF UpHook, IInv, TypeOK
<1>2. fired'[g] = Append(fired[g], Here(g).of)
  BY <1>1 DEF IInv, TypeOK
<1>3. TripOf(g)' /\ at' \in [Proc -> Nat]
  BY <1>1, <1>2, OutwardTrip
<1>4. fired' \in [Proc -> Seq(Hook)]
  <2>1. /\ cfg[on[g]] \in Config /\ Here(g).of = cfg[on[g]].hook /\ cfg[on[g]].hook # None
    BY <1>1, AtLayer
  <2>2. Here(g).of \in Hook /\ fired[g] \in Seq(Hook)
    BY <2>1 DEF Config, IInv, TypeOK
  <2>3. Append(fired[g], Here(g).of) \in Seq(Hook)
    BY <2>2
  <2> QED  BY <1>1, <2>3 DEF IInv, TypeOK
<1>5. TypeOK'
  BY <1>1, <1>3, <1>4 DEF IInv, TypeOK, buildVars, closeVars, cacheVars
<1>6. \A p \in Proc \ {g} : UNCHANGED <<pc[p], on[p], query[p], chain[p], at[p], answer[p], fired[p]>>
  BY <1>1 DEF Outer, IInv, TypeOK
<1> QED  BY <1>1, <1>3, <1>5, <1>6, MoveStays

LEMMA UpPassStep ==
    ASSUME IInv, NEW g \in Proc, UpPass(g)
    PROVE  IInv'
<1>1. /\ pc[g] = "up" /\ at[g] > 0 /\ Here(g).kind = "cache"
      /\ Outer(g)
      /\ UNCHANGED <<buildVars, closeVars, cacheVars, pc, on, query, chain, answer, fired>>
  BY DEF UpPass
<1>2. TripOf(g)' /\ at' \in [Proc -> Nat]
  BY <1>1, OutwardTrip
<1>3. TypeOK'
  BY <1>1, <1>2 DEF IInv, TypeOK, buildVars, closeVars, cacheVars
<1>4. \A p \in Proc \ {g} : UNCHANGED <<pc[p], on[p], query[p], chain[p], at[p], answer[p], fired[p]>>
  BY <1>1 DEF Outer, IInv, TypeOK
<1> QED  BY <1>1, <1>2, <1>3, <1>4, MoveStays

LEMMA CacheHitStep ==
    ASSUME IInv, NEW g \in Proc, CacheHit(g)
    PROVE  IInv'
<1> DEFINE u == entries[Here(g).of][query[g]]
<1>1. /\ pc[g] = "down" /\ pc' = [pc EXCEPT ![g] = "up"]
      /\ Here(g).kind = "cache" /\ query[g] \in Cacheable /\ u # None
      /\ answer' = [answer EXCEPT ![g] = u] /\ Outer(g)
      /\ UNCHANGED <<buildVars, closeVars, cacheVars, on, query, chain, fired>>
  BY DEF CacheHit, Goto, Consulted
<1>2. at[g] > 0 /\ Here(g).of = TheCache(g) /\ Here(g).of \in Cache /\ on[g] \in ClientId
  BY <1>1, AtLayer
<1>3. u \in Host \union {None}
  BY <1>1, <1>2 DEF IInv, TypeOK
<1>4. PICK c \in ClientId : Ready(c) /\ cfg[c].cache = TheCache(g) /\ cfg[c].base = u
  BY <1>1, <1>2 DEF IInv, Fetched, Owns
<1> HIDE DEF u
<1>5. pc'[g] = "up" /\ answer'[g] = u
  BY <1>1 DEF IInv, TypeOK
<1>6. TripOf(g)' /\ at' \in [Proc -> Nat]
  <2>1. fired'[g] = IF Here(g).kind = "hook" THEN Append(fired[g], Here(g).of) ELSE fired[g]
    BY <1>1
  <2> QED  BY <1>1, <1>2, <1>5, <2>1, OutwardTrip
<1>7. \A p \in Proc \ {g} : UNCHANGED <<pc[p], on[p], query[p], chain[p], at[p], answer[p], fired[p]>>
  BY <1>1 DEF Outer, IInv, TypeOK
<1>8. TypeOK'
  <2>1. pc' \in [Proc -> Pc] /\ answer' \in [Proc -> Host \union {None}]
    BY <1>1, <1>3 DEF IInv, TypeOK, Pc
  <2> QED  BY <1>1, <1>6, <2>1 DEF IInv, TypeOK, buildVars, closeVars, cacheVars
<1>9. AnswersComeThroughOwnCache'
  <2> SUFFICES ASSUME NEW p \in Proc, answer'[p] # None
               PROVE  \E d \in ClientId :
                         /\ Ready(d) /\ cfg[d].base = answer'[p]
                         /\ d = on[p] \/ (query[p] \in Cacheable /\ cfg[d].cache = TheCache(p))
    BY <1>1 DEF AnswersComeThroughOwnCache, buildVars, Ready, TheCache
  <2>1. CASE p = g
    BY <1>1, <1>4, <1>5, <2>1
  <2>2. CASE p # g
    BY <1>7, <2>2 DEF IInv, Fetched, AnswersComeThroughOwnCache
  <2> QED  BY <2>1, <2>2
<1>10. Built' /\ Untouched' /\ Trips' /\ Closing'
  <2>1. \A p \in Proc : pc'[p] \in {"closeCache", "wait", "closeDone"} => UNCHANGED <<pc[p], on[p]>>
    BY <1>5, <1>7
  <2> QED  BY <1>1, <1>6, <1>7, <2>1, BuiltStays, TripsStay, ClosingStays DEF IInv, cacheVars
<1>11. Fetched'
  BY <1>1, <1>9 DEF IInv, Fetched, buildVars, cacheVars, Ready, Owns
<1> QED  BY <1>8, <1>10, <1>11 DEF IInv

LEMMA NetworkStep ==
    ASSUME IInv, NEW g \in Proc, Network(g)
    PROVE  IInv'
<1>1. /\ pc[g] = "down" /\ pc' = [pc EXCEPT ![g] = "up"]
      /\ Here(g).kind = "net" /\ Outer(g)
      /\ UNCHANGED <<buildVars, closeVars, cacheVars, on, query, chain, fired>>
  BY DEF Network, Goto
<1>2. PICK u \in {cfg[on[g]].base, None} : answer' = [answer EXCEPT ![g] = u]
  BY DEF Network
<1>3. /\ at[g] > 0 /\ on[g] \in ClientId /\ Ready(on[g]) /\ cfg[on[g]] \in Config
  BY <1>1, AtLayer
<1>4. u \in Host \union {None}
  BY <1>3 DEF Config
<1>5. pc'[g] = "up" /\ answer'[g] = u
  BY <1>1, <1>2 DEF IInv, TypeOK
<1>6. TripOf(g)' /\ at' \in [Proc -> Nat]
  <2>1. fired'[g] = IF Here(g).kind = "hook" THEN Append(fired[g], Here(g).of) ELSE fired[g]
    BY <1>1
  <2> QED  BY <1>1, <1>3, <1>5, <2>1, OutwardTrip
<1>7. \A p \in Proc \ {g} : UNCHANGED <<pc[p], on[p], query[p], chain[p], at[p], answer[p], fired[p]>>
  BY <1>1, <1>2 DEF Outer, IInv, TypeOK
<1>8. TypeOK'
  <2>1. pc' \in [Proc -> Pc] /\ answer' \in [Proc -> Host \union {None}]
    BY <1>1, <1>2, <1>4 DEF IInv, TypeOK, Pc
  <2> QED  BY <1>1, <1>6, <2>1 DEF IInv, TypeOK, buildVars, closeVars, cacheVars
<1>9. AnswersComeThroughOwnCache'
  <2> SUFFICES ASSUME NEW p \in Proc, answer'[p] # None
               PROVE  \E d \in ClientId :
                         /\ Ready(d) /\ cfg[d].base = answer'[p]
                         /\ d = on[p] \/ (query[p] \in Cacheable /\ cfg[d].cache = TheCache(p))
    BY <1>1 DEF AnswersComeThroughOwnCache, buildVars, Ready, TheCache
  <2>1. CASE p = g
    BY <1>2, <1>3, <1>5, <2>1
  <2>2. CASE p # g
    BY <1>7, <2>2 DEF IInv, Fetched, AnswersComeThroughOwnCache
  <2> QED  BY <2>1, <2>2
<1>10. Built' /\ Untouched' /\ Trips' /\ Closing'
  <2>1. \A p \in Proc : pc'[p] \in {"closeCache", "wait", "closeDone"} => UNCHANGED <<pc[p], on[p]>>
    BY <1>5, <1>7
  <2> QED  BY <1>1, <1>6, <1>7, <2>1, BuiltStays, TripsStay, ClosingStays DEF IInv, cacheVars
<1>11. Fetched'
  BY <1>1, <1>9 DEF IInv, Fetched, buildVars, cacheVars, Ready, Owns
<1> QED  BY <1>8, <1>10, <1>11 DEF IInv

LEMMA UpCacheStep ==
    ASSUME IInv, NEW g \in Proc, UpCache(g)
    PROVE  IInv'
<1> DEFINE x == TheCache(g)
<1>1. /\ pc[g] = "up" /\ pc' = [pc EXCEPT ![g] = "start"]
      /\ Consulted(g) /\ Here(g).kind = "cache" /\ query[g] \in Cacheable /\ answer[g] # None
      /\ entries' = [entries EXCEPT ![Here(g).of][query[g]] = answer[g]]
      /\ UNCHANGED <<buildVars, closeVars, sweeper, sweepCtx, cacheOnce, tripVars>>
  BY DEF UpCache, Goto, Consulted
<1>2. /\ at[g] > 0 /\ Here(g).of = x /\ x \in Cache /\ on[g] \in ClientId /\ Ready(on[g])
  BY <1>1, AtLayer
<1>3. pc'[g] = "start"
  BY <1>1 DEF IInv, TypeOK
<1>4. TypeOK'
  <2>1. pc' \in [Proc -> Pc]
    BY <1>1 DEF IInv, TypeOK, Pc
  <2>2. answer[g] \in Host \union {None}
    BY DEF IInv, TypeOK
  <2>3. entries' \in [Cache -> [Cacheable -> Host \union {None}]]
    BY <1>1, <1>2, <2>2 DEF IInv, TypeOK
  <2> QED  BY <1>1, <2>1, <2>3 DEF IInv, TypeOK, buildVars, closeVars, tripVars
<1>5. TripOf(g)'
  <2>1. InTrip(g) /\ phase' = phase /\ cfg' = cfg
    BY <1>1 DEF IInv, Trips, TripOf, buildVars
  <2>2. InTrip(g)'
    BY <1>1, <1>2, <1>3, <2>1 DEF InTrip, Here, Ready, tripVars
  <2> QED  BY <1>3, <2>2 DEF TripOf
<1>6. \A p \in Proc \ {g} : UNCHANGED <<pc[p], on[p], query[p], chain[p], at[p], answer[p], fired[p]>>
  BY <1>1 DEF IInv, TypeOK, tripVars
<1>7. Built' /\ Untouched' /\ Trips' /\ Closing'
  <2>1. \A p \in Proc : pc'[p] \in {"closeCache", "wait", "closeDone"} => UNCHANGED <<pc[p], on[p]>>
    BY <1>3, <1>6
  <2> QED  BY <1>1, <1>5, <1>6, <2>1, BuiltStays, TripsStay, ClosingStays DEF IInv
<1>8. AnswersComeThroughOwnCache'
  <2>1. \A p \in Proc : answer'[p] # None => UNCHANGED <<on[p], query[p], answer[p]>>
    BY <1>1 DEF tripVars
  <2> QED  BY <1>1, <2>1, AnswersStay DEF IInv, Fetched
<1>9. ASSUME NEW y \in Cache, NEW q \in Cacheable, entries'[y][q] # None
      PROVE  \E c \in ClientId : Owns(c, y)' /\ cfg'[c].base = entries'[y][q]
  <2> USE DEF Owns, Ready, buildVars
  <2>1. CASE y = x /\ q = query[g]
    <3>1. entries'[y][q] = answer[g]
      BY <1>1, <1>2, <2>1 DEF IInv, TypeOK
    <3>2. PICK c \in ClientId :
             /\ Ready(c) /\ cfg[c].base = answer[g]
             /\ c = on[g] \/ cfg[c].cache = TheCache(g)
      BY <1>1 DEF IInv, Fetched, AnswersComeThroughOwnCache
    <3>3. cfg[c].cache = x
      BY <3>2 DEF TheCache
    <3> QED  BY <1>1, <2>1, <3>1, <3>2, <3>3
  <2>2. CASE ~(y = x /\ q = query[g])
    <3>1. entries'[y][q] = entries[y][q]
      BY <1>1, <1>2, <2>2 DEF IInv, TypeOK
    <3> QED  BY <1>1, <1>9, <3>1 DEF IInv, Fetched
  <2> QED  BY <2>1, <2>2
<1>10. Fetched'
  BY <1>1, <1>8, <1>9 DEF IInv, Fetched, buildVars, Ready, Owns
<1> QED  BY <1>4, <1>7, <1>10 DEF IInv

LEMMA StartSweeperStep ==
    ASSUME IInv, NEW g \in Proc, StartSweeper(g)
    PROVE  IInv'
<1> DEFINE x == TheCache(g)
<1>1. /\ pc[g] = "start" /\ pc' = [pc EXCEPT ![g] = "up"] /\ Outer(g)
      /\ sweeper' = [sweeper EXCEPT ![Here(g).of] =
                       IF sweeper[Here(g).of] = "none" THEN "running" ELSE sweeper[Here(g).of]]
      /\ UNCHANGED <<buildVars, closeVars, entries, sweepCtx, cacheOnce, on, query, chain, answer, fired>>
  <2>1. pc[g] = "start"
    BY DEF StartSweeper, Goto
  <2>2. InTrip(g)
    BY <2>1 DEF IInv, Trips, TripOf
  <2>3. Here(g).of \in Cache
    BY <2>1, <2>2, AtLayer DEF InTrip
  <2> QED  BY <2>3 DEF StartSweeper, Goto, IInv, TypeOK
<1>2. InTrip(g)
  BY <1>1 DEF IInv, Trips, TripOf
<1>3. /\ at[g] > 0 /\ Here(g).kind = "cache" /\ Here(g).of = x /\ x \in Cache
      /\ on[g] \in ClientId /\ Ready(on[g])
  BY <1>1, <1>2, AtLayer DEF InTrip
<1>4. pc'[g] = "up"
  BY <1>1 DEF IInv, TypeOK
<1>5. TripOf(g)' /\ at' \in [Proc -> Nat]
  <2>1. fired'[g] = IF Here(g).kind = "hook" THEN Append(fired[g], Here(g).of) ELSE fired[g]
    BY <1>1, <1>3
  <2> QED  BY <1>1, <1>3, <1>4, <2>1, OutwardTrip
<1>6. \A p \in Proc \ {g} : UNCHANGED <<pc[p], on[p], query[p], chain[p], at[p], answer[p], fired[p]>>
  BY <1>1 DEF Outer, IInv, TypeOK
<1>7. TypeOK'
  <2>1. pc' \in [Proc -> Pc]
    BY <1>1 DEF IInv, TypeOK, Pc
  <2>2. sweeper' \in [Cache -> {"none", "running", "exited"}]
    BY <1>1, <1>3 DEF IInv, TypeOK
  <2> QED  BY <1>1, <1>5, <2>1, <2>2 DEF IInv, TypeOK, buildVars, closeVars
<1>8. Built' /\ Untouched' /\ Trips' /\ Closing'
  <2>1. \A p \in Proc : pc'[p] \in {"closeCache", "wait", "closeDone"} => UNCHANGED <<pc[p], on[p]>>
    BY <1>4, <1>6
  <2> QED  BY <1>1, <1>5, <1>6, <2>1, BuiltStays, TripsStay, ClosingStays DEF IInv
<1>9. AnswersComeThroughOwnCache'
  BY <1>1, AnswersStay DEF IInv, Fetched
<1>10. ASSUME NEW y \in Cache, sweeper'[y] = "running"
       PROVE  \E c \in ClientId : Owns(c, y)'
  <2>1. CASE y = x
    BY <1>1, <1>3, <2>1 DEF Owns, Ready, buildVars, TheCache
  <2>2. CASE y # x
    <3>1. sweeper[y] = "running"
      BY <1>1, <1>3, <1>10, <2>2 DEF IInv, TypeOK
    <3> QED  BY <1>1, <3>1 DEF IInv, Fetched, Owns, Ready, buildVars
  <2> QED  BY <2>1, <2>2
<1>11. Fetched'
  BY <1>1, <1>9, <1>10 DEF IInv, Fetched, buildVars, Ready, Owns
<1> QED  BY <1>7, <1>8, <1>11 DEF IInv

\* A goroutine that has returned from a call or a Close holds nothing.
LEMMA Forgotten ==
    ASSUME IInv, NEW g \in Proc, Forget(g), pc' = [pc EXCEPT ![g] = "idle"], at' = at
    PROVE  /\ TripOf(g)'
           /\ \A p \in Proc \ {g} :
                 UNCHANGED <<pc[p], on[p], query[p], chain[p], at[p], answer[p], fired[p]>>
           /\ pc' \in [Proc -> Pc] /\ on' \in [Proc -> ClientId \union {None}]
           /\ query' \in [Proc -> Query \union {None}] /\ chain' \in [Proc -> Chain]
           /\ answer' \in [Proc -> Host \union {None}] /\ fired' \in [Proc -> Seq(Hook)]
           /\ pc'[g] = "idle" /\ answer'[g] = None
BY DEF IInv, TypeOK, Forget, TripOf, Pc, Chain

LEMMA ReturnStep ==
    ASSUME IInv, NEW g \in Proc, Return(g)
    PROVE  IInv'
<1>1. /\ Forget(g) /\ pc' = [pc EXCEPT ![g] = "idle"] /\ at' = at
      /\ UNCHANGED <<buildVars, closeVars, cacheVars>>
  BY DEF Return, Goto
<1>2. TypeOK'
  BY <1>1, Forgotten DEF IInv, TypeOK, buildVars, closeVars, cacheVars
<1> QED  BY <1>1, <1>2, Forgotten, MoveStays

LEMMA RoundTripStep ==
    ASSUME IInv, NEW g \in Proc, RoundTrip(g)
    PROVE  IInv'
BY CallStep, DownStep, CacheHitStep, NetworkStep, UpHookStep, UpCacheStep, StartSweeperStep,
   UpPassStep, ReturnStep DEF RoundTrip

-----------------------------------------------------------------------------
(* Close.                                                                   *)

LEMMA CloseCallStep ==
    ASSUME IInv, NEW g \in Proc, CloseCall(g)
    PROVE  IInv'
<1>1. PICK c \in ClientId : Ready(c) /\ on' = [on EXCEPT ![g] = c]
  BY DEF CloseCall, Ready
<1>2. /\ pc[g] = "idle" /\ pc' = [pc EXCEPT ![g] = "closeClient"]
      /\ UNCHANGED <<buildVars, closeVars, cacheVars, query, chain, at, answer, fired>>
  BY DEF CloseCall, Goto
<1>3. TypeOK'
  BY <1>1, <1>2 DEF IInv, TypeOK, Pc, buildVars, closeVars, cacheVars
<1>4. pc'[g] = "closeClient" /\ on'[g] = c
  BY <1>1, <1>2 DEF IInv, TypeOK
<1>5. answer[g] = None /\ fired[g] = <<>>
  BY <1>2 DEF IInv, Trips, TripOf
<1>6. TripOf(g)'
  BY <1>1, <1>2, <1>4, <1>5 DEF TripOf, Ready, buildVars
<1>7. \A p \in Proc \ {g} : UNCHANGED <<pc[p], on[p], query[p], chain[p], at[p], answer[p], fired[p]>>
  BY <1>1, <1>2 DEF IInv, TypeOK
<1> QED  BY <1>2, <1>3, <1>4, <1>5, <1>6, <1>7, MoveStays

\* A step of Close inside the two sync.Once: it changes who holds them, whose
\* context is cancelled, and where the goroutine is.
LEMMA CloseInside ==
    ASSUME IInv, NEW g \in Proc, NEW to \in {"closeCache", "wait", "closeDone"},
           pc[g] \in {"closeClient", "closeCache", "wait"},
           pc' = [pc EXCEPT ![g] = to],
           UNCHANGED <<buildVars, entries, sweeper, tripVars>>,
           closeOnce' \in [ClientId -> {"new", "running", "done"}], closed' = closed,
           sweepCtx' \in [Cache -> BOOLEAN],
           cacheOnce' \in [Cache -> {"new", "running", "done"}]
    PROVE  TypeOK' /\ Built' /\ Untouched' /\ Trips' /\ Fetched'
<1>1. TypeOK'
  BY DEF IInv, TypeOK, Pc, buildVars, tripVars
<1>2. TripOf(g)'
  <2>1. /\ on[g] \in ClientId /\ Ready(on[g]) /\ fired[g] = <<>> /\ answer[g] = None
    BY DEF IInv, Trips, TripOf
  <2>2. pc'[g] = to
    BY DEF IInv, TypeOK
  <2> QED  BY <2>1, <2>2 DEF TripOf, tripVars, buildVars, Ready
<1>3. \A p \in Proc \ {g} : UNCHANGED <<pc[p], on[p], query[p], chain[p], at[p], answer[p], fired[p]>>
  BY DEF IInv, TypeOK, tripVars
<1>4. Trips'
  BY <1>2, <1>3, TripsStay DEF IInv
<1>5. Fetched'
  BY FetchedStays DEF IInv, tripVars
<1> QED  BY <1>1, <1>4, <1>5, BuiltStays DEF IInv

LEMMA CloseFirstStep ==
    ASSUME IInv, NEW g \in Proc, CloseFirst(g)
    PROVE  IInv'
<1> DEFINE c == on[g]
           to == IF TheCache(g) = None THEN "closeDone" ELSE "closeCache"
<1>1. /\ pc[g] = "closeClient" /\ pc' = [pc EXCEPT ![g] = to]
      /\ closeOnce[c] = "new" /\ closeOnce' = [closeOnce EXCEPT ![c] = "running"]
      /\ UNCHANGED <<buildVars, closed, cacheVars, tripVars>>
  BY DEF CloseFirst, Goto
<1>2. c \in ClientId /\ Ready(c)
  BY <1>1 DEF IInv, Trips, TripOf
<1>3. TypeOK' /\ Built' /\ Untouched' /\ Trips' /\ Fetched'
  <2>1. closeOnce' \in [ClientId -> {"new", "running", "done"}]
    BY <1>1 DEF IInv, TypeOK
  <2> HIDE DEF c
  <2> QED  BY <1>1, <2>1, CloseInside DEF IInv, TypeOK, cacheVars
<1>4. \A d \in ClientId : closeOnce'[d] = IF d = c THEN "running" ELSE closeOnce[d]
  BY <1>1 DEF IInv, TypeOK
<1>5. pc'[g] = to /\ \A p \in Proc \ {g} : pc'[p] = pc[p]
  BY <1>1 DEF IInv, TypeOK
<1>6. Closing'
  <2> USE <1>1, <1>2, <1>4 DEF buildVars, cacheVars, tripVars, Ready, Owns, TheCache
  <2>1. \A d \in ClientId :
           /\ closeOnce'[d] # "new" => phase'[d] = "ready"
           /\ closed'[d] => closeOnce'[d] = "done"
           /\ closeOnce'[d] = "done" /\ cfg'[d].cache # None => sweepCtx'[cfg'[d].cache]
    BY DEF IInv, Closing
  <2>2. \A x \in Cache :
           /\ cacheOnce'[x] # "new" => sweepCtx'[x]
           /\ sweepCtx'[x] => \E d \in ClientId : Owns(d, x)' /\ closeOnce'[d] # "new"
    BY DEF IInv, Closing
  <2>3. ASSUME NEW p \in Proc
        PROVE  /\ pc'[p] \in {"closeCache", "wait"} => TheCache(p)' # None
               /\ pc'[p] \in {"closeCache", "wait", "closeDone"} => closeOnce'[on'[p]] # "new"
               /\ pc'[p] \in {"wait", "closeDone"} /\ TheCache(p)' # None => sweepCtx'[TheCache(p)']
    <3>1. pc'[p] \in {"closeCache", "wait", "closeDone"} => on[p] \in ClientId
      BY <1>5 DEF IInv, Trips, TripOf
    <3>2. CASE p = g
      BY <1>5, <3>2
    <3>3. CASE p # g
      BY <1>5, <3>1, <3>3 DEF IInv, Closing
    <3> QED  BY <3>2, <3>3
  <2> QED  BY <2>1, <2>2, <2>3 DEF Closing
<1> QED  BY <1>3, <1>6 DEF IInv

LEMMA CacheCloseFirstStep ==
    ASSUME IInv, NEW g \in Proc, CacheCloseFirst(g)
    PROVE  IInv'
<1> DEFINE c == on[g]
           x == TheCache(g)
<1>1. /\ pc[g] = "closeCache" /\ pc' = [pc EXCEPT ![g] = "wait"]
      /\ cacheOnce' = [cacheOnce EXCEPT ![x] = "running"]
      /\ sweepCtx' = [sweepCtx EXCEPT ![x] = TRUE]
      /\ UNCHANGED <<buildVars, closeVars, entries, sweeper, tripVars>>
  BY DEF CacheCloseFirst, Goto
<1>2. /\ c \in ClientId /\ Ready(c) /\ closeOnce[c] # "new" /\ x # None
      /\ cfg[c].cache = x /\ x \in Cache
  <2>1. c \in ClientId /\ Ready(c) /\ closeOnce[c] # "new" /\ x # None
    BY <1>1 DEF IInv, Trips, TripOf, Closing
  <2>2. cfg[c] \in Config
    BY <2>1 DEF IInv, TypeOK
  <2> QED  BY <2>1, <2>2 DEF Config, TheCache
<1>3. TypeOK' /\ Built' /\ Untouched' /\ Trips' /\ Fetched'
  <2>1. /\ cacheOnce' \in [Cache -> {"new", "running", "done"}] /\ sweepCtx' \in [Cache -> BOOLEAN]
    BY <1>1 DEF IInv, TypeOK
  <2> HIDE DEF x
  <2> QED  BY <1>1, <2>1, CloseInside DEF IInv, TypeOK, closeVars
<1>4. /\ \A y \in Cache : sweepCtx'[y] <=> (y = x \/ sweepCtx[y])
      /\ \A y \in Cache : cacheOnce'[y] = IF y = x THEN "running" ELSE cacheOnce[y]
  BY <1>1, <1>2 DEF IInv, TypeOK
<1>5. pc'[g] = "wait" /\ \A p \in Proc \ {g} : pc'[p] = pc[p]
  BY <1>1 DEF IInv, TypeOK
<1>6. \A d \in ClientId : cfg[d].cache # None => cfg[d].cache \in Cache
  BY DEF IInv, TypeOK, Config
<1>7. Closing'
  <2> USE DEF buildVars, closeVars, tripVars, Ready, Owns
  <2>1. \A d \in ClientId :
           /\ closeOnce'[d] # "new" => phase'[d] = "ready"
           /\ closed'[d] => closeOnce'[d] = "done"
           /\ closeOnce'[d] = "done" /\ cfg'[d].cache # None => sweepCtx'[cfg'[d].cache]
    BY <1>1, <1>4, <1>6 DEF IInv, Closing
  <2>2. \A y \in Cache :
           /\ cacheOnce'[y] # "new" => sweepCtx'[y]
           /\ sweepCtx'[y] => \E d \in ClientId : Owns(d, y)' /\ closeOnce'[d] # "new"
    BY <1>1, <1>2, <1>4 DEF IInv, Closing
  <2>3. ASSUME NEW p \in Proc
        PROVE  /\ pc'[p] \in {"closeCache", "wait"} => TheCache(p)' # None
               /\ pc'[p] \in {"closeCache", "wait", "closeDone"} => closeOnce'[on'[p]] # "new"
               /\ pc'[p] \in {"wait", "closeDone"} /\ TheCache(p)' # None => sweepCtx'[TheCache(p)']
    <3>1. pc'[p] \in {"closeCache", "wait", "closeDone"} => on[p] \in ClientId
      BY <1>1, <1>2, <1>5 DEF IInv, Trips, TripOf
    <3>2. TheCache(p)' = TheCache(p)
      BY <1>1 DEF TheCache
    <3>3. CASE p = g
      BY <1>1, <1>2, <1>4, <1>5, <3>2, <3>3
    <3>4. CASE p # g
      <4>1. pc'[p] = pc[p]
        BY <1>5, <3>4
      <4>2. pc[p] \in {"wait", "closeDone"} /\ TheCache(p) # None => TheCache(p) \in Cache
        BY <1>6, <3>1, <4>1 DEF TheCache
      <4> QED  BY <1>1, <1>4, <3>2, <4>1, <4>2 DEF IInv, Closing
    <3> QED  BY <3>3, <3>4
  <2> QED  BY <2>1, <2>2, <2>3 DEF Closing
<1> QED  BY <1>3, <1>7 DEF IInv

\* Either way out of the cache's Close: the sweeper has been told to stop.
LEMMA CacheCloseOver ==
    ASSUME IInv, NEW g \in Proc, pc[g] \in {"closeCache", "wait"},
           pc' = [pc EXCEPT ![g] = "closeDone"],
           UNCHANGED <<buildVars, closeVars, entries, sweeper, sweepCtx, tripVars>>,
           cacheOnce' \in [Cache -> {"new", "running", "done"}],
           \A x \in Cache : cacheOnce'[x] # "new" => sweepCtx[x],
           sweepCtx[TheCache(g)]
    PROVE  IInv'
<1>1. TypeOK' /\ Built' /\ Untouched' /\ Trips' /\ Fetched'
  BY CloseInside DEF IInv, TypeOK, closeVars
<1>2. pc'[g] = "closeDone" /\ \A p \in Proc \ {g} : pc'[p] = pc[p]
  BY DEF IInv, TypeOK
<1>3. Closing'
  <2> USE DEF buildVars, closeVars, tripVars, Ready, Owns, TheCache
  <2>1. \A d \in ClientId :
           /\ closeOnce'[d] # "new" => phase'[d] = "ready"
           /\ closed'[d] => closeOnce'[d] = "done"
           /\ closeOnce'[d] = "done" /\ cfg'[d].cache # None => sweepCtx'[cfg'[d].cache]
    BY DEF IInv, Closing
  <2>2. \A y \in Cache :
           /\ cacheOnce'[y] # "new" => sweepCtx'[y]
           /\ sweepCtx'[y] => \E d \in ClientId : Owns(d, y)' /\ closeOnce'[d] # "new"
    BY DEF IInv, Closing
  <2>3. ASSUME NEW p \in Proc
        PROVE  /\ pc'[p] \in {"closeCache", "wait"} => TheCache(p)' # None
               /\ pc'[p] \in {"closeCache", "wait", "closeDone"} => closeOnce'[on'[p]] # "new"
               /\ pc'[p] \in {"wait", "closeDone"} /\ TheCache(p)' # None => sweepCtx'[TheCache(p)']
    <3>1. CASE p = g
      BY <1>2, <3>1 DEF IInv, Closing
    <3>2. CASE p # g
      BY <1>2, <3>2 DEF IInv, Closing
    <3> QED  BY <3>1, <3>2
  <2> QED  BY <2>1, <2>2, <2>3 DEF Closing
<1> QED  BY <1>1, <1>3 DEF IInv

LEMMA CacheCloseAgainStep ==
    ASSUME IInv, NEW g \in Proc, CacheCloseAgain(g)
    PROVE  IInv'
<1>1. /\ pc[g] = "closeCache" /\ pc' = [pc EXCEPT ![g] = "closeDone"]
      /\ cacheOnce[TheCache(g)] = "done"
      /\ UNCHANGED <<buildVars, closeVars, cacheVars, tripVars>>
  BY DEF CacheCloseAgain, Goto
<1>2. on[g] \in ClientId /\ TheCache(g) # None /\ cfg[on[g]] \in Config
  BY <1>1 DEF IInv, TypeOK, Trips, TripOf, Closing
<1>3. TheCache(g) \in Cache
  BY <1>2 DEF TheCache, Config
<1>4. /\ \A x \in Cache : cacheOnce'[x] # "new" => sweepCtx[x]
      /\ sweepCtx[TheCache(g)] /\ cacheOnce' \in [Cache -> {"new", "running", "done"}]
  BY <1>1, <1>3 DEF IInv, TypeOK, Closing, cacheVars
<1> QED  BY <1>1, <1>4, CacheCloseOver DEF cacheVars

LEMMA CacheClosedStep ==
    ASSUME IInv, NEW g \in Proc, CacheClosed(g)
    PROVE  IInv'
<1>1. /\ pc[g] = "wait" /\ pc' = [pc EXCEPT ![g] = "closeDone"]
      /\ cacheOnce' = [cacheOnce EXCEPT ![TheCache(g)] = "done"]
      /\ UNCHANGED <<buildVars, closeVars, entries, sweeper, sweepCtx, tripVars>>
  BY DEF CacheClosed, Goto
<1>2. TheCache(g) # None /\ sweepCtx[TheCache(g)]
  BY <1>1 DEF IInv, Closing
<1>3. /\ cacheOnce' \in [Cache -> {"new", "running", "done"}]
      /\ \A x \in Cache : cacheOnce'[x] # "new" => sweepCtx[x]
  BY <1>1, <1>2 DEF IInv, TypeOK, Closing
<1> QED  BY <1>1, <1>2, <1>3, CacheCloseOver

\* Either way out of the Client's Close.
LEMMA CloseOver ==
    ASSUME IInv, NEW g \in Proc, NEW from \in {"closeClient", "closeDone"}, CloseReturn(g, from),
           closeOnce[on[g]] # "new", TheCache(g) # None => sweepCtx[TheCache(g)],
           closeOnce' = [closeOnce EXCEPT ![on[g]] = "done"]
    PROVE  IInv'
<1> DEFINE c == on[g]
<1>1. /\ pc[g] = from /\ pc' = [pc EXCEPT ![g] = "idle"] /\ at' = at /\ Forget(g)
      /\ closed' = [closed EXCEPT ![c] = TRUE]
      /\ UNCHANGED <<buildVars, cacheVars>>
  BY DEF CloseReturn, Goto
<1>2. c \in ClientId /\ Ready(c)
  BY <1>1 DEF IInv, Trips, TripOf
<1>3. \A d \in ClientId : /\ closeOnce'[d] = IF d = c THEN "done" ELSE closeOnce[d]
                          /\ closed'[d] <=> (d = c \/ closed[d])
  BY <1>1 DEF IInv, TypeOK
<1>4. /\ closeOnce' \in [ClientId -> {"new", "running", "done"}]
      /\ closed' \in [ClientId -> BOOLEAN]
  BY <1>1 DEF IInv, TypeOK
<1>5. TypeOK'
  BY <1>1, <1>4, Forgotten DEF IInv, TypeOK, buildVars, cacheVars
<1>6. Built' /\ Untouched' /\ Trips'
  BY <1>1, Forgotten, BuiltStays, TripsStay DEF IInv
<1>7. Fetched'
  <2>1. \A p \in Proc : answer'[p] # None => UNCHANGED <<on[p], query[p], answer[p]>>
    BY <1>1, Forgotten
  <2> QED  BY <1>1, <2>1, FetchedStays DEF IInv, cacheVars
<1>8. Closing'
  <2> USE DEF buildVars, cacheVars, Ready, Owns, TheCache
  <2>1. ASSUME NEW d \in ClientId
        PROVE  /\ closeOnce'[d] # "new" => phase'[d] = "ready"
               /\ closed'[d] => closeOnce'[d] = "done"
               /\ closeOnce'[d] = "done" /\ cfg'[d].cache # None => sweepCtx'[cfg'[d].cache]
    <3>1. CASE d = c
      <4>1. closeOnce'[d] = "done" /\ phase' = phase /\ cfg' = cfg /\ sweepCtx' = sweepCtx
        BY <1>1, <1>3, <3>1
      <4>2. cfg[d].cache # None => sweepCtx[cfg[d].cache]
        BY <3>1
      <4> QED  BY <1>2, <3>1, <4>1, <4>2
    <3>2. CASE d # c
      <4>1. closeOnce'[d] = closeOnce[d] /\ (closed'[d] <=> closed[d])
        BY <1>3, <3>2
      <4>2. /\ closeOnce[d] # "new" => phase[d] = "ready"
            /\ closed[d] => closeOnce[d] = "done"
            /\ closeOnce[d] = "done" /\ cfg[d].cache # None => sweepCtx[cfg[d].cache]
        BY DEF IInv, Closing
      <4>3. phase' = phase /\ cfg' = cfg /\ sweepCtx' = sweepCtx
        BY <1>1
      <4> QED  BY <4>1, <4>2, <4>3
    <3> QED  BY <3>1, <3>2
  <2>2. \A x \in Cache :
           /\ cacheOnce'[x] # "new" => sweepCtx'[x]
           /\ sweepCtx'[x] => \E d \in ClientId : Owns(d, x)' /\ closeOnce'[d] # "new"
    BY <1>1, <1>3 DEF IInv, Closing
  <2>3. ASSUME NEW p \in Proc
        PROVE  /\ pc'[p] \in {"closeCache", "wait"} => TheCache(p)' # None
               /\ pc'[p] \in {"closeCache", "wait", "closeDone"} => closeOnce'[on'[p]] # "new"
               /\ pc'[p] \in {"wait", "closeDone"} /\ TheCache(p)' # None => sweepCtx'[TheCache(p)']
    <3>1. CASE p = g
      BY <1>1, <3>1, Forgotten
    <3>2. CASE p # g
      <4>1. UNCHANGED <<pc[p], on[p]>>
        BY <1>1, <3>2, Forgotten
      <4>2. pc[p] \in {"closeCache", "wait", "closeDone"} => on[p] \in ClientId
        BY DEF IInv, Trips, TripOf
      <4> QED  BY <1>1, <1>3, <4>1, <4>2 DEF IInv, Closing
    <3> QED  BY <3>1, <3>2
  <2> QED  BY <2>1, <2>2, <2>3 DEF Closing
<1> QED  BY <1>5, <1>6, <1>7, <1>8 DEF IInv

LEMMA CloseAgainStep ==
    ASSUME IInv, NEW g \in Proc, CloseAgain(g)
    PROVE  IInv'
<1>1. /\ CloseReturn(g, "closeClient") /\ closeOnce[on[g]] = "done" /\ closeOnce' = closeOnce
      /\ pc[g] = "closeClient"
  BY DEF CloseAgain, CloseReturn, Goto
<1>2. on[g] \in ClientId
  BY <1>1 DEF IInv, Trips, TripOf
<1>3. TheCache(g) # None => sweepCtx[TheCache(g)]
  BY <1>1, <1>2 DEF IInv, Closing, TheCache
<1>4. closeOnce' = [closeOnce EXCEPT ![on[g]] = "done"]
  BY <1>1, <1>2 DEF IInv, TypeOK
<1> QED  BY <1>1, <1>3, <1>4, CloseOver

LEMMA CloseEndStep ==
    ASSUME IInv, NEW g \in Proc, CloseEnd(g)
    PROVE  IInv'
<1>1. /\ CloseReturn(g, "closeDone") /\ closeOnce' = [closeOnce EXCEPT ![on[g]] = "done"]
      /\ pc[g] = "closeDone"
  BY DEF CloseEnd, CloseReturn, Goto
<1>2. /\ closeOnce[on[g]] # "new"
      /\ TheCache(g) # None => sweepCtx[TheCache(g)]
  BY <1>1 DEF IInv, Closing
<1> QED  BY <1>1, <1>2, CloseOver

LEMMA CloseStep ==
    ASSUME IInv, NEW g \in Proc, Close(g)
    PROVE  IInv'
BY CloseCallStep, CloseFirstStep, CloseAgainStep, CacheCloseFirstStep, CacheCloseAgainStep,
   CacheClosedStep, CloseEndStep DEF Close

-----------------------------------------------------------------------------
(* The caches on their own.                                                 *)

LEMMA CacheStep ==
    ASSUME IInv, NEW x \in Cache,
           SweeperExit(x) \/ \E q \in Cacheable : Expire(x, q)
    PROVE  IInv'
<1>1. UNCHANGED <<buildVars, closeVars, sweepCtx, cacheOnce, procVars>>
  BY DEF SweeperExit, Expire
<1>2. UNCHANGED <<pc, on, query, chain, at, answer, fired>>
  BY <1>1 DEF procVars, tripVars
<1>3. /\ entries' \in [Cache -> [Cacheable -> Host \union {None}]]
      /\ \A y \in Cache, q \in Cacheable : entries'[y][q] # None => entries'[y][q] = entries[y][q]
      /\ sweeper' \in [Cache -> {"none", "running", "exited"}]
      /\ \A y \in Cache : sweeper'[y] = "running" => sweeper[y] = "running"
  <2>1. CASE SweeperExit(x)
    BY <2>1 DEF SweeperExit, IInv, TypeOK
  <2>2. ASSUME NEW q \in Cacheable, Expire(x, q)
        PROVE  /\ entries' \in [Cache -> [Cacheable -> Host \union {None}]]
               /\ \A y \in Cache, r \in Cacheable : entries'[y][r] # None => entries'[y][r] = entries[y][r]
               /\ sweeper' = sweeper
    BY <2>2 DEF Expire, IInv, TypeOK
  <2> QED  BY <2>1, <2>2 DEF IInv, TypeOK
<1>4. TypeOK'
  BY <1>1, <1>2, <1>3 DEF IInv, TypeOK, buildVars, closeVars
<1>5. Built' /\ Untouched' /\ Closing'
  BY <1>1, <1>2, BuiltStays, ClosingStays DEF IInv
<1>6. Trips'
  BY <1>1, <1>2 DEF IInv, Trips, TripOf, InTrip, Here, Ready, buildVars
<1>7. AnswersComeThroughOwnCache'
  BY <1>1, <1>2, AnswersStay DEF IInv, Fetched
<1>8. Fetched'
  BY <1>1, <1>3, <1>7 DEF IInv, Fetched, Owns, Ready, buildVars
<1> QED  BY <1>4, <1>5, <1>6, <1>8 DEF IInv

-----------------------------------------------------------------------------
(* The theorems.                                                            *)

LEMMA InitIInv == Init => IInv
<1> SUFFICES ASSUME Init PROVE IInv
  OBVIOUS
<1> USE DEF Init
<1>1. \A c \in ClientId : /\ cfg[c] = defaultConfig(c) /\ defaultConfig(c) \in Config
                          /\ defaultConfig(c).cache = None
                          /\ defaultConfig(c).http = DefaultHTTP(c)
                          /\ DefaultHTTP(c) \in HTTPObject
  BY HostAssumption, OptionAssumption DEF defaultConfig, Config, HTTPObject, DefaultHTTP
<1>2. TypeOK
  <2>1. cfg \in [ClientId -> Config] /\ http \in [ClientId -> HTTPObject]
    BY <1>1
  <2>2. <<>> \in Chain /\ <<>> \in Seq(Hook)
    BY DEF Chain
  <2>3. applied \in [ClientId -> 0..MaxOptions]
    BY OptionAssumption
  <2> QED  BY <2>1, <2>2, <2>3 DEF TypeOK, Pc
<1>3. None \notin Private
  BY NoneAssumption DEF Cache
<1>4. Built
  BY <1>1, <1>3 DEF Built, Ready
<1>5. Untouched
  BY <1>1 DEF Untouched, HTTPObject, Plain
<1>6. Trips
  BY DEF Trips, TripOf
<1>7. Closing
  BY DEF Closing
<1>8. Fetched
  BY DEF Fetched, AnswersComeThroughOwnCache
<1> QED  BY <1>2, <1>4, <1>5, <1>6, <1>7, <1>8 DEF IInv

\* The invariant above holds of every reachable state: options only touch the
\* configuration that they build, chains only go into copies, and who relies on
\* a cache that is shut down has begun to close its Client.
THEOREM LifecycleInvariance == Spec => []IInv
<1>1. IInv /\ [Next]_vars => IInv'
  <2> SUFFICES ASSUME IInv, [Next]_vars PROVE IInv'
    OBVIOUS
  <2>1. ASSUME NEW c \in ClientId, Build(c) PROVE IInv'
    BY <2>1, BuildStep
  <2>2. ASSUME NEW h \in HTTPClient, NEW tr \in RoundTripper \union {None}, SetTransport(h, tr)
        PROVE  IInv'
    BY <2>2, SetTransportStep
  <2>3. ASSUME NEW g \in Proc, RoundTrip(g) PROVE IInv'
    BY <2>3, RoundTripStep
  <2>4. ASSUME NEW g \in Proc, Close(g) PROVE IInv'
    BY <2>4, CloseStep
  <2>5. ASSUME NEW x \in Cache, SweeperExit(x) \/ \E q \in Cacheable : Expire(x, q) PROVE IInv'
    BY <2>5, CacheStep
  <2>6. CASE UNCHANGED vars
    BY <2>6 DEF IInv, TypeOK, Built, Untouched, Trips, TripOf, InTrip, Closing, Fetched, vars,
       Ready, Owns, Here, TheCache, AnswersComeThroughOwnCache, tripVars
  <2> QED  BY <2>1, <2>2, <2>3, <2>4, <2>5, <2>6 DEF Next
<1> QED  BY <1>1, InitIInv, PTL DEF Spec

\* Every variable keeps its type; above all, a layer that may answer or that must
\* see the response is always found, so that no request is lost on its way.
THEOREM TypeCorrect == Spec => []TypeOK
<1>1. IInv => TypeOK
  BY DEF IInv
<1> QED  BY <1>1, LifecycleInvariance, PTL

\* No call ever holds a body that came through the chain of another Client,
\* unless by a cache that both were given (config.go:140-144).
THEOREM OwnChain == Spec => []AnswersComeThroughOwnCache
<1>1. IInv => AnswersComeThroughOwnCache
  BY DEF IInv, Fetched
<1> QED  BY <1>1, LifecycleInvariance, PTL

\* Each round trip fires the Client's own hook exactly once, cached or not
\* (config.go:197-207, transport_hook.go:94-110).
THEOREM OneHook == Spec => []HookFiresOnce
<1>1. IInv => HookFiresOnce
  BY DEF IInv, Trips, TripOf, InTrip, HookFiresOnce
<1> QED  BY <1>1, LifecycleInvariance, PTL

\* Closing every Client tells every sweeper to stop (client.go:138-145).
THEOREM NoOrphans == Spec => []NoOrphanSweeper
<1>1. IInv => NoOrphanSweeper
  <2> SUFFICES ASSUME IInv, NEW x \in Cache, sweeper[x] = "running"
               PROVE  sweepCtx[x] \/ \E c \in ClientId : Ready(c) /\ cfg[c].cache = x /\ ~closed[c]
    BY DEF NoOrphanSweeper
  <2>1. PICK c \in ClientId : Ready(c) /\ cfg[c].cache = x
    BY DEF IInv, Fetched, Owns
  <2>2. x # None
    BY NoneAssumption
  <2> QED  BY <2>1, <2>2 DEF IInv, Closing
<1> QED  BY <1>1, LifecycleInvariance, PTL

\* A cache that WithCache made is shut down by its own Client alone
\* (options.go:337-342, client.go:138-145).
THEOREM CloseIsPrivate == Spec => []CloseDisturbsNobodyElse
<1>1. IInv => CloseDisturbsNobodyElse
  <2> SUFFICES ASSUME IInv, NEW c \in ClientId,
                      Ready(c), cfg[c].cache \in Private, sweepCtx[cfg[c].cache]
               PROVE  closeOnce[c] # "new"
    BY DEF CloseDisturbsNobodyElse
  <2>1. PICK d \in ClientId : cfg[d].cache = cfg[c].cache /\ closeOnce[d] # "new"
    BY DEF IInv, Closing, Owns, Cache
  <2>2. cfg[c].cache[1] = c /\ cfg[d].cache[1] = d
    BY <2>1 DEF IInv, Built
  <2> QED  BY <2>1, <2>2
<1> QED  BY <1>1, LifecycleInvariance, PTL
=============================================================================
