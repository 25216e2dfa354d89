-------------------------- MODULE Pipeline_proofs --------------------------
(***************************************************************************)
(* Proofs about module Pipeline, for any number of requests, users and     *)
(* addresses and any environment the process is started in.                *)
(***************************************************************************)
EXTENDS Pipeline, FiniteSetTheorems, TLAPS

-----------------------------------------------------------------------------
(* Sequences of layers.                                                    *)

\* What two sequences make when joined.
LEMMA Joined ==
    ASSUME NEW S, NEW s \in Seq(S), NEW t \in Seq(S)
    PROVE  /\ s \o t \in Seq(S) /\ Len(s) \in Nat /\ Len(t) \in Nat
           /\ Len(s \o t) = Len(s) + Len(t)
           /\ \A i \in 1 .. Len(s) : (s \o t)[i] = s[i]
           /\ \A i \in 1 .. Len(t) : (s \o t)[Len(s) + i] = t[i]
  OBVIOUS

\* Sequences with the same items are the same.
LEMMA SameItems ==
    ASSUME NEW S, NEW s \in Seq(S), NEW t \in Seq(S), Len(s) = Len(t),
           \A i \in 1 .. Len(s) : s[i] = t[i]
    PROVE  s = t
  OBVIOUS

\* The empty sequence adds nothing.
LEMMA JoinedEmpty ==
    ASSUME NEW S, NEW s \in Seq(S)
    PROVE  <<>> \o s = s /\ s \o <<>> = s
  OBVIOUS

\* Two layers, one after the other.
LEMMA JoinedTwo ==
    ASSUME NEW S, NEW a \in S, NEW b \in S
    PROVE  <<a>> \o <<b>> = <<a, b>>
<1> DEFINE p == <<a>> \o <<b>>
           q == <<a, b>>
<1>1. p \in Seq(S) /\ q \in Seq(S)
  BY Joined
<1>2. Len(p) = 2 /\ Len(q) = 2
  BY Joined
<1>3. p[1] = a /\ p[2] = b
  BY Joined
<1>4. q[1] = a /\ q[2] = b
  OBVIOUS
<1> HIDE DEF p, q
<1>5. \A i \in 1 .. Len(p) : p[i] = q[i]
  BY <1>2, <1>3, <1>4
<1>6. p = q
  BY <1>1, <1>2, <1>5, SameItems
<1> QED
  BY <1>6 DEF p, q

\* Three layers.
LEMMA JoinedThree ==
    ASSUME NEW S, NEW a \in S, NEW b \in S, NEW c \in S
    PROVE  <<a>> \o <<b>> \o <<c>> = <<a, b, c>>
<1> DEFINE l == <<a, b>>
           p == l \o <<c>>
           q == <<a, b, c>>
<1>0. <<a>> \o <<b>> = l
  BY JoinedTwo
<1>1. l \in Seq(S) /\ Len(l) = 2 /\ l[1] = a /\ l[2] = b
  OBVIOUS
<1>2. q \in Seq(S) /\ Len(q) = 3 /\ q[1] = a /\ q[2] = b /\ q[3] = c
  OBVIOUS
<1> HIDE DEF l, q
<1>3. p \in Seq(S) /\ Len(p) = 3 /\ p[1] = a /\ p[2] = b /\ p[3] = c
  <2>1. <<c>> \in Seq(S) /\ Len(<<c>>) = 1 /\ <<c>>[1] = c
    OBVIOUS
  <2>2. /\ p \in Seq(S) /\ Len(p) = 2 + 1
        /\ \A i \in 1 .. 2 : p[i] = l[i]
        /\ \A i \in 1 .. 1 : p[2 + i] = <<c>>[i]
    BY <1>1, <2>1, Joined
  <2> HIDE DEF p
  <2>3. p[1] = l[1] /\ p[2] = l[2]
    BY <2>2
  <2>4. p[2 + 1] = <<c>>[1]
    BY <2>2
  <2> QED
    BY <1>1, <2>1, <2>2, <2>3, <2>4
<1> HIDE DEF p
<1>4. \A i \in 1 .. Len(p) : p[i] = q[i]
  BY <1>2, <1>3
<1>5. p = q
  BY <1>2, <1>3, <1>4, SameItems
<1> QED
  BY <1>0, <1>5 DEF p, q

-----------------------------------------------------------------------------
(* RegisterRoutes.                                                         *)

\* The names of the layers.
GlobalNames == {"recover", "metrics", "logger"}
RouteNames  == {"auth", "role", "limit", "metricsAuth", "handler", "notFound"}

\* The layers of app.Use.
LEMMA GlobalLayers ==
    ASSUME NEW c
    PROVE  Global(c) = IF c.metricsEnabled THEN <<"recover", "metrics", "logger">>
                                           ELSE <<"recover", "logger">>
<1>1. "recover" \in GlobalNames /\ "metrics" \in GlobalNames /\ "logger" \in GlobalNames
  BY DEF GlobalNames
<1>2. CASE c.metricsEnabled
  <2>1. Global(c) = <<"recover">> \o <<"metrics">> \o <<"logger">>
    BY <1>2 DEF Global
  <2>2. <<"recover">> \o <<"metrics">> \o <<"logger">> = <<"recover", "metrics", "logger">>
    BY <1>1, JoinedThree
  <2> QED
    BY <1>2, <2>1, <2>2
<1>3. CASE ~c.metricsEnabled
  <2>1. Global(c) = <<"recover">> \o <<>> \o <<"logger">>
    BY <1>3 DEF Global
  <2>2. <<"recover">> \o <<>> = <<"recover">>
    BY <1>1, JoinedEmpty
  <2>3. <<"recover">> \o <<"logger">> = <<"recover", "logger">>
    BY <1>1, JoinedTwo
  <2> QED
    BY <1>3, <2>1, <2>2, <2>3
<1> QED
  BY <1>2, <1>3

\* The layers of each route, written out.
LayersOf(c, route) ==
    CASE route = "login"                 -> <<"limit", "handler">>
      [] route \in {"topup", "transfer"} -> <<"auth", "limit", "handler">>
      [] route = "read"                  -> <<"auth", "handler">>
      [] route = "admin"                 -> <<"auth", "role", "handler">>
      [] route = "unknownApi"            -> <<"auth", "notFound">>
      [] route = "metrics" /\ c.metricsEnabled -> <<"metricsAuth", "handler">>
      [] route = "open" \/ (route = "docs" /\ c.docs) -> <<"handler">>
      [] OTHER                           -> <<"notFound">>

\* They are what RegisterRoutes puts together.
LEMMA LayersOfRoutes ==
    ASSUME NEW c, NEW route \in Routes
    PROVE  RouteLayers(c, route) = LayersOf(c, route)
<1> DEFINE A == AuthLayer(route)
           R == AdminLayer(route)
           L == LimitLayer(route)
           M == MetricsLayer(route)
           H == <<"handler">>
<1>0. /\ "auth" \in RouteNames /\ "role" \in RouteNames /\ "limit" \in RouteNames
      /\ "metricsAuth" \in RouteNames /\ "handler" \in RouteNames
      /\ "notFound" \in RouteNames
  BY DEF RouteNames
<1>1. \A s \in Seq(RouteNames) : <<>> \o s = s /\ s \o <<>> = s
  BY JoinedEmpty
<1>2. \A a, b \in RouteNames : <<a>> \o <<b>> = <<a, b>>
  BY JoinedTwo
<1>3. \A a, b, d \in RouteNames : <<a>> \o <<b>> \o <<d>> = <<a, b, d>>
  BY JoinedThree
<1>4. /\ <<"auth">> \in Seq(RouteNames) /\ <<"limit">> \in Seq(RouteNames)
      /\ <<"handler">> \in Seq(RouteNames) /\ <<"notFound">> \in Seq(RouteNames)
      /\ <<"metricsAuth">> \in Seq(RouteNames) /\ <<>> \in Seq(RouteNames)
      /\ <<"role">> \in Seq(RouteNames)
  BY <1>0
<1>5. route \in {"login", "topup", "transfer", "read", "admin", "unknownApi", "open",
                 "metrics", "docs", "unknown"}
  BY DEF Routes, Scopes, Protected
<1>6. /\ A = IF route \in {"read", "topup", "transfer", "admin", "unknownApi"}
             THEN <<"auth">> ELSE <<>>
      /\ R = IF route = "admin" THEN <<"role">> ELSE <<>>
      /\ L = IF route \in {"login", "topup", "transfer"} THEN <<"limit">> ELSE <<>>
      /\ M = IF route = "metrics" THEN <<"metricsAuth">> ELSE <<>>
  BY DEF AuthLayer, AdminLayer, LimitLayer, MetricsLayer, Scopes, Protected
<1>7. Registered(c, route) => RouteLayers(c, route) = A \o R \o L \o M \o H
  BY DEF RouteLayers
<1>8. ~Registered(c, route) => RouteLayers(c, route) = A \o <<"notFound">>
  BY DEF RouteLayers
<1> HIDE DEF A, R, L, M
<1>10. CASE route = "login"
  <2>1. Registered(c, route)
    BY <1>10 DEF Registered
  <2>2. A = <<>> /\ R = <<>> /\ L = <<"limit">> /\ M = <<>>
    BY <1>6, <1>10
  <2>3. RouteLayers(c, route) = <<"limit", "handler">>
    BY <1>0, <1>1, <1>2, <1>4, <1>7, <2>1, <2>2
  <2> QED
    BY <1>10, <2>3 DEF LayersOf
<1>11. CASE route \in {"topup", "transfer"}
  <2>1. Registered(c, route)
    BY <1>11 DEF Registered
  <2>2. A = <<"auth">> /\ R = <<>> /\ L = <<"limit">> /\ M = <<>>
    BY <1>6, <1>11
  <2>3. A \o R \o L \o M = <<"auth">> \o <<"limit">>
    <3>1. A \o R = <<"auth">>
      BY <1>1, <1>4, <2>2
    <3>2. <<"auth">> \o <<"limit">> \in Seq(RouteNames)
      BY <1>4, Joined
    <3> QED
      BY <1>1, <2>2, <3>1, <3>2
  <2>4. RouteLayers(c, route) = <<"auth", "limit", "handler">>
    BY <1>0, <1>3, <1>7, <2>1, <2>3
  <2> QED
    BY <1>11, <2>4 DEF LayersOf
<1>12. CASE route = "read"
  <2>1. Registered(c, route)
    BY <1>12 DEF Registered
  <2>2. A = <<"auth">> /\ R = <<>> /\ L = <<>> /\ M = <<>>
    BY <1>6, <1>12
  <2>3. RouteLayers(c, route) = <<"auth", "handler">>
    BY <1>0, <1>1, <1>2, <1>4, <1>7, <2>1, <2>2
  <2> QED
    BY <1>12, <2>3 DEF LayersOf
<1>13. CASE route = "admin"
  <2>1. Registered(c, route)
    BY <1>13 DEF Registered
  <2>2. A = <<"auth">> /\ R = <<"role">> /\ L = <<>> /\ M = <<>>
    BY <1>6, <1>13
  <2>3. A \o R \o L \o M = <<"auth">> \o <<"role">>
    <3>1. <<"auth">> \o <<"role">> \in Seq(RouteNames)
      BY <1>4, Joined
    <3> QED
      BY <1>1, <2>2, <3>1
  <2>4. RouteLayers(c, route) = <<"auth", "role", "handler">>
    BY <1>0, <1>3, <1>7, <2>1, <2>3
  <2> QED
    BY <1>13, <2>4 DEF LayersOf
<1>14. CASE route = "unknownApi"
  <2>1. ~Registered(c, route)
    BY <1>14 DEF Registered
  <2>2. A = <<"auth">>
    BY <1>6, <1>14
  <2>3. RouteLayers(c, route) = <<"auth", "notFound">>
    BY <1>0, <1>2, <1>8, <2>1, <2>2
  <2> QED
    BY <1>14, <2>3 DEF LayersOf
<1>15. CASE route = "metrics" /\ c.metricsEnabled
  <2>1. Registered(c, route)
    BY <1>15 DEF Registered
  <2>2. A = <<>> /\ R = <<>> /\ L = <<>> /\ M = <<"metricsAuth">>
    BY <1>6, <1>15
  <2>3. RouteLayers(c, route) = <<"metricsAuth", "handler">>
    BY <1>0, <1>1, <1>2, <1>4, <1>7, <2>1, <2>2
  <2> QED
    BY <1>15, <2>3 DEF LayersOf
<1>16. CASE route = "open" \/ (route = "docs" /\ c.docs)
  <2>1. Registered(c, route)
    BY <1>16 DEF Registered
  <2>2. A = <<>> /\ R = <<>> /\ L = <<>> /\ M = <<>>
    BY <1>6, <1>16
  <2>3. RouteLayers(c, route) = <<"handler">>
    BY <1>1, <1>4, <1>7, <2>1, <2>2
  <2> QED
    BY <1>16, <2>3 DEF LayersOf
<1>17. CASE \/ route = "unknown"
            \/ route = "metrics" /\ ~c.metricsEnabled
            \/ route = "docs" /\ ~c.docs
  <2>1. ~Registered(c, route)
    BY <1>17 DEF Registered
  <2>2. A = <<>>
    BY <1>6, <1>17
  <2>3. RouteLayers(c, route) = <<"notFound">>
    BY <1>1, <1>4, <1>8, <2>1, <2>2
  <2> QED
    BY <1>17, <2>3 DEF LayersOf
<1>18. CASE route = "metrics"
  BY <1>15, <1>17, <1>18
<1>19. CASE route = "docs"
  BY <1>16, <1>17, <1>19
<1>20. CASE route = "open" \/ route = "unknown"
  <2>1. CASE route = "open"
    BY <1>16, <2>1
  <2>2. CASE route = "unknown"
    BY <1>17, <2>2
  <2> QED
    BY <1>20, <2>1, <2>2
<1>21. \/ route = "login" \/ route \in {"topup", "transfer"} \/ route = "read"
       \/ route = "admin" \/ route = "unknownApi" \/ route = "metrics"
       \/ route = "docs" \/ (route = "open" \/ route = "unknown")
  BY <1>5
<1> QED
  BY <1>10, <1>11, <1>12, <1>13, <1>14, <1>18, <1>19, <1>20, <1>21

\* What the order of a route's layers guarantees: the end of the chain is the handler or
\* the fallback; Auth comes first where it comes; whoever is behind a protected route has
\* passed it, behind /admin the role check too, behind /metrics the check of the token.
WellOrdered(t, c, route) ==
    /\ Len(t) \in 1 .. 3
    /\ \A i \in 1 .. Len(t) :
         /\ t[i] \in RouteNames
         /\ t[i] \in {"handler", "notFound"} <=> i = Len(t)
         /\ t[i] = "auth" => i = 1 /\ route \in Protected
         /\ t[i] \in {"limit", "handler"} /\ route \in Protected => 1 < i /\ t[1] = "auth"
         /\ t[i] = "limit" => i = Len(t) - 1 /\ route \in Scopes
         /\ t[i] = "handler" /\ route = "admin" => 2 < i /\ t[2] = "role"
         /\ t[i] = "handler" /\ route = "metrics" =>
              1 < i /\ t[1] = "metricsAuth" /\ c.metricsEnabled

\* Every route's layers are in such an order.
LEMMA RoutesWellOrdered ==
    ASSUME NEW c \in Configs, NEW route \in Routes
    PROVE  /\ RouteLayers(c, route) \in Seq(RouteNames)
           /\ WellOrdered(RouteLayers(c, route), c, route)
<1> DEFINE t == RouteLayers(c, route)
           Goal == t \in Seq(RouteNames) /\ WellOrdered(t, c, route)
<1>0. t = LayersOf(c, route)
  BY LayersOfRoutes
<1>1. route \in {"login", "topup", "transfer", "read", "admin", "unknownApi", "open",
                 "metrics", "docs", "unknown"}
  BY DEF Routes, Scopes, Protected
<1>2. /\ <<"limit", "handler">> \in Seq(RouteNames)
      /\ <<"auth", "limit", "handler">> \in Seq(RouteNames)
      /\ <<"auth", "handler">> \in Seq(RouteNames)
      /\ <<"auth", "role", "handler">> \in Seq(RouteNames)
      /\ <<"auth", "notFound">> \in Seq(RouteNames)
      /\ <<"metricsAuth", "handler">> \in Seq(RouteNames)
      /\ <<"handler">> \in Seq(RouteNames)
      /\ <<"notFound">> \in Seq(RouteNames)
  BY DEF RouteNames
<1> HIDE DEF t
<1>3. ASSUME route = "login" PROVE Goal
  <2>1. t = <<"limit", "handler">>
    BY <1>0, <1>3 DEF LayersOf
  <2> QED
    BY <1>2, <1>3, <2>1 DEF WellOrdered, RouteNames, Scopes, Protected
<1>4. ASSUME route \in {"topup", "transfer"} PROVE Goal
  <2>1. t = <<"auth", "limit", "handler">>
    BY <1>0, <1>4 DEF LayersOf
  <2>2. Len(t) = 3 /\ t[1] = "auth" /\ t[2] = "limit" /\ t[3] = "handler"
    BY <2>1
  <2>3. t \in Seq(RouteNames)
    BY <1>2, <2>1
  <2> QED
    BY <1>4, <2>2, <2>3 DEF WellOrdered, RouteNames, Scopes, Protected
<1>5. ASSUME route = "read" PROVE Goal
  <2>1. t = <<"auth", "handler">>
    BY <1>0, <1>5 DEF LayersOf
  <2> QED
    BY <1>2, <1>5, <2>1 DEF WellOrdered, RouteNames, Scopes, Protected
<1>6. ASSUME route = "admin" PROVE Goal
  <2>1. t = <<"auth", "role", "handler">>
    BY <1>0, <1>6 DEF LayersOf
  <2>2. Len(t) = 3 /\ t[1] = "auth" /\ t[2] = "role" /\ t[3] = "handler"
    BY <2>1
  <2>3. t \in Seq(RouteNames)
    BY <1>2, <2>1
  <2> QED
    BY <1>6, <2>2, <2>3 DEF WellOrdered, RouteNames, Scopes, Protected
<1>7. ASSUME route = "unknownApi" PROVE Goal
  <2>1. t = <<"auth", "notFound">>
    BY <1>0, <1>7 DEF LayersOf
  <2> QED
    BY <1>2, <1>7, <2>1 DEF WellOrdered, RouteNames, Scopes, Protected
<1>8. ASSUME route = "metrics", c.metricsEnabled PROVE Goal
  <2>1. t = <<"metricsAuth", "handler">>
    BY <1>0, <1>8 DEF LayersOf
  <2> QED
    BY <1>2, <1>8, <2>1 DEF WellOrdered, RouteNames, Scopes, Protected
<1>9. ASSUME t = <<"notFound">> PROVE Goal
  BY <1>2, <1>9 DEF WellOrdered, RouteNames
<1>10. ASSUME t = <<"handler">>, route \in {"open", "docs"} PROVE Goal
  BY <1>2, <1>10 DEF WellOrdered, RouteNames, Protected, Scopes
<1>11. ASSUME route = "metrics", ~c.metricsEnabled PROVE t = <<"notFound">>
  BY <1>0, <1>11 DEF LayersOf
<1>12. ASSUME route = "open" PROVE t = <<"handler">>
  BY <1>0, <1>12 DEF LayersOf
<1>13. ASSUME route = "unknown" PROVE t = <<"notFound">>
  BY <1>0, <1>13 DEF LayersOf
<1>14. ASSUME route = "docs" PROVE t = <<"notFound">> \/ t = <<"handler">>
  BY <1>0, <1>14 DEF LayersOf
<1>15. Goal
  <2> HIDE DEF Goal
  <2>1. CASE route \in {"metrics", "docs", "open", "unknown"}
    BY <1>8, <1>9, <1>10, <1>11, <1>12, <1>13, <1>14, <2>1
  <2>2. CASE route \notin {"metrics", "docs", "open", "unknown"}
    BY <1>1, <1>3, <1>4, <1>5, <1>6, <1>7, <2>2
  <2> QED
    BY <2>1, <2>2
<1> QED
  BY <1>15 DEF t

\* The whole chain of a request: the global layers, and behind them the route's.
ChainOrder(ch, g, c, route) ==
    /\ g \in 2 .. 3 /\ Len(ch) \in Nat /\ g < Len(ch)
    /\ ch[1] = "recover"
    /\ \E i \in 1 .. g : ch[i] = "logger"
    /\ c.metricsEnabled <=> \E i \in 1 .. g : ch[i] = "metrics"
    /\ \A i \in 1 .. g : ch[i] \in GlobalNames
    /\ \A i \in g + 1 .. Len(ch) :
         /\ ch[i] \in RouteNames
         /\ ch[i] \in {"handler", "notFound"} <=> i = Len(ch)
         /\ ch[i] = "auth" => i = g + 1 /\ route \in Protected
         /\ ch[i] \in {"limit", "handler"} /\ route \in Protected =>
              g + 1 < i /\ ch[g + 1] = "auth"
         /\ ch[i] = "limit" => i = Len(ch) - 1 /\ route \in Scopes
         /\ ch[i] = "handler" /\ route = "admin" => g + 2 < i /\ ch[g + 2] = "role"
         /\ ch[i] = "handler" /\ route = "metrics" =>
              g + 1 < i /\ ch[g + 1] = "metricsAuth" /\ c.metricsEnabled

\* Every chain is in this order.
LEMMA ChainFacts ==
    ASSUME NEW c \in Configs, NEW route \in Routes
    PROVE  ChainOrder(Chains[c][route], Len(Global(c)), c, route)
<1> DEFINE G == Global(c)
           t == RouteLayers(c, route)
           ch == Chains[c][route]
           g == Len(G)
<1>0. ch = G \o t
  BY DEF Chains
<1>1. G = IF c.metricsEnabled THEN <<"recover", "metrics", "logger">>
                              ELSE <<"recover", "logger">>
  BY GlobalLayers
<1>2. t \in Seq(RouteNames) /\ WellOrdered(t, c, route)
  BY RoutesWellOrdered
<1> DEFINE N == GlobalNames \cup RouteNames
<1>3. G \in Seq(N) /\ t \in Seq(N)
  <2>1. G \in Seq(N)
    <3>1. CASE c.metricsEnabled
      <4>1. G = <<"recover", "metrics", "logger">>
        BY <1>1, <3>1
      <4> HIDE DEF G
      <4> QED
        BY <4>1 DEF GlobalNames
    <3>2. CASE ~c.metricsEnabled
      <4>1. G = <<"recover", "logger">>
        BY <1>1, <3>2
      <4> HIDE DEF G
      <4> QED
        BY <4>1 DEF GlobalNames
    <3> QED
      BY <3>1, <3>2
  <2>2. t \in Seq(N)
    <3> HIDE DEF t
    <3> QED
      BY <1>2
  <2> QED
    BY <2>1, <2>2
<1>4. /\ g \in 2 .. 3 /\ G[1] = "recover"
      /\ \A i \in 1 .. g : G[i] \in GlobalNames
      /\ \E i \in 1 .. g : G[i] = "logger"
      /\ c.metricsEnabled <=> \E i \in 1 .. g : G[i] = "metrics"
  <2>1. CASE c.metricsEnabled
    <3>1. G = <<"recover", "metrics", "logger">>
      BY <1>1, <2>1
    <3> HIDE DEF G
    <3>2. Len(G) = 3 /\ G[1] = "recover" /\ G[2] = "metrics" /\ G[3] = "logger"
      BY <3>1
    <3> QED
      BY <2>1, <3>2 DEF GlobalNames
  <2>2. CASE ~c.metricsEnabled
    <3>1. G = <<"recover", "logger">>
      BY <1>1, <2>2
    <3> HIDE DEF G
    <3>2. Len(G) = 2 /\ G[1] = "recover" /\ G[2] = "logger"
      BY <3>1
    <3> QED
      BY <2>2, <3>2 DEF GlobalNames
  <2> QED
    BY <2>1, <2>2
<1> HIDE DEF G, t, ch, N
<1>5. /\ Len(ch) = g + Len(t) /\ Len(t) \in Nat
      /\ \A i \in 1 .. g : ch[i] = G[i]
      /\ \A i \in 1 .. Len(t) : ch[g + i] = t[i]
  BY <1>0, <1>3, Joined
<1>6. Len(t) \in 1 .. 3
  BY <1>2 DEF WellOrdered
<1> HIDE DEF g
<1>7. ASSUME NEW i \in g + 1 .. Len(ch)
      PROVE  /\ i - g \in 1 .. Len(t) /\ ch[i] = t[i - g] /\ ch[g + 1] = t[1]
             /\ 2 < i - g => ch[g + 2] = t[2]
             /\ i = Len(ch) <=> i - g = Len(t)
             /\ i = Len(ch) - 1 <=> i - g = Len(t) - 1
             /\ i = g + 1 <=> i - g = 1
             /\ g + 1 < i <=> 1 < i - g
             /\ g + 2 < i <=> 2 < i - g
  <2>1. i - g \in 1 .. Len(t) /\ g + (i - g) = i
    BY <1>4, <1>5, <1>6
  <2>2. ch[g + (i - g)] = t[i - g]
    BY <1>5, <2>1
  <2>3. 1 \in 1 .. Len(t) /\ (2 < i - g => 2 \in 1 .. Len(t))
    BY <1>4, <1>6, <2>1
  <2>4. ch[g + 1] = t[1] /\ (2 < i - g => ch[g + 2] = t[2])
    BY <1>5, <2>3
  <2> QED
    BY <1>4, <1>5, <1>6, <2>1, <2>2, <2>4
<1>8. ASSUME NEW i \in g + 1 .. Len(ch)
      PROVE  /\ ch[i] \in RouteNames
             /\ ch[i] \in {"handler", "notFound"} <=> i = Len(ch)
             /\ ch[i] = "auth" => i = g + 1 /\ route \in Protected
             /\ ch[i] \in {"limit", "handler"} /\ route \in Protected =>
                  g + 1 < i /\ ch[g + 1] = "auth"
             /\ ch[i] = "limit" => i = Len(ch) - 1 /\ route \in Scopes
             /\ ch[i] = "handler" /\ route = "admin" => g + 2 < i /\ ch[g + 2] = "role"
             /\ ch[i] = "handler" /\ route = "metrics" =>
                  g + 1 < i /\ ch[g + 1] = "metricsAuth" /\ c.metricsEnabled
  <2> DEFINE k == i - g
  <2>1. /\ t[k] \in RouteNames
        /\ t[k] \in {"handler", "notFound"} <=> k = Len(t)
        /\ t[k] = "auth" => k = 1 /\ route \in Protected
        /\ t[k] \in {"limit", "handler"} /\ route \in Protected => 1 < k /\ t[1] = "auth"
        /\ t[k] = "limit" => k = Len(t) - 1 /\ route \in Scopes
        /\ t[k] = "handler" /\ route = "admin" => 2 < k /\ t[2] = "role"
        /\ t[k] = "handler" /\ route = "metrics" =>
             1 < k /\ t[1] = "metricsAuth" /\ c.metricsEnabled
    BY <1>2, <1>7 DEF WellOrdered
  <2>2. /\ ch[i] = t[k] /\ ch[g + 1] = t[1]
        /\ 2 < k => ch[g + 2] = t[2]
        /\ i = Len(ch) <=> k = Len(t)
        /\ i = Len(ch) - 1 <=> k = Len(t) - 1
        /\ i = g + 1 <=> k = 1
        /\ g + 1 < i <=> 1 < k
        /\ g + 2 < i <=> 2 < k
    BY <1>7
  <2> HIDE DEF k
  <2> QED
    BY <2>1, <2>2
<1>9. /\ Len(ch) \in Nat /\ g < Len(ch)
      /\ ch[1] = "recover"
      /\ \E i \in 1 .. g : ch[i] = "logger"
      /\ c.metricsEnabled <=> \E i \in 1 .. g : ch[i] = "metrics"
      /\ \A i \in 1 .. g : ch[i] \in GlobalNames
  <2>0. g \in 2 .. 3 /\ Len(ch) = g + Len(t)
    BY <1>4, <1>5
  <2>1. Len(ch) \in Nat /\ g < Len(ch) /\ 1 \in 1 .. g
    <3>1. g \in Int /\ Len(t) \in Int /\ 2 <= g /\ 1 <= Len(t)
      BY <1>6, <2>0
    <3>2. g + Len(t) \in Nat /\ g < g + Len(t)
      BY <3>1
    <3>3. 1 \in 1 .. g
      BY <3>1
    <3> QED
      BY <2>0, <3>2, <3>3
  <2>2. ch[1] = "recover" /\ \A i \in 1 .. g : ch[i] \in GlobalNames
    BY <1>4, <1>5, <2>1
  <2>3. \E i \in 1 .. g : ch[i] = "logger"
    BY <1>4, <1>5
  <2>4. c.metricsEnabled <=> \E i \in 1 .. g : ch[i] = "metrics"
    <3>1. (\E i \in 1 .. g : ch[i] = "metrics") <=> \E i \in 1 .. g : G[i] = "metrics"
      BY <1>5
    <3>2. c.metricsEnabled <=> \E i \in 1 .. g : G[i] = "metrics"
      BY <1>4
    <3> QED
      BY <3>1, <3>2, Zenon
  <2> QED
    BY <2>1, <2>2, <2>3, <2>4
<1>10. \A i \in g + 1 .. Len(ch) :
         /\ ch[i] \in RouteNames
         /\ ch[i] \in {"handler", "notFound"} <=> i = Len(ch)
         /\ ch[i] = "auth" => i = g + 1 /\ route \in Protected
         /\ ch[i] \in {"limit", "handler"} /\ route \in Protected =>
              g + 1 < i /\ ch[g + 1] = "auth"
         /\ ch[i] = "limit" => i = Len(ch) - 1 /\ route \in Scopes
         /\ ch[i] = "handler" /\ route = "admin" => g + 2 < i /\ ch[g + 2] = "role"
         /\ ch[i] = "handler" /\ route = "metrics" =>
              g + 1 < i /\ ch[g + 1] = "metricsAuth" /\ c.metricsEnabled
  BY <1>8
<1>11. g \in 2 .. 3
  BY <1>4
<1> QED
  BY <1>9, <1>10, <1>11, Zenon DEF ch, g, G, ChainOrder

-----------------------------------------------------------------------------
(* The configuration and the tokens.                                       *)

\* What a configuration the process serves with has.
LEMMA ConfigFacts ==
    ASSUME NEW c \in Configs
    PROVE  /\ c.jwtExpiry \in Int
           /\ \A scope \in Scopes : c.limit[scope] \in Int
           /\ c.metricsEnabled /\ ~IsDevelopment(c) => c.metricsToken # Unset
<1>1. PICK e \in Environments : c = Load(e)
  BY DEF Configs
<1>2. Validate(c)
  BY DEF Configs
<1>4. /\ e.jwtExpiry \in Int \cup {Unset, Garbage}
      /\ e.limitLogin \in Int \cup {Unset, Garbage}
      /\ e.limitTopup \in Int \cup {Unset, Garbage}
      /\ e.limitTransfer \in Int \cup {Unset, Garbage}
  BY EnvironmentAssumption
<1>5. c.jwtExpiry \in Int
  <2>1. c.jwtExpiry = GetEnvAs(e.jwtExpiry, 60)
    BY <1>1 DEF Load
  <2> QED
    BY <1>4, <2>1 DEF GetEnvAs
<1>6. \A scope \in Scopes : c.limit[scope] \in Int
  <2>1. /\ c.limit["login"] = GetEnvAs(e.limitLogin, 10)
        /\ c.limit["topup"] = GetEnvAs(e.limitTopup, 20)
        /\ c.limit["transfer"] = GetEnvAs(e.limitTransfer, 20)
    BY <1>1 DEF Load
  <2>2. c.limit["login"] \in Int /\ c.limit["topup"] \in Int /\ c.limit["transfer"] \in Int
    BY <1>4, <2>1 DEF GetEnvAs
  <2> QED
    BY <2>2 DEF Scopes
<1>7. c.metricsEnabled /\ ~IsDevelopment(c) => c.metricsToken # Unset
  BY <1>2 DEF Validate, Blank
<1> QED
  BY <1>5, <1>6, <1>7

\* Cutting to the second loses less than a second.
LEMMA NumericDateFacts ==
    ASSUME NEW t \in Int
    PROVE  /\ NumericDate(t) \in Int
           /\ NumericDate(t) <= t
           /\ t - Second < NumericDate(t)
  BY PipelineAssumption DEF NumericDate

\* What a token of this process holds.
Genuine(t) ==
    /\ t.kind = "jwt"
    /\ t.user \in Users
    /\ t.role = IF t.user \in Admins THEN "ADMIN" ELSE "USER"
    /\ t.exp \in Int /\ t.told \in Int
    /\ t.exp <= t.told
    /\ t.told - Second < t.exp

\* GenerateToken makes such tokens.
LEMMA GenerateTokenFacts ==
    ASSUME NEW c \in Configs, NEW u \in Users, NEW t \in Int
    PROVE  Genuine(GenerateToken(c, u, t))
<1> DEFINE e == t + c.jwtExpiry * Second
<1>1. e \in Int
  BY ConfigFacts, PipelineAssumption
<1>2. /\ NumericDate(e) \in Int
      /\ NumericDate(e) <= e
      /\ e - Second < NumericDate(e)
  BY <1>1, NumericDateFacts
<1> DEFINE k == GenerateToken(c, u, t)
<1>3. /\ k.kind = "jwt" /\ k.user = u
      /\ k.role = IF u \in Admins THEN "ADMIN" ELSE "USER"
      /\ k.exp = NumericDate(e) /\ k.told = e
  BY DEF GenerateToken
<1> HIDE DEF k, e
<1> QED
  BY <1>1, <1>2, <1>3 DEF Genuine, k

\* One more in a bag.
LEMMA BagFacts ==
    ASSUME NEW bag, IsABag(bag), NEW x
    PROVE  /\ IsABag(bag (+) SetToBag({x}))
           /\ \A e : /\ Copies(e, bag) \in Nat
                     /\ Copies(e, bag (+) SetToBag({x})) =
                          IF e = x THEN Copies(e, bag) + 1 ELSE Copies(e, bag)
<1> DEFINE one == SetToBag({x})
           more == bag (+) one
<1>1. bag = [e \in DOMAIN bag |-> bag[e]] /\ \A e \in DOMAIN bag : bag[e] \in Nat /\ bag[e] > 0
  BY DEF IsABag
<1>2. DOMAIN one = {x} /\ one[x] = 1
  BY DEF SetToBag
<1> HIDE DEF one
<1>3. more = [e \in (DOMAIN bag) \cup {x} |->
                (IF e \in DOMAIN bag THEN bag[e] ELSE 0) + (IF e \in {x} THEN one[e] ELSE 0)]
  BY <1>2 DEF (+)
<1> HIDE DEF more
<1>4. ASSUME NEW e
      PROVE  /\ Copies(e, bag) \in Nat
             /\ Copies(e, more) = IF e = x THEN Copies(e, bag) + 1 ELSE Copies(e, bag)
  <2>1. Copies(e, bag) = IF e \in DOMAIN bag THEN bag[e] ELSE 0
    BY DEF Copies, BagIn, BagToSet
  <2>2. Copies(e, more) = IF e \in (DOMAIN bag) \cup {x} THEN more[e] ELSE 0
    BY <1>3 DEF Copies, BagIn, BagToSet
  <2>3. CASE e = x
    <3>1. more[e] = (IF e \in DOMAIN bag THEN bag[e] ELSE 0) + 1
      BY <1>2, <1>3, <2>3
    <3> QED
      BY <1>1, <2>1, <2>2, <2>3, <3>1
  <2>4. CASE e # x
    <3>1. e \in DOMAIN bag => more[e] = bag[e]
      BY <1>1, <1>3, <2>4
    <3> QED
      BY <1>1, <2>1, <2>2, <2>4, <3>1
  <2> QED
    BY <2>3, <2>4
<1>5. IsABag(more)
  <2>1. \A e \in (DOMAIN bag) \cup {x} : more[e] \in Nat /\ more[e] > 0
    BY <1>1, <1>2, <1>3
  <2>2. more \in [(DOMAIN bag) \cup {x} -> {n \in Nat : n > 0}]
    BY <1>3, <2>1
  <2> QED
    BY <1>3, <2>2 DEF IsABag
<1> QED
  BY <1>4, <1>5 DEF more, one

-----------------------------------------------------------------------------
(* Where a request can be.                                                 *)

ShapeInv ==
    /\ cfg \in Configs
    /\ now \in 0 .. MaxTime
    /\ \A t \in tokens : Genuine(t)
    /\ DOMAIN req = Requests
    /\ \A r \in Requests : req[r].route \in Routes
    /\ at \in [Requests -> Nat]
    /\ locals \in [Requests -> [user : Users \cup {None}, role : {"", "ADMIN", "USER"}]]
    /\ judged \in [Requests -> 0 .. MaxTime]
    /\ reply \in [Requests -> {0} \cup Statuses]
    /\ DOMAIN logged = Requests
    /\ panicked \in SUBSET Requests
    /\ IsABag(spent) /\ IsABag(counted) /\ IsABag(limited)

\* Auth let the request pass for the user of its token.
Entitled(r) ==
    /\ req[r].header \in tokens
    /\ judged[r] < req[r].header.exp
    /\ locals[r].user = req[r].header.user
    /\ locals[r].role = req[r].header.role

\* What holds of a request, wherever it is.  One that has come in is behind the global
\* layers; what it passed let it pass; what refused it had a reason; a panic is answered;
\* the log line tells the answer and the user.
RequestInv(r) ==
    /\ at[r] = 0 => reply[r] = 0 /\ r \notin panicked /\ locals[r].user = None
    /\ at[r] # 0 => at[r] \in Len(Global(cfg)) + 1 .. Len(Chain(r))
    /\ r \in panicked => reply[r] # 0
    /\ at[r] # 0 /\ req[r].route \in Protected =>
         req[r].header \in tokens \cup {Bare("none"), Bare("foreign")}
    /\ req[r].route \notin Protected => locals[r].user = None
    /\ \A i \in Len(Global(cfg)) + 1 .. at[r] - 1 :
         /\ Chain(r)[i] = "auth" => Entitled(r)
         /\ Chain(r)[i] = "role" => locals[r].role = "ADMIN"
         /\ Chain(r)[i] = "metricsAuth" =>
              cfg.metricsToken = Unset \/ req[r].header.kind = "metricsToken"
    /\ Answered(r) /\ Layer(r) = "auth" =>
         req[r].header.kind # "jwt" \/ ~ (judged[r] < req[r].header.exp)
    /\ Answered(r) /\ r \notin panicked =>
         logged[r].status = reply[r] /\ logged[r].user = locals[r].user

\* The requests the limiter has counted.
Charged ==
    {q \in Requests : /\ at[q] # 0 /\ req[q].route \in Scopes
                      /\ \/ at[q] = Len(Chain(q))
                         \/ Layer(q) = "limit" /\ Answered(q)}

\* Those of them that the limiter counted under key k.
ChargedTo(k) == {q \in Charged : <<req[q].route, Caller(q)>> = k}

\* The requests of the caller of r to the same endpoint.
Own(r) == {q \in Requests : /\ at[q] > 0
                            /\ req[q].route = req[r].route
                            /\ Caller(q) = Caller(r)}

\* The limiter's counters count no more than the requests of the caller, and who was
\* turned away exceeded the limit.
SpentInv ==
    /\ \A k : Copies(k, spent) <= Cardinality(ChargedTo(k))
    /\ \A r \in Requests : reply[r] = 429 =>
         req[r].route \in Scopes /\ Cardinality(Own(r)) > cfg.limit[req[r].route]

\* The requests that were answered otherwise than by recover.
Done == {q \in Requests : Answered(q) /\ q \notin panicked}

Told(x)   == {q \in Done : <<Label(q), reply[q]>> = x}
Denied(x) == {q \in Done : req[q].route = x /\ reply[q] = 429}

\* The counters are the numbers of those answers.
CountedInv ==
    /\ cfg.metricsEnabled => \A x : Copies(x, counted) = Cardinality(Told(x))
    /\ \A x : Copies(x, limited) = Cardinality(Denied(x))

\* The inductive invariant.
PipelineInv ==
    ShapeInv /\ (\A r \in Requests : RequestInv(r)) /\ SpentInv /\ CountedInv

\* The request goes on to the next layer.
Passing(r, l) ==
    /\ In(r, l) /\ l \in {"auth", "role", "metricsAuth", "limit"}
    /\ at' = [at EXCEPT ![r] = @ + 1]
    /\ UNCHANGED <<cfg, now, req, tokens, reply, panicked, logged, counted, limited>>
    /\ IF l = "auth"
       THEN /\ Accepted(req[r].header)
            /\ locals' = [locals EXCEPT ![r] = [user |-> req[r].header.user,
                                                role |-> req[r].header.role]]
            /\ judged' = [judged EXCEPT ![r] = now]
       ELSE UNCHANGED <<locals, judged>>
    /\ l = "role" => locals[r].role = "ADMIN"
    /\ l = "metricsAuth" => cfg.metricsToken = Unset \/ req[r].header.kind = "metricsToken"
    /\ \/ spent' = spent
       \/ l = "limit" /\ spent' = spent (+) SetToBag({Key(r)})

\* The request is answered from layer l with outcome o.
Returning(r, l, o) ==
    /\ In(r, l) /\ Return(r, o)
    /\ IF l = "auth" THEN ~Accepted(req[r].header) /\ judged' = [judged EXCEPT ![r] = now]
                     ELSE UNCHANGED judged
    /\ IF o.status = 429
       THEN /\ l = "limit"
            /\ spent' = spent (+) SetToBag({Key(r)})
            /\ limited' = limited (+) SetToBag({req[r].route})
            /\ ~ (Copies(Key(r), spent') <= cfg.limit[req[r].route])
       ELSE UNCHANGED <<spent, limited>>
    /\ \/ tokens' = tokens
       \/ l = "handler" /\ \E u \in Users : tokens' = tokens \cup {GenerateToken(cfg, u, now)}

\* The outcomes of the layers.
Outcomes ==
    {<<"auth", Outcome("app", 401)>>, <<"metricsAuth", Outcome("app", 401)>>,
     <<"role", Outcome("app", 403)>>, <<"limit", Outcome("written", 429)>>,
     <<"handler", Outcome("written", 200)>>, <<"handler", Outcome("written", 400)>>,
     <<"handler", Outcome("panic", 0)>>, <<"handler", Outcome("fiber", 404)>>,
     <<"notFound", Outcome("fiber", 404)>>}

\* The request comes in.
Arriving(r) ==
    \E route \in Routes : \E address \in AddressesFor(route), header \in HeadersFor(route) :
        Receive(r, route, address, header)

\* Nothing happens to a request.
Quiet ==
    /\ \/ now' = now
       \/ now < MaxTime /\ now' = now + 1
    /\ UNCHANGED <<cfg, tokens, req, at, locals, judged, spent, reply, panicked, logged,
                   counted, limited>>

\* Auth and RequireRole pass the request on or refuse it.
LEMMA AuthKinds ==
    ASSUME NEW r \in Requests, Auth(r) \/ RequireRole(r) \/ ProtectMetrics(r)
    PROVE  \/ \E l \in RouteNames : Passing(r, l)
           \/ \E lo \in Outcomes : Returning(r, lo[1], lo[2])
<1>1. CASE Auth(r) /\ Accepted(req[r].header)
  <2>1. Passing(r, "auth")
    BY <1>1 DEF Auth, Pass, Passing
  <2> QED
    BY <2>1 DEF RouteNames
<1>2. CASE Auth(r) /\ ~Accepted(req[r].header)
  <2>1. Returning(r, "auth", Outcome("app", 401))
    BY <1>2 DEF Auth, Returning, Outcome
  <2> QED
    BY <2>1 DEF Outcomes
<1>3. CASE RequireRole(r) /\ locals[r].role = "ADMIN"
  <2>1. Passing(r, "role")
    BY <1>3 DEF RequireRole, Pass, Passing
  <2> QED
    BY <2>1 DEF RouteNames
<1>4. CASE RequireRole(r) /\ locals[r].role # "ADMIN"
  <2>1. Returning(r, "role", Outcome("app", 403))
    BY <1>4 DEF RequireRole, Returning, Outcome
  <2> QED
    BY <2>1 DEF Outcomes
<1> DEFINE open == cfg.metricsToken = Unset \/ req[r].header.kind = "metricsToken"
<1>5. CASE ProtectMetrics(r) /\ open
  <2>1. Passing(r, "metricsAuth")
    BY <1>5 DEF ProtectMetrics, Pass, Passing
  <2> QED
    BY <2>1 DEF RouteNames
<1>6. CASE ProtectMetrics(r) /\ ~open
  <2>1. Returning(r, "metricsAuth", Outcome("app", 401))
    BY <1>6 DEF ProtectMetrics, Returning, Outcome
  <2> QED
    BY <2>1 DEF Outcomes
<1> QED
  BY <1>1, <1>2, <1>3, <1>4, <1>5, <1>6

\* So does the rate limiter.
LEMMA LimitKinds ==
    ASSUME NEW r \in Requests, RateLimit(r) \/ RateLimitFails(r)
    PROVE  \/ \E l \in RouteNames : Passing(r, l)
           \/ \E lo \in Outcomes : Returning(r, lo[1], lo[2])
<1> DEFINE taken == spent (+) SetToBag({Key(r)})
           room == Copies(Key(r), taken) <= cfg.limit[req[r].route]
           off == cfg.limit[req[r].route] <= 0
<1>1. CASE RateLimit(r) /\ off
  <2>1. Passing(r, "limit")
    BY <1>1 DEF RateLimit, Pass, Passing
  <2> QED
    BY <2>1 DEF RouteNames
<1>2. CASE RateLimit(r) /\ ~off /\ room
  <2>1. Passing(r, "limit")
    BY <1>2 DEF RateLimit, Pass, Passing
  <2> QED
    BY <2>1 DEF RouteNames
<1>3. CASE RateLimit(r) /\ ~off /\ ~room
  <2>1. Returning(r, "limit", Outcome("written", 429))
    BY <1>3 DEF RateLimit, Returning, Outcome, IncrementRateLimitExceeded
  <2> QED
    BY <2>1 DEF Outcomes
<1>4. CASE RateLimitFails(r)
  <2>1. spent' = spent \/ spent' = taken
    BY <1>4 DEF RateLimitFails
  <2>2. Passing(r, "limit")
    BY <1>4, <2>1 DEF RateLimitFails, Pass, Passing
  <2> QED
    BY <2>2 DEF RouteNames
<1> QED
  BY <1>1, <1>2, <1>3, <1>4

\* The handlers and the fallback answer.
LEMMA HandlerKinds ==
    ASSUME NEW r \in Requests,
           (\E status \in {200, 400} : Handle(r, status)) \/ Panic(r) \/ NotFound(r)
    PROVE  \E lo \in Outcomes : Returning(r, lo[1], lo[2])
<1>1. ASSUME NEW status \in {200, 400}, Handle(r, status)
      PROVE  Returning(r, "handler", Outcome("written", status))
  BY <1>1 DEF Handle, Returning, Outcome
<1>2. CASE Panic(r)
  <2>1. Returning(r, "handler", Outcome("panic", 0))
    BY <1>2 DEF Panic, Returning, Outcome
  <2> QED
    BY <2>1 DEF Outcomes
<1>3. CASE NotFound(r)
  <2>1. \/ Returning(r, "handler", Outcome("fiber", 404))
        \/ Returning(r, "notFound", Outcome("fiber", 404))
    BY <1>3 DEF NotFound, Returning, Outcome
  <2> QED
    BY <2>1 DEF Outcomes
<1> QED
  BY <1>1, <1>2, <1>3 DEF Outcomes

\* The kinds of steps.
LEMMA StepKinds ==
    ASSUME ShapeInv, [Next]_vars
    PROVE  \/ Quiet
           \/ \E r \in Requests : \/ Arriving(r)
                                  \/ \E l \in RouteNames : Passing(r, l)
                                  \/ \E lo \in Outcomes : Returning(r, lo[1], lo[2])
<1>1. CASE UNCHANGED vars
  BY <1>1 DEF vars, Quiet
<1>2. CASE Tick
  BY <1>2 DEF Tick, Quiet
<1>3. ASSUME NEW r \in Requests, Step(r) \/ Panic(r)
      PROVE  \/ \E l \in RouteNames : Passing(r, l)
             \/ \E lo \in Outcomes : Returning(r, lo[1], lo[2])
  BY <1>3, AuthKinds, LimitKinds, HandlerKinds DEF Step
<1>4. ASSUME NEW r \in Requests,
             \E route \in Routes :
               \E address \in AddressesFor(route), header \in HeadersFor(route) :
                 Receive(r, route, address, header)
      PROVE  Arriving(r)
  BY <1>4 DEF Arriving
<1> QED
  BY <1>1, <1>2, <1>3, <1>4 DEF Next

\* Nothing happens to request q.
Still(q) ==
    /\ req'[q] = req[q] /\ at'[q] = at[q] /\ locals'[q] = locals[q]
    /\ judged'[q] = judged[q] /\ reply'[q] = reply[q] /\ logged'[q] = logged[q]
    /\ q \in panicked' <=> q \in panicked

\* Then it stays where it is, and what held of it holds.
LEMMA StillKeeps ==
    ASSUME NEW q \in Requests, cfg' = cfg, tokens \subseteq tokens', Still(q)
    PROVE  /\ Chain(q)' = Chain(q) /\ Layer(q)' = Layer(q) /\ Label(q)' = Label(q)
           /\ Caller(q)' = Caller(q) /\ Answered(q)' = Answered(q)
           /\ RequestInv(q) => RequestInv(q)'
<1>1. Chain(q)' = Chain(q)
  BY DEF Chain, Still
<1>2. Layer(q)' = Layer(q)
  BY <1>1 DEF Layer, Still
<1>3. Label(q)' = Label(q)
  BY <1>2 DEF Label, Still
<1>4. Caller(q)' = Caller(q) /\ Answered(q)' = Answered(q)
  BY DEF Caller, Still, Answered
<1>5. Entitled(q) => Entitled(q)'
  BY DEF Entitled, Still
<1>6. RequestInv(q) => RequestInv(q)'
  <2> HAVE RequestInv(q)
  <2>1. \A i \in Len(Global(cfg')) + 1 .. at'[q] - 1 :
         /\ Chain(q)'[i] = "auth" => Entitled(q)'
         /\ Chain(q)'[i] = "role" => locals'[q].role = "ADMIN"
         /\ Chain(q)'[i] = "metricsAuth" =>
              cfg'.metricsToken = Unset \/ req'[q].header.kind = "metricsToken"
    BY <1>1, <1>5 DEF RequestInv, Still
  <2>2. /\ at'[q] = 0 => reply'[q] = 0 /\ q \notin panicked' /\ locals'[q].user = None
        /\ at'[q] # 0 => at'[q] \in Len(Global(cfg')) + 1 .. Len(Chain(q)')
        /\ q \in panicked' => reply'[q] # 0
    BY <1>1 DEF RequestInv, Still
  <2>3. /\ at'[q] # 0 /\ req'[q].route \in Protected =>
             req'[q].header \in tokens' \cup {Bare("none"), Bare("foreign")}
        /\ req'[q].route \notin Protected => locals'[q].user = None
    BY DEF RequestInv, Still
  <2>4. /\ Answered(q)' /\ Layer(q)' = "auth" =>
             req'[q].header.kind # "jwt" \/ ~ (judged'[q] < req'[q].header.exp)
        /\ Answered(q)' /\ q \notin panicked' =>
             logged'[q].status = reply'[q] /\ logged'[q].user = locals'[q].user
    BY <1>2, <1>4 DEF RequestInv, Still
  <2> QED
    BY <2>1, <2>2, <2>3, <2>4 DEF RequestInv
<1> QED
  BY <1>1, <1>2, <1>3, <1>4, <1>6

\* A step is about one request.
LEMMA OthersStill ==
    ASSUME ShapeInv, NEW r \in Requests, NEW q \in Requests, q # r, NEW l, NEW o,
           Arriving(r) \/ Passing(r, l) \/ Returning(r, l, o)
    PROVE  Still(q)
<1>1. CASE Arriving(r)
  BY <1>1 DEF Arriving, Receive, Still, ShapeInv
<1>2. CASE Passing(r, l)
  BY <1>2 DEF Passing, Still, ShapeInv
<1>3. CASE Returning(r, l, o)
  <2>1. /\ req' = req /\ at' = at /\ locals' = locals
        /\ judged'[q] = judged[q]
    BY <1>3 DEF Returning, Return, ShapeInv
  <2>2. reply'[q] = reply[q]
    BY <1>3 DEF Returning, Return, ShapeInv
  <2>3. logged'[q] = logged[q]
    BY <1>3 DEF Returning, Return, ShapeInv
  <2>4. q \in panicked' <=> q \in panicked
    BY <1>3 DEF Returning, Return
  <2> QED
    BY <2>1, <2>2, <2>3, <2>4 DEF Still
<1> QED
  BY <1>1, <1>2, <1>3

\* Where a request is that is in a layer of its route.
LEMMA PlaceFacts ==
    ASSUME ShapeInv, NEW r \in Requests, RequestInv(r), NEW l \in RouteNames, In(r, l)
    PROVE  /\ Len(Global(cfg)) \in 2 .. 3 /\ Len(Chain(r)) \in Nat
           /\ at[r] \in Len(Global(cfg)) + 1 .. Len(Chain(r))
           /\ Chain(r)[at[r]] = l /\ reply[r] = 0 /\ r \notin panicked
           /\ Layer(r) = l
           /\ ChainOrder(Chain(r), Len(Global(cfg)), cfg, req[r].route)
<1>1. reply[r] = 0 /\ r \notin panicked /\ Layer(r) = l
  BY DEF In
<1>2. at[r] # 0 /\ Chain(r)[at[r]] = l
  <2>1. l # "none"
    BY DEF RouteNames
  <2> QED
    BY <1>1, <2>1 DEF Layer
<1>3. at[r] \in Len(Global(cfg)) + 1 .. Len(Chain(r))
  BY <1>2 DEF RequestInv
<1>4. ChainOrder(Chain(r), Len(Global(cfg)), cfg, req[r].route)
  BY ChainFacts DEF ShapeInv, Chain
<1>5. Len(Global(cfg)) \in 2 .. 3 /\ Len(Chain(r)) \in Nat
  BY <1>4 DEF ChainOrder
<1> QED
  BY <1>1, <1>2, <1>3, <1>4, <1>5

\* What the way back does: the client gets the status, and log and metrics are told
\* unless the handler panicked.
LEMMA ReturnEffect ==
    ASSUME ShapeInv, NEW r \in Requests, RequestInv(r), NEW l \in RouteNames, NEW o,
           In(r, l), Return(r, o)
    PROVE  /\ reply' = [reply EXCEPT ![r] = Rendered(o)]
           /\ IF o.kind = "panic"
              THEN panicked' = panicked \cup {r} /\ UNCHANGED <<logged, counted>>
              ELSE /\ panicked' = panicked
                   /\ logged' = [logged EXCEPT ![r] = [status |-> Rendered(o),
                                                       user |-> locals[r].user]]
                   /\ IF cfg.metricsEnabled
                      THEN counted' = counted (+) SetToBag({<<Label(r), Rendered(o)>>})
                      ELSE counted' = counted
<1> DEFINE ch == Chain(r)
           g == Len(Global(cfg))
           n == at[r]
           F == Finishing(r, o)
           inside == {i \in 1 .. n - 1 : \E j \in 1 .. i : ch[j] = "recover"}
<1>1. /\ g \in 2 .. 3 /\ Len(ch) \in Nat /\ n \in g + 1 .. Len(ch)
      /\ ChainOrder(ch, g, cfg, req[r].route)
  BY PlaceFacts
<1>2. F = {ch[i] : i \in IF o.kind = "panic" THEN (1 .. n - 1) \ inside ELSE 1 .. n - 1}
  BY DEF Finishing
<1>3. /\ reply' = IF Recovered(r, o) THEN [reply EXCEPT ![r] = Rendered(o)] ELSE reply
      /\ panicked' = IF o.kind = "panic" THEN panicked \cup {r} ELSE panicked
      /\ logged' = IF "logger" \in F
                   THEN [logged EXCEPT ![r] = [status |-> Rendered(o),
                                               user |-> locals[r].user]]
                   ELSE logged
      /\ counted' = IF "metrics" \in F
                    THEN counted (+) SetToBag({<<Label(r), Rendered(o)>>}) ELSE counted
  BY DEF Return, Observed, Rendered, ObserveHTTPRequest
<1>4. Recovered(r, o) <=> (o.kind = "panic" => \E i \in 1 .. n - 1 : ch[i] = "recover")
  BY DEF Recovered
<1> HIDE DEF ch, g, n, F
<1>5. 1 .. g \subseteq 1 .. n - 1 /\ 1 \in 1 .. g /\ n - 1 \in g .. Len(ch) - 1
  BY <1>1
<1>6. /\ ch[1] = "recover"
      /\ \E i \in 1 .. g : ch[i] = "logger"
      /\ \A i \in 1 .. g : ch[i] \in GlobalNames
      /\ \A i \in g + 1 .. Len(ch) : ch[i] \in RouteNames
  BY <1>1 DEF ChainOrder
<1>7. cfg.metricsEnabled <=> \E i \in 1 .. g : ch[i] = "metrics"
  BY <1>1, Zenon DEF ChainOrder
<1>8. Recovered(r, o)
  BY <1>4, <1>5, <1>6
<1>9. CASE o.kind = "panic"
  <2>1. inside = 1 .. n - 1
    <3>1. \A i \in 1 .. n - 1 : 1 \in 1 .. i
      BY <1>1
    <3> QED
      BY <1>6, <3>1
  <2>2. F = {}
    BY <1>2, <1>9, <2>1
  <2> QED
    BY <1>3, <1>8, <1>9, <2>2
<1>10. CASE o.kind # "panic"
  <2>1. F = {ch[i] : i \in 1 .. n - 1}
    BY <1>2, <1>10
  <2>2. "logger" \in F
    BY <1>5, <1>6, <2>1
  <2>3. \A i \in 1 .. n - 1 : i \in 1 .. g \/ i \in g + 1 .. Len(ch)
    BY <1>1, <1>5
  <2>4. "metrics" \notin RouteNames
    BY DEF RouteNames
  <2>5. "metrics" \in F <=> \E i \in 1 .. g : ch[i] = "metrics"
    BY <1>5, <1>6, <2>1, <2>3, <2>4
  <2>6. "metrics" \in F <=> cfg.metricsEnabled
    BY <1>7, <2>5, Zenon
  <2>7. /\ reply' = [reply EXCEPT ![r] = Rendered(o)]
        /\ panicked' = panicked
        /\ logged' = [logged EXCEPT ![r] = [status |-> Rendered(o),
                                            user |-> locals[r].user]]
    BY <1>3, <1>8, <1>10, <2>2
  <2>8. IF cfg.metricsEnabled
        THEN counted' = counted (+) SetToBag({<<Label(r), Rendered(o)>>})
        ELSE counted' = counted
    <3>1. CASE cfg.metricsEnabled
      <4>1. "metrics" \in F
        BY <2>6, <3>1, Zenon
      <4> QED
        BY <1>3, <3>1, <4>1
    <3>2. CASE ~cfg.metricsEnabled
      <4>1. "metrics" \notin F
        BY <2>6, <3>2, Zenon
      <4> QED
        BY <1>3, <3>2, <4>1
    <3> QED
      BY <3>1, <3>2
  <2> QED
    BY <1>10, <2>7, <2>8
<1> QED
  BY <1>9, <1>10

\* What the outcomes become.
LEMMA OutcomeFacts ==
    ASSUME NEW lo \in Outcomes
    PROVE  /\ lo[1] \in RouteNames
           /\ Rendered(lo[2]) \in Statuses
           /\ Rendered(lo[2]) = 429 <=> lo[2].status = 429
           /\ lo[2].status = 429 => lo[1] = "limit" /\ lo[2].kind # "panic"
  BY DEF Outcomes, Outcome, RouteNames, Rendered, As, Statuses

\* The same of a step that answers.
LEMMA ReturningEffect ==
    ASSUME ShapeInv, \A q \in Requests : RequestInv(q), NEW r \in Requests,
           NEW lo \in Outcomes, Returning(r, lo[1], lo[2])
    PROVE  /\ reply' = [reply EXCEPT ![r] = Rendered(lo[2])]
           /\ lo[2].kind = "panic" =>
                panicked' = panicked \cup {r} /\ UNCHANGED <<logged, counted>>
           /\ lo[2].kind # "panic" =>
                /\ panicked' = panicked
                /\ cfg.metricsEnabled =>
                     counted' = counted (+) SetToBag({<<Label(r), Rendered(lo[2])>>})
           /\ reply[r] = 0 /\ r \notin panicked /\ DOMAIN reply = Requests
           /\ UNCHANGED <<cfg, req, at>>
<1>1. lo[1] \in RouteNames
  BY OutcomeFacts
<1>2. In(r, lo[1]) /\ Return(r, lo[2])
  BY DEF Returning
<1>3. DOMAIN reply = Requests
  BY DEF ShapeInv
<1>4. UNCHANGED <<cfg, req, at>> /\ reply[r] = 0 /\ r \notin panicked
  BY <1>2 DEF Return, In
<1> DEFINE o == lo[2]
<1>5. /\ reply' = [reply EXCEPT ![r] = Rendered(o)]
      /\ IF o.kind = "panic"
         THEN panicked' = panicked \cup {r} /\ UNCHANGED <<logged, counted>>
         ELSE /\ panicked' = panicked
              /\ logged' = [logged EXCEPT ![r] = [status |-> Rendered(o),
                                                  user |-> locals[r].user]]
              /\ IF cfg.metricsEnabled
                 THEN counted' = counted (+) SetToBag({<<Label(r), Rendered(o)>>})
                 ELSE counted' = counted
  <2>1. RequestInv(r)
    OBVIOUS
  <2> QED
    BY <1>1, <1>2, <2>1, ReturnEffect, Zenon
<1>6. o.kind = "panic" => panicked' = panicked \cup {r} /\ UNCHANGED <<logged, counted>>
  BY <1>5, Zenon
<1>7. o.kind # "panic" =>
        /\ panicked' = panicked
        /\ cfg.metricsEnabled =>
             counted' = counted (+) SetToBag({<<Label(r), Rendered(o)>>})
  BY <1>5, Zenon
<1> QED
  BY <1>3, <1>4, <1>5, <1>6, <1>7, Zenon

\* Auth is passed with a token of this process.
LEMMA AcceptedFacts ==
    ASSUME ShapeInv, NEW r \in Requests, RequestInv(r), In(r, "auth"),
           Accepted(req[r].header)
    PROVE  /\ req[r].route \in Protected
           /\ req[r].header \in tokens /\ Genuine(req[r].header)
           /\ now < req[r].header.exp
<1>0. "auth" \in RouteNames
  BY DEF RouteNames
<1>1. /\ at[r] \in Len(Global(cfg)) + 1 .. Len(Chain(r)) /\ Len(Global(cfg)) \in 2 .. 3
      /\ Chain(r)[at[r]] = "auth"
      /\ ChainOrder(Chain(r), Len(Global(cfg)), cfg, req[r].route)
  BY <1>0, PlaceFacts
<1>2. req[r].route \in Protected
  BY <1>1 DEF ChainOrder
<1>3. at[r] # 0
  BY <1>1
<1>4. req[r].header \in tokens \cup {Bare("none"), Bare("foreign")}
  BY <1>2, <1>3 DEF RequestInv
<1>5. req[r].header.kind = "jwt" /\ now < req[r].header.exp
  BY DEF Accepted
<1>6. Bare("none").kind # "jwt" /\ Bare("foreign").kind # "jwt"
  BY DEF Bare
<1>7. req[r].header \in tokens
  BY <1>4, <1>5, <1>6
<1> QED
  BY <1>2, <1>5, <1>7 DEF ShapeInv

\* The shape of the state is kept; the configuration stays and tokens stay valid.
LEMMA ShapeKept ==
    ASSUME ShapeInv, \A r \in Requests : RequestInv(r), [Next]_vars
    PROVE  ShapeInv' /\ cfg' = cfg /\ tokens \subseteq tokens'
<1> DEFINE Goal == ShapeInv' /\ cfg' = cfg /\ tokens \subseteq tokens'
<1>0. /\ at \in [Requests -> Nat] /\ judged \in [Requests -> 0 .. MaxTime]
      /\ IsABag(spent) /\ IsABag(counted) /\ IsABag(limited)
      /\ cfg \in Configs /\ now \in 0 .. MaxTime /\ MaxTime \in Nat
      /\ \A t \in tokens : Genuine(t)
  BY PipelineAssumption DEF ShapeInv
<1>a. locals \in [Requests -> [user : Users \cup {None}, role : {"", "ADMIN", "USER"}]]
  BY DEF ShapeInv
<1>b. \A b, x : IsABag(b) => IsABag(b (+) SetToBag({x}))
  BY BagFacts
<1>1. ASSUME Quiet PROVE Goal
  <2>1. now' \in 0 .. MaxTime
    BY <1>0, <1>1 DEF Quiet
  <2> QED
    BY <1>1, <2>1 DEF Quiet, ShapeInv
<1>2. ASSUME NEW r \in Requests, Arriving(r) PROVE Goal
  <2>1. Len(Global(cfg)) + 1 \in Nat
    <3>1. ChainOrder(Chain(r), Len(Global(cfg)), cfg, req[r].route)
      BY ChainFacts DEF ShapeInv, Chain
    <3> QED
      BY <3>1 DEF ChainOrder
  <2>2. PICK route \in Routes : \E address, header : Receive(r, route, address, header)
    BY <1>2 DEF Arriving
  <2>3. PICK address, header : Receive(r, route, address, header)
    BY <2>2
  <2> QED
    BY <2>1, <2>3 DEF Receive, ShapeInv
<1>3. ASSUME NEW r \in Requests, NEW l \in RouteNames, Passing(r, l) PROVE Goal
  <2>1. /\ at' = [at EXCEPT ![r] = @ + 1]
        /\ UNCHANGED <<cfg, now, req, tokens, reply, panicked, logged, counted, limited>>
    BY <1>3 DEF Passing
  <2>2. at' \in [Requests -> Nat]
    BY <1>0, <2>1
  <2>3. IsABag(spent')
    <3>1. spent' = spent \/ spent' = spent (+) SetToBag({Key(r)})
      BY <1>3 DEF Passing
    <3> QED
      BY <1>0, <1>b, <3>1
  <2>4. /\ locals' \in [Requests -> [user : Users \cup {None}, role : {"", "ADMIN", "USER"}]]
        /\ judged' \in [Requests -> 0 .. MaxTime]
    <3>1. CASE l = "auth"
      <4>1. Genuine(req[r].header)
        BY <1>3, <3>1, AcceptedFacts DEF Passing
      <4>2. /\ req[r].header.user \in Users
            /\ req[r].header.role \in {"", "ADMIN", "USER"}
        BY <4>1 DEF Genuine
      <4> QED
        <5> DEFINE w == [user |-> req[r].header.user, role |-> req[r].header.role]
        <5>1. w \in [user : Users \cup {None}, role : {"", "ADMIN", "USER"}]
          BY <4>2
        <5>2. locals' = [locals EXCEPT ![r] = w] /\ judged' = [judged EXCEPT ![r] = now]
          BY <1>3, <3>1 DEF Passing
        <5> HIDE DEF w
        <5> QED
          BY <1>0, <1>a, <5>1, <5>2
    <3>2. CASE l # "auth"
      BY <1>3, <3>2 DEF Passing, ShapeInv
    <3> QED
      BY <3>1, <3>2
  <2> QED
    BY <2>1, <2>2, <2>3, <2>4 DEF ShapeInv
<1>4. ASSUME NEW r \in Requests, NEW lo \in Outcomes, Returning(r, lo[1], lo[2]) PROVE Goal
  <2> DEFINE l == lo[1]
             o == lo[2]
  <2>0. l \in RouteNames /\ Rendered(o) \in Statuses
    BY OutcomeFacts
  <2>1. In(r, l) /\ Return(r, o)
    BY <1>4 DEF Returning
  <2>2. /\ reply' = [reply EXCEPT ![r] = Rendered(o)]
        /\ panicked' = panicked \cup {r} \/ panicked' = panicked
        /\ logged' = logged \/ logged' = [logged EXCEPT ![r] = [status |-> Rendered(o),
                                                       user |-> locals[r].user]]
        /\ \/ counted' = counted
           \/ counted' = counted (+) SetToBag({<<Label(r), Rendered(o)>>})
    BY <2>0, <2>1, ReturnEffect
  <2>3. UNCHANGED <<cfg, now, req, at, locals>>
    BY <2>1 DEF Return
  <2>4. judged' \in [Requests -> 0 .. MaxTime]
    <3>1. judged' = judged \/ judged' = [judged EXCEPT ![r] = now]
      BY <1>4 DEF Returning
    <3> QED
      BY <1>0, <3>1
  <2>5. IsABag(spent') /\ IsABag(limited')
    <3>1. /\ spent' = spent \/ spent' = spent (+) SetToBag({Key(r)})
          /\ limited' = limited \/ limited' = limited (+) SetToBag({req[r].route})
      BY <1>4 DEF Returning
    <3> QED
      BY <1>0, <1>b, <3>1
  <2>6. tokens \subseteq tokens' /\ \A t \in tokens' : Genuine(t)
    <3>1. \/ tokens' = tokens
          \/ \E u \in Users : tokens' = tokens \cup {GenerateToken(cfg, u, now)}
      BY <1>4 DEF Returning
    <3>2. \A u \in Users : Genuine(GenerateToken(cfg, u, now))
      <4>1. now \in Int
        BY <1>0
      <4> QED
        BY <1>0, <4>1, GenerateTokenFacts
    <3> QED
      BY <1>0, <3>1, <3>2
  <2>7. IsABag(counted')
    <3> DEFINE x == <<Label(r), Rendered(o)>>
    <3>1. counted' = counted \/ counted' = counted (+) SetToBag({x})
      BY <2>2
    <3> HIDE DEF x
    <3> QED
      BY <1>0, <1>b, <3>1
  <2>8. reply' \in [Requests -> {0} \cup Statuses]
    BY <2>0, <2>2 DEF ShapeInv
  <2>9. DOMAIN logged' = Requests /\ panicked' \in SUBSET Requests
    BY <2>2 DEF ShapeInv
  <2> QED
    BY <2>3, <2>4, <2>5, <2>6, <2>7, <2>8, <2>9 DEF ShapeInv
<1> HIDE DEF Goal
<1>5. Goal
  BY <1>1, <1>2, <1>3, <1>4, StepKinds
<1> QED
  BY <1>5 DEF Goal

\* A request that comes in.
LEMMA ArrivingKeeps ==
    ASSUME ShapeInv, NEW r \in Requests, RequestInv(r), Arriving(r)
    PROVE  RequestInv(r)'
<1>1. PICK route \in Routes :
        \E address \in AddressesFor(route), header \in HeadersFor(route) :
            Receive(r, route, address, header)
  BY DEF Arriving
<1>2. PICK address \in AddressesFor(route), header \in HeadersFor(route) :
        Receive(r, route, address, header)
  BY <1>1
<1> DEFINE g == Len(Global(cfg))
<1>3. /\ at[r] = 0 /\ req'[r].route = route /\ req'[r].header = header
      /\ at'[r] = g + 1
      /\ UNCHANGED <<cfg, tokens, locals, reply, panicked>>
  BY <1>2 DEF Receive, ShapeInv
<1>4. reply[r] = 0 /\ r \notin panicked /\ locals[r].user = None
  BY <1>3 DEF RequestInv
<1>5. Chain(r)' = Chains[cfg][route] /\ ChainOrder(Chains[cfg][route], g, cfg, route)
  BY <1>3, ChainFacts DEF Chain, ShapeInv
<1>6. g \in 2 .. 3 /\ g < Len(Chain(r)') /\ Len(Chain(r)') \in Nat
  BY <1>5 DEF ChainOrder
<1>7. route \in Protected => header \in tokens' \cup {Bare("none"), Bare("foreign")}
  BY <1>3 DEF HeadersFor
<1> HIDE DEF g
<1>8. at'[r] # 0 /\ at'[r] \in g + 1 .. Len(Chain(r)') /\ g + 1 .. at'[r] - 1 = {}
  BY <1>3, <1>6
<1>9. Len(Global(cfg')) = g
  BY <1>3 DEF g
<1>10. ~Answered(r)'
  BY <1>3, <1>4 DEF Answered
<1> QED
  BY <1>3, <1>4, <1>7, <1>8, <1>9, <1>10 DEF RequestInv

\* A request that passes a layer.
LEMMA PassingKeeps ==
    ASSUME ShapeInv, NEW r \in Requests, RequestInv(r), NEW l \in RouteNames, Passing(r, l)
    PROVE  RequestInv(r)'
<1> DEFINE g == Len(Global(cfg))
           n == at[r]
           ch == Chain(r)
<1>1. In(r, l)
  BY DEF Passing
<1>2. /\ g \in 2 .. 3 /\ Len(ch) \in Nat /\ n \in g + 1 .. Len(ch)
      /\ ch[n] = l /\ reply[r] = 0 /\ r \notin panicked
      /\ ChainOrder(ch, g, cfg, req[r].route)
  BY <1>1, PlaceFacts
<1>3. /\ at'[r] = n + 1 /\ l \in {"auth", "role", "metricsAuth", "limit"}
      /\ UNCHANGED <<cfg, now, req, tokens, reply, panicked>>
  BY DEF Passing, ShapeInv
<1>4. Chain(r)' = ch /\ Len(Global(cfg')) = g
  BY <1>3 DEF Chain
<1>5. \A i \in g + 1 .. n - 1 :
         /\ ch[i] = "auth" => Entitled(r)
         /\ ch[i] = "role" => locals[r].role = "ADMIN"
         /\ ch[i] = "metricsAuth" =>
              cfg.metricsToken = Unset \/ req[r].header.kind = "metricsToken"
  BY DEF RequestInv
<1>6. /\ l = "auth" => Accepted(req[r].header) /\ req[r].route \in Protected
      /\ l # "auth" => locals' = locals /\ judged' = judged
      /\ l = "role" => locals[r].role = "ADMIN"
      /\ l = "metricsAuth" => cfg.metricsToken = Unset \/ req[r].header.kind = "metricsToken"
  BY <1>1, AcceptedFacts DEF Passing
<1>7. l = "auth" => Entitled(r)'
  <2> HAVE l = "auth"
  <2>1. req[r].header \in tokens /\ now < req[r].header.exp
    BY <1>1, <1>6, AcceptedFacts
  <2>2. /\ locals'[r] = [user |-> req[r].header.user, role |-> req[r].header.role]
        /\ judged'[r] = now
    BY DEF Passing, ShapeInv
  <2> QED
    BY <1>3, <2>1, <2>2 DEF Entitled
<1> HIDE DEF g, n, ch
<1>8. n # Len(ch) /\ (l = "auth" => n = g + 1)
  BY <1>2, <1>3 DEF ChainOrder
<1>9. /\ at'[r] # 0 /\ at'[r] \in g + 1 .. Len(ch)
      /\ \A i \in g + 1 .. at'[r] - 1 : i = n \/ i \in g + 1 .. n - 1
      /\ n = g + 1 => g + 1 .. n - 1 = {}
  BY <1>2, <1>3, <1>8
<1>10. \A i \in g + 1 .. at'[r] - 1 :
         /\ ch[i] = "auth" => Entitled(r)'
         /\ ch[i] = "role" => locals'[r].role = "ADMIN"
         /\ ch[i] = "metricsAuth" =>
              cfg'.metricsToken = Unset \/ req'[r].header.kind = "metricsToken"
  <2>1. CASE l = "auth"
    <3>1. \A i \in g + 1 .. at'[r] - 1 : ch[i] = "auth"
      BY <1>2, <1>8, <1>9, <2>1
    <3> QED
      BY <1>7, <2>1, <3>1
  <2>2. CASE l # "auth"
    <3>1. Entitled(r) => Entitled(r)'
      BY <1>3, <1>6, <2>2 DEF Entitled
    <3>2. locals' = locals /\ cfg' = cfg /\ req' = req
      BY <1>3, <1>6, <2>2
    <3> QED
      BY <1>2, <1>5, <1>6, <1>9, <2>2, <3>1, <3>2
  <2> QED
    BY <2>1, <2>2
<1>11. ~Answered(r)'
  BY <1>2, <1>3 DEF Answered
<1>12. req'[r].route \notin Protected => locals'[r].user = None
  BY <1>3, <1>6 DEF RequestInv
<1>13. req'[r].route \in Protected =>
         req'[r].header \in tokens' \cup {Bare("none"), Bare("foreign")}
  <2>1. n # 0
    BY <1>2
  <2> QED
    BY <1>3, <2>1 DEF RequestInv, n
<1> QED
  BY <1>2, <1>3, <1>4, <1>9, <1>10, <1>11, <1>12, <1>13 DEF RequestInv

\* A request that is answered.
LEMMA ReturningKeeps ==
    ASSUME ShapeInv, NEW r \in Requests, RequestInv(r), NEW lo \in Outcomes,
           Returning(r, lo[1], lo[2]), tokens \subseteq tokens'
    PROVE  RequestInv(r)'
<1> DEFINE g == Len(Global(cfg))
           n == at[r]
           ch == Chain(r)
           l == lo[1]
           o == lo[2]
<1>0. l \in RouteNames /\ Rendered(o) \in Statuses
  BY OutcomeFacts
<1>1. In(r, l) /\ Return(r, o)
  BY DEF Returning
<1>2. /\ g \in 2 .. 3 /\ Len(ch) \in Nat /\ n \in g + 1 .. Len(ch)
      /\ ch[n] = l /\ reply[r] = 0 /\ r \notin panicked /\ Layer(r) = l
      /\ ChainOrder(ch, g, cfg, req[r].route)
  BY <1>0, <1>1, PlaceFacts
<1>3. UNCHANGED <<cfg, req, at, locals>>
  BY <1>1 DEF Return
<1>4. Chain(r)' = ch /\ Len(Global(cfg')) = g /\ Layer(r)' = l
  BY <1>2, <1>3 DEF Chain, Layer
<1>5. /\ reply'[r] = Rendered(o)
      /\ r \notin panicked' =>
           logged'[r].status = reply'[r] /\ logged'[r].user = locals'[r].user
  <2> DEFINE line == [status |-> Rendered(o), user |-> locals[r].user]
  <2>1. DOMAIN reply = Requests /\ DOMAIN logged = Requests
    BY DEF ShapeInv
  <2>2. /\ reply' = [reply EXCEPT ![r] = Rendered(o)]
        /\ r \in panicked' \/ logged' = [logged EXCEPT ![r] = line]
    BY <1>0, <1>1, ReturnEffect
  <2>3. line.status = Rendered(o) /\ line.user = locals'[r].user
    BY <1>3
  <2> HIDE DEF line
  <2> QED
    BY <2>1, <2>2, <2>3
<1>6. /\ l = "auth" => ~Accepted(req[r].header) /\ judged'[r] = now
      /\ l # "auth" => judged' = judged
  <2>1. DOMAIN judged = Requests
    BY DEF ShapeInv
  <2>2. /\ l = "auth" => ~Accepted(req[r].header) /\ judged' = [judged EXCEPT ![r] = now]
        /\ l # "auth" => judged' = judged
    BY DEF Returning
  <2> HIDE DEF l
  <2> QED
    BY <2>1, <2>2
<1>7. l = "auth" => req'[r].header.kind # "jwt" \/ ~ (judged'[r] < req'[r].header.exp)
  BY <1>3, <1>6 DEF Accepted
<1>8. reply'[r] # 0
  BY <1>0, <1>5 DEF Statuses
<1> HIDE DEF g, n, ch, l, o
<1>9. l = "auth" => n = g + 1
  BY <1>2 DEF ChainOrder
<1>10. /\ at'[r] = n /\ n # 0
       /\ n = g + 1 => g + 1 .. n - 1 = {}
  BY <1>2, <1>3 DEF n
<1>11. \A i \in g + 1 .. n - 1 :
         /\ ch[i] = "auth" => Entitled(r)'
         /\ ch[i] = "role" => locals'[r].role = "ADMIN"
         /\ ch[i] = "metricsAuth" =>
              cfg'.metricsToken = Unset \/ req'[r].header.kind = "metricsToken"
  <2>1. CASE l = "auth"
    BY <1>9, <1>10, <2>1
  <2>2. CASE l # "auth"
    <3>1. Entitled(r) => Entitled(r)'
      BY <1>3, <1>6, <2>2 DEF Entitled
    <3>2. \A i \in g + 1 .. n - 1 :
             /\ ch[i] = "auth" => Entitled(r)
             /\ ch[i] = "role" => locals[r].role = "ADMIN"
             /\ ch[i] = "metricsAuth" =>
                  cfg.metricsToken = Unset \/ req[r].header.kind = "metricsToken"
      BY DEF RequestInv, g, n, ch
    <3> QED
      BY <1>3, <3>1, <3>2
  <2> QED
    BY <2>1, <2>2
<1>12. /\ req'[r].route \notin Protected => locals'[r].user = None
       /\ req'[r].route \in Protected =>
            req'[r].header \in tokens' \cup {Bare("none"), Bare("foreign")}
  <2>1. at[r] # 0
    BY <1>10 DEF n
  <2> QED
    BY <1>3, <2>1 DEF RequestInv
<1> QED
  BY <1>2, <1>4, <1>5, <1>7, <1>8, <1>10, <1>11, <1>12 DEF RequestInv

\* What holds of the requests is kept.
LEMMA RequestsKept ==
    ASSUME ShapeInv, \A q \in Requests : RequestInv(q), [Next]_vars
    PROVE  \A q \in Requests : RequestInv(q)'
<1>1. cfg' = cfg /\ tokens \subseteq tokens'
  BY ShapeKept
<1>2. \A q \in Requests : Still(q) => RequestInv(q)'
  BY <1>1, StillKeeps
<1> DEFINE Goal == \A q \in Requests : RequestInv(q)'
<1>3. ASSUME Quiet PROVE Goal
  <2>1. \A q \in Requests : Still(q)
    BY <1>3 DEF Quiet, Still
  <2> QED
    BY <1>2, <2>1
<1>4. ASSUME NEW r \in Requests, Arriving(r) PROVE Goal
  <2>1. \A q \in Requests : q # r => Still(q)
    BY <1>4, OthersStill
  <2>2. RequestInv(r)'
    BY <1>4, ArrivingKeeps
  <2> QED
    BY <1>2, <2>1, <2>2
<1>5. ASSUME NEW r \in Requests, NEW l \in RouteNames, Passing(r, l) PROVE Goal
  <2>1. \A q \in Requests : q # r => Still(q)
    BY <1>5, OthersStill
  <2>2. RequestInv(r)'
    BY <1>5, PassingKeeps
  <2> QED
    BY <1>2, <2>1, <2>2
<1>6. ASSUME NEW r \in Requests, NEW lo \in Outcomes, Returning(r, lo[1], lo[2]) PROVE Goal
  <2>1. \A q \in Requests : q # r => Still(q)
    BY <1>6, OthersStill
  <2>2. RequestInv(r)'
    BY <1>1, <1>6, ReturningKeeps
  <2> QED
    BY <1>2, <2>1, <2>2
<1> HIDE DEF Goal
<1>7. Goal
  BY <1>3, <1>4, <1>5, <1>6, StepKinds
<1> QED
  BY <1>7 DEF Goal

-----------------------------------------------------------------------------
(* Counting requests.                                                      *)

\* A set of requests that gains one.
LEMMA OneMore ==
    ASSUME NEW S \in SUBSET Requests, NEW T \in SUBSET Requests, S \subseteq T
    PROVE  /\ Cardinality(S) \in Nat /\ Cardinality(T) \in Nat
           /\ Cardinality(S) <= Cardinality(T)
           /\ \A r \in T : r \notin S => Cardinality(S) + 1 <= Cardinality(T)
           /\ \A r : r \notin S /\ T = S \cup {r} => Cardinality(T) = Cardinality(S) + 1
<1>1. IsFiniteSet(Requests)
  BY PipelineAssumption
<1>2. IsFiniteSet(T) /\ IsFiniteSet(S)
  BY <1>1, FS_Subset
<1>3. Cardinality(S) \in Nat /\ Cardinality(T) \in Nat /\ Cardinality(S) <= Cardinality(T)
  BY <1>2, FS_CardinalityType, FS_Subset
<1>4. \A r : r \notin S => Cardinality(S \cup {r}) = Cardinality(S) + 1
  BY <1>2, FS_AddElement
<1>5. ASSUME NEW r \in T, r \notin S PROVE Cardinality(S) + 1 <= Cardinality(T)
  <2>1. S \cup {r} \subseteq T
    BY <1>5
  <2>2. Cardinality(S \cup {r}) <= Cardinality(T)
    BY <1>2, <2>1, FS_Subset
  <2> QED
    BY <1>4, <1>5, <2>2
<1> QED
  BY <1>3, <1>4, <1>5

\* The limiter's key is the caller's: behind Auth the user, at login the address.
LEMMA KeyIsCaller ==
    ASSUME ShapeInv, NEW r \in Requests, RequestInv(r), In(r, "limit")
    PROVE  /\ req[r].route \in Scopes
           /\ Key(r) = <<req[r].route, Caller(r)>>
           /\ at[r] = Len(Chain(r)) - 1
<1> DEFINE g == Len(Global(cfg))
           n == at[r]
           ch == Chain(r)
           route == req[r].route
<1>0. "limit" \in RouteNames
  BY DEF RouteNames
<1>1. /\ g \in 2 .. 3 /\ Len(ch) \in Nat /\ n \in g + 1 .. Len(ch)
      /\ ch[n] = "limit" /\ ChainOrder(ch, g, cfg, route)
  BY <1>0, PlaceFacts
<1>2. \A i \in g + 1 .. n - 1 : ch[i] = "auth" => Entitled(r)
  BY DEF RequestInv
<1> HIDE DEF g, n, ch
<1>3. route \in Scopes /\ n = Len(ch) - 1
  BY <1>1 DEF ChainOrder
<1>4. route \in Protected => g + 1 < n /\ ch[g + 1] = "auth"
  BY <1>1 DEF ChainOrder
<1>5. CASE route = "login"
  <2>1. route \notin Protected
    BY <1>5 DEF Protected
  <2>2. locals[r].user = None
    BY <2>1 DEF RequestInv
  <2> QED
    BY <1>3, <1>5, <2>2 DEF Key, Caller, n, ch
<1>6. CASE route # "login"
  <2>1. route \in Protected
    BY <1>3, <1>6 DEF Scopes, Protected
  <2>2. g + 1 \in g + 1 .. n - 1
    BY <1>1, <1>4, <2>1
  <2>3. Entitled(r)
    BY <1>2, <1>4, <2>1, <2>2
  <2>4. locals[r].user = req[r].header.user /\ req[r].header.user \in Users
    BY <2>3 DEF Entitled, ShapeInv, Genuine
  <2>5. locals[r].user # None
    BY <2>4, PipelineAssumption
  <2> QED
    BY <1>3, <1>6, <2>4, <2>5 DEF Key, Caller, n, ch
<1> QED
  BY <1>5, <1>6

\* What was answered stays, what came in keeps what it is, and what the limiter counted
\* stays counted.
LEMMA Moves ==
    ASSUME ShapeInv, \A q \in Requests : RequestInv(q), [Next]_vars, NEW q \in Requests
    PROVE  /\ reply[q] # 0 => Still(q)
           /\ at[q] # 0 => at'[q] # 0 /\ req'[q] = req[q]
           /\ q \in Charged => q \in Charged'
<1> DEFINE Goal == /\ reply[q] # 0 => Still(q)
                   /\ at[q] # 0 => at'[q] # 0 /\ req'[q] = req[q]
                   /\ q \in Charged => q \in Charged'
<1>1. cfg' = cfg /\ tokens \subseteq tokens'
  BY ShapeKept
<1>2. ASSUME Still(q) PROVE Goal
  <2>1. Chain(q)' = Chain(q) /\ Layer(q)' = Layer(q) /\ Answered(q)' = Answered(q)
    BY <1>1, <1>2, StillKeeps
  <2>2. req'[q] = req[q] /\ at'[q] = at[q]
    BY <1>2 DEF Still
  <2> QED
    BY <1>2, <2>1, <2>2 DEF Charged
<1>3. ASSUME Arriving(q) PROVE Goal
  <2>1. at[q] = 0
    BY <1>3 DEF Arriving, Receive
  <2>2. reply[q] = 0 /\ q \notin Charged
    BY <2>1 DEF RequestInv, Charged
  <2> QED
    BY <2>1, <2>2
<1>4. ASSUME NEW l \in RouteNames, Passing(q, l) PROVE Goal
  <2>1. In(q, l) /\ l \in {"auth", "role", "metricsAuth", "limit"}
    BY <1>4 DEF Passing
  <2>2. /\ reply[q] = 0 /\ Len(Global(cfg)) \in 2 .. 3 /\ Chain(q)[at[q]] = l
        /\ at[q] \in Len(Global(cfg)) + 1 .. Len(Chain(q))
        /\ ChainOrder(Chain(q), Len(Global(cfg)), cfg, req[q].route)
    BY <2>1, PlaceFacts
  <2>3. at[q] # Len(Chain(q))
    BY <2>1, <2>2 DEF ChainOrder
  <2>4. q \notin Charged
    BY <2>2, <2>3 DEF Charged, Answered
  <2>5. at'[q] = at[q] + 1 /\ req' = req /\ at[q] \in Nat
    BY <1>4 DEF Passing, ShapeInv
  <2>6. at'[q] # 0
    BY <2>5
  <2> QED
    BY <2>2, <2>4, <2>5, <2>6
<1>5. ASSUME NEW lo \in Outcomes, Returning(q, lo[1], lo[2]) PROVE Goal
  <2>0. lo[1] \in RouteNames /\ Rendered(lo[2]) \in Statuses
    BY OutcomeFacts
  <2>1. In(q, lo[1]) /\ Return(q, lo[2])
    BY <1>5 DEF Returning
  <2>2. reply[q] = 0
    BY <2>1 DEF In
  <2>3. UNCHANGED <<req, at, cfg>>
    BY <2>1 DEF Return
  <2>4. Chain(q)' = Chain(q)
    BY <2>3 DEF Chain
  <2>5. q \in Charged => q \in Charged'
    BY <2>2, <2>3, <2>4 DEF Charged, Answered
  <2> QED
    BY <2>2, <2>3, <2>5
<1> HIDE DEF Goal
<1>6. ASSUME NEW r \in Requests, r # q, NEW l, NEW o,
             Arriving(r) \/ Passing(r, l) \/ Returning(r, l, o)
      PROVE  Goal
  BY <1>2, <1>6, OthersStill
<1>7. ASSUME Quiet PROVE Still(q)
  BY <1>7 DEF Quiet, Still
<1>8. Goal
  BY <1>2, <1>3, <1>4, <1>5, <1>6, <1>7, StepKinds
<1> QED
  BY <1>8 DEF Goal

\* When the limiter counts, it counts the caller's request, once; when it turns one away,
\* the caller's counter is above the limit.
LEMMA LimitMoves ==
    ASSUME ShapeInv, \A q \in Requests : RequestInv(q), [Next]_vars
    PROVE  /\ \/ spent' = spent
              \/ \E r \in Requests :
                   /\ spent' = spent (+) SetToBag({<<req[r].route, Caller(r)>>})
                   /\ at[r] # 0 /\ r \notin Charged /\ r \in Charged'
           /\ \A q \in Requests : reply'[q] = 429 =>
                \/ reply[q] = 429
                \/ /\ at[q] # 0 /\ req[q].route \in Scopes
                   /\ ~ (Copies(<<req[q].route, Caller(q)>>, spent') <= cfg.limit[req[q].route])
<1> DEFINE Counts(r) == /\ spent' = spent (+) SetToBag({<<req[r].route, Caller(r)>>})
                        /\ at[r] # 0 /\ r \notin Charged /\ r \in Charged'
           Turned(q) == /\ at[q] # 0 /\ req[q].route \in Scopes
                        /\ ~ (Copies(<<req[q].route, Caller(q)>>, spent')
                                <= cfg.limit[req[q].route])
           Goal == /\ spent' = spent \/ \E r \in Requests : Counts(r)
                   /\ \A q \in Requests : reply'[q] = 429 => reply[q] = 429 \/ Turned(q)
<1>0. cfg' = cfg
  BY ShapeKept
<1>1. ASSUME NEW r \in Requests, In(r, "limit")
      PROVE  /\ at[r] # 0 /\ r \notin Charged /\ req[r].route \in Scopes
             /\ Key(r) = <<req[r].route, Caller(r)>>
             /\ at[r] + 1 = Len(Chain(r)) /\ reply[r] = 0
  <2>0. "limit" \in RouteNames
    BY DEF RouteNames
  <2>1. /\ Len(Global(cfg)) \in 2 .. 3 /\ Len(Chain(r)) \in Nat
        /\ at[r] \in Len(Global(cfg)) + 1 .. Len(Chain(r)) /\ reply[r] = 0
    BY <1>1, <2>0, PlaceFacts
  <2>2. /\ req[r].route \in Scopes /\ Key(r) = <<req[r].route, Caller(r)>>
        /\ at[r] = Len(Chain(r)) - 1
    BY <1>1, KeyIsCaller
  <2>3. at[r] # 0 /\ at[r] # Len(Chain(r)) /\ at[r] + 1 = Len(Chain(r))
    <3> DEFINE g == Len(Global(cfg))
               n == at[r]
               m == Len(Chain(r))
    <3>1. g \in 2 .. 3 /\ m \in Nat /\ n \in g + 1 .. m
      BY <2>1
    <3>2. n = m - 1
      BY <2>2
    <3> HIDE DEF g, n, m
    <3>3. n # 0 /\ n # m /\ n + 1 = m
      BY <3>1, <3>2
    <3> QED
      BY <3>3 DEF n, m
  <2>4. r \notin Charged
    BY <2>1, <2>3 DEF Charged, Answered
  <2> QED
    BY <2>1, <2>2, <2>3, <2>4
<1>2. ASSUME NEW r \in Requests, NEW l \in RouteNames, Passing(r, l) PROVE Goal
  <2>1. UNCHANGED <<req, reply>>
    BY <1>2 DEF Passing
  <2>2. CASE spent' = spent
    BY <2>1, <2>2
  <2>3. CASE l = "limit" /\ spent' = spent (+) SetToBag({Key(r)})
    <3>1. In(r, "limit") /\ at'[r] = at[r] + 1
      BY <1>2, <2>3 DEF Passing, ShapeInv
    <3>2. /\ at[r] # 0 /\ r \notin Charged /\ req[r].route \in Scopes
          /\ Key(r) = <<req[r].route, Caller(r)>> /\ at[r] + 1 = Len(Chain(r))
      BY <1>1, <3>1
    <3>3. Chain(r)' = Chain(r) /\ at[r] \in Nat
      BY <1>0, <2>1 DEF Chain, ShapeInv
    <3>4. at'[r] = Len(Chain(r)') /\ at'[r] # 0
      BY <3>1, <3>2, <3>3
    <3>5. r \in Charged'
      BY <2>1, <3>2, <3>4 DEF Charged
    <3>6. Counts(r)
      BY <2>3, <3>2, <3>5
    <3> QED
      BY <2>1, <3>6
  <2> QED
    BY <1>2, <2>2, <2>3 DEF Passing
<1>3. ASSUME NEW r \in Requests, NEW lo \in Outcomes, Returning(r, lo[1], lo[2]) PROVE Goal
  <2> DEFINE l == lo[1]
             o == lo[2]
  <2>0. /\ l \in RouteNames /\ Rendered(o) \in Statuses
        /\ Rendered(o) = 429 <=> o.status = 429
    BY OutcomeFacts
  <2>1. In(r, l) /\ Return(r, o)
    BY <1>3 DEF Returning
  <2>2. reply' = [reply EXCEPT ![r] = Rendered(o)] /\ DOMAIN reply = Requests
    BY <1>3, ReturningEffect
  <2>3. UNCHANGED <<req, at, cfg>>
    BY <2>1 DEF Return
  <2>4. CASE o.status # 429
    <3>1. spent' = spent
      BY <1>3, <2>4 DEF Returning
    <3>2. Rendered(o) # 429
      BY <2>0, <2>4
    <3>3. \A q \in Requests : reply'[q] = 429 => reply[q] = 429
      BY <2>2, <3>2
    <3> QED
      BY <3>1, <3>3
  <2>5. CASE o.status = 429
    <3>1. /\ l = "limit" /\ spent' = spent (+) SetToBag({Key(r)})
          /\ ~ (Copies(Key(r), spent') <= cfg.limit[req[r].route])
      BY <1>3, <2>5 DEF Returning
    <3>2. /\ at[r] # 0 /\ r \notin Charged /\ req[r].route \in Scopes
          /\ Key(r) = <<req[r].route, Caller(r)>>
      BY <1>1, <2>1, <3>1
    <3>3. Layer(r)' = "limit"
      BY <2>1, <2>3, <3>1 DEF In, Layer, Chain
    <3>4. reply'[r] # 0
      BY <2>0, <2>2 DEF Statuses
    <3>5. r \in Charged'
      BY <2>3, <3>2, <3>3, <3>4 DEF Charged, Answered
    <3>6. Counts(r) /\ Turned(r)
      BY <3>1, <3>2, <3>5
    <3>7. \A q \in Requests : q # r => reply'[q] = reply[q]
      BY <2>2
    <3> HIDE DEF Counts, Turned
    <3> QED
      BY <3>6, <3>7
  <2> QED
    BY <2>4, <2>5
<1>4. ASSUME spent' = spent, reply' = reply PROVE Goal
  BY <1>4
<1>5. ASSUME Quiet \/ \E r \in Requests : Arriving(r) PROVE spent' = spent /\ reply' = reply
  BY <1>5 DEF Quiet, Arriving, Receive
<1> HIDE DEF Goal
<1>6. Goal
  BY <1>2, <1>3, <1>4, <1>5, StepKinds
<1> QED
  BY <1>6 DEF Goal

\* The limiter's counters stay within the callers' requests.
LEMMA SpentKept ==
    ASSUME ShapeInv, \A q \in Requests : RequestInv(q), SpentInv, [Next]_vars
    PROVE  SpentInv'
<1>0. cfg' = cfg
  BY ShapeKept
<1>a. at' \in [Requests -> Nat]
  BY ShapeKept DEF ShapeInv
<1>1. \A q \in Requests : at[q] # 0 =>
        at'[q] # 0 /\ req'[q] = req[q] /\ Caller(q)' = Caller(q)
  BY Moves DEF Caller
<1>2. \A q \in Charged : q \in Charged' /\ at[q] # 0 /\ q \in Requests
  BY Moves DEF Charged
<1>3. ASSUME NEW k PROVE ChargedTo(k) \subseteq ChargedTo(k)'
  BY <1>1, <1>2 DEF ChargedTo
<1>4. ASSUME NEW k
      PROVE  /\ ChargedTo(k) \in SUBSET Requests /\ ChargedTo(k)' \in SUBSET Requests
             /\ Cardinality(ChargedTo(k)) \in Nat /\ Cardinality(ChargedTo(k)') \in Nat
             /\ Cardinality(ChargedTo(k)) <= Cardinality(ChargedTo(k)')
             /\ \A r \in ChargedTo(k)' : r \notin ChargedTo(k) =>
                  Cardinality(ChargedTo(k)) + 1 <= Cardinality(ChargedTo(k)')
  <2>1. ChargedTo(k) \in SUBSET Requests /\ ChargedTo(k)' \in SUBSET Requests
    BY DEF ChargedTo, Charged
  <2> QED
    BY <1>3, <2>1, OneMore
<1>5. \A k : Copies(k, spent) \in Nat /\ Copies(k, spent) <= Cardinality(ChargedTo(k))
  BY BagFacts DEF ShapeInv, SpentInv
<1>6. ASSUME NEW k PROVE Copies(k, spent') <= Cardinality(ChargedTo(k)')
  <2>1. CASE spent' = spent
    BY <1>4, <1>5, <2>1
  <2>2. CASE \E r \in Requests :
               /\ spent' = spent (+) SetToBag({<<req[r].route, Caller(r)>>})
               /\ at[r] # 0 /\ r \notin Charged /\ r \in Charged'
    <3>1. PICK r \in Requests :
               /\ spent' = spent (+) SetToBag({<<req[r].route, Caller(r)>>})
               /\ at[r] # 0 /\ r \notin Charged /\ r \in Charged'
      BY <2>2
    <3> DEFINE x == <<req[r].route, Caller(r)>>
    <3>2. Copies(k, spent') = IF k = x THEN Copies(k, spent) + 1 ELSE Copies(k, spent)
      <4>1. IsABag(spent) /\ spent' = spent (+) SetToBag({x})
        BY <3>1 DEF ShapeInv
      <4> HIDE DEF x
      <4> QED
        BY <4>1, BagFacts
    <3>3. k = x => r \in ChargedTo(k)' /\ r \notin ChargedTo(k)
      BY <1>1, <3>1 DEF ChargedTo
    <3> HIDE DEF x
    <3> QED
      BY <1>4, <1>5, <3>2, <3>3
  <2> QED
    BY <2>1, <2>2, LimitMoves
<1>7. ASSUME NEW q \in Requests, reply'[q] = 429
      PROVE  req'[q].route \in Scopes /\ Cardinality(Own(q)') > cfg'.limit[req'[q].route]
  <2>1. Own(q) \in SUBSET Requests /\ Own(q)' \in SUBSET Requests
    BY DEF Own
  <2>2. CASE reply[q] = 429
    <3>1. req[q].route \in Scopes /\ Cardinality(Own(q)) > cfg.limit[req[q].route]
      BY <2>2 DEF SpentInv
    <3>2. at[q] # 0
      BY <2>2 DEF RequestInv
    <3>3. \A p \in Requests : at[p] > 0 => at[p] # 0
      OBVIOUS
    <3>4. \A p \in Requests : at'[p] # 0 => at'[p] > 0
      BY <1>a
    <3>5. Own(q) \subseteq Own(q)'
      BY <1>1, <3>2, <3>3, <3>4 DEF Own
    <3>6. cfg.limit[req[q].route] \in Int
      BY <3>1, ConfigFacts DEF ShapeInv
    <3>7. /\ Cardinality(Own(q)) \in Nat /\ Cardinality(Own(q)') \in Nat
          /\ Cardinality(Own(q)) <= Cardinality(Own(q)')
      BY <2>1, <3>5, OneMore
    <3>8. req'[q] = req[q]
      BY <1>1, <3>2
    <3> QED
      BY <1>0, <3>1, <3>6, <3>7, <3>8
  <2>3. CASE reply[q] # 429
    <3> DEFINE k == <<req[q].route, Caller(q)>>
    <3>1. /\ at[q] # 0 /\ req[q].route \in Scopes
          /\ ~ (Copies(k, spent') <= cfg.limit[req[q].route])
      BY <1>7, <2>3, LimitMoves
    <3>2. req'[q] = req[q] /\ Caller(q)' = Caller(q)
      BY <1>1, <3>1
    <3>3. PICK kk : kk = k
      OBVIOUS
    <3>4. ChargedTo(kk)' \subseteq Own(q)'
      <4>1. \A p \in Charged' : p \in Requests /\ at'[p] # 0
        BY DEF Charged
      <4>2. \A p \in Requests : at'[p] # 0 => at'[p] > 0
        BY <1>a
      <4>3. \A p \in ChargedTo(kk)' : p \in Charged' /\ <<req'[p].route, Caller(p)'>> = kk
        BY DEF ChargedTo
      <4>4. \A p \in ChargedTo(kk)' : req'[p].route = req[q].route /\ Caller(p)' = Caller(q)
        BY <3>3, <4>3
      <4> QED
        BY <3>2, <4>1, <4>2, <4>3, <4>4 DEF Own
    <3>5. /\ Cardinality(ChargedTo(kk)') \in Nat /\ Cardinality(Own(q)') \in Nat
          /\ Cardinality(ChargedTo(kk)') <= Cardinality(Own(q)')
      BY <1>4, <2>1, <3>4, OneMore
    <3>6. Copies(kk, spent') <= Cardinality(ChargedTo(kk)')
      BY <1>6
    <3>7. Copies(kk, spent') \in Nat
      <4>1. IsABag(spent')
        BY ShapeKept DEF ShapeInv
      <4> QED
        BY <4>1, BagFacts
    <3>8. cfg.limit[req[q].route] \in Int
      BY <3>1, ConfigFacts DEF ShapeInv
    <3>9. ~ (Copies(kk, spent') <= cfg.limit[req[q].route])
      BY <3>1, <3>3
    <3> QED
      BY <1>0, <3>1, <3>2, <3>5, <3>6, <3>7, <3>8, <3>9
  <2> QED
    BY <2>2, <2>3
<1> QED
  BY <1>6, <1>7 DEF SpentInv

\* The metrics count every answer, once.
LEMMA CountedKept ==
    ASSUME ShapeInv, \A q \in Requests : RequestInv(q), CountedInv, [Next]_vars
    PROVE  CountedInv'
<1>0. cfg' = cfg /\ tokens \subseteq tokens'
  BY ShapeKept
<1>1. \A q \in Done : /\ q \in Requests /\ q \in Done' /\ Label(q)' = Label(q)
                      /\ req'[q] = req[q] /\ reply'[q] = reply[q]
  <2> SUFFICES ASSUME NEW q \in Done
               PROVE  /\ q \in Requests /\ q \in Done' /\ Label(q)' = Label(q)
                      /\ req'[q] = req[q] /\ reply'[q] = reply[q]
    OBVIOUS
  <2>1. q \in Requests /\ reply[q] # 0 /\ q \notin panicked
    BY DEF Done, Answered
  <2>2. Still(q)
    BY <2>1, Moves
  <2>3. Label(q)' = Label(q)
    BY <1>0, <2>1, <2>2, StillKeeps
  <2> QED
    BY <2>1, <2>2, <2>3 DEF Still, Done, Answered
<1>2. \A x : /\ Told(x) \in SUBSET Requests /\ Denied(x) \in SUBSET Requests
             /\ Told(x)' \in SUBSET Requests /\ Denied(x)' \in SUBSET Requests
  BY DEF Told, Denied, Done
<1>3. \A S, T \in SUBSET Requests : \A r :
        r \notin S /\ T = S \cup {r} => Cardinality(T) = Cardinality(S) + 1
  BY OneMore
<1>4. IsABag(counted) /\ IsABag(limited)
  BY DEF ShapeInv
<1>5. ASSUME Done' = Done, limited' = limited, counted' = counted PROVE CountedInv'
  <2>1. \A x : Told(x)' = Told(x) /\ Denied(x)' = Denied(x)
    BY <1>1, <1>5 DEF Told, Denied
  <2> QED
    BY <1>0, <1>5, <2>1 DEF CountedInv
<1>6. ASSUME NEW r \in Requests, NEW lo \in Outcomes, Returning(r, lo[1], lo[2])
      PROVE  CountedInv'
  <2> DEFINE o == lo[2]
  <2>1. /\ reply' = [reply EXCEPT ![r] = Rendered(o)]
        /\ o.kind = "panic" => panicked' = panicked \cup {r} /\ UNCHANGED <<logged, counted>>
        /\ o.kind # "panic" =>
             /\ panicked' = panicked
             /\ cfg.metricsEnabled =>
                  counted' = counted (+) SetToBag({<<Label(r), Rendered(o)>>})
        /\ reply[r] = 0 /\ r \notin panicked /\ DOMAIN reply = Requests
        /\ UNCHANGED <<cfg, req, at>>
    BY <1>6, ReturningEffect
  <2>2. /\ Rendered(o) \in Statuses
        /\ Rendered(o) = 429 <=> o.status = 429
        /\ o.status = 429 => o.kind # "panic"
    BY OutcomeFacts
  <2>3. /\ o.status = 429 => limited' = limited (+) SetToBag({req[r].route})
        /\ o.status # 429 => limited' = limited
    BY <1>6 DEF Returning
  <2> HIDE DEF o
  <2>4. r \notin Done
    BY <2>1 DEF Done, Answered
  <2>5. CASE o.kind = "panic"
    <3>1. Done' = Done
      BY <2>1, <2>4, <2>5 DEF Done, Answered
    <3> QED
      BY <1>5, <2>1, <2>2, <2>3, <2>5, <3>1
  <2>6. CASE o.kind # "panic"
    <3>1. reply'[r] = Rendered(o) /\ Rendered(o) # 0
      BY <2>1, <2>2 DEF Statuses
    <3>2. Done' = Done \cup {r}
      <4>1. \A q \in Requests : q # r => reply'[q] = reply[q]
        BY <2>1
      <4>2. panicked' = panicked /\ r \notin panicked
        BY <2>1, <2>6
      <4> QED
        BY <3>1, <4>1, <4>2 DEF Done, Answered
    <3>3. Label(r)' = Label(r) /\ req' = req
      BY <2>1 DEF Label, Layer, Chain
    <3>4. ASSUME NEW x, cfg'.metricsEnabled
          PROVE  Copies(x, counted') = Cardinality(Told(x)')
      <4> DEFINE y == <<Label(r), Rendered(o)>>
      <4>0. cfg.metricsEnabled
        BY <1>0, <3>4
      <4>1. counted' = counted (+) SetToBag({y})
        BY <2>1, <2>6, <4>0, Zenon
      <4>2. Copies(x, counted) = Cardinality(Told(x))
        BY <4>0, Zenon DEF CountedInv
      <4>3. <<Label(r)', reply'[r]>> = y
        BY <3>1, <3>3
      <4> HIDE DEF y
      <4>4. Copies(x, counted') = IF x = y THEN Copies(x, counted) + 1 ELSE Copies(x, counted)
        BY <1>4, <4>1, BagFacts
      <4>5. CASE x = y
        <5>1. Told(x)' = Told(x) \cup {r} /\ r \notin Told(x)
          BY <1>1, <2>4, <3>2, <4>3, <4>5 DEF Told
        <5>2. Cardinality(Told(x)') = Cardinality(Told(x)) + 1
          BY <1>2, <1>3, <5>1
        <5> QED
          BY <4>2, <4>4, <4>5, <5>2
      <4>6. CASE x # y
        <5>1. Told(x)' = Told(x)
          BY <1>1, <2>4, <3>2, <4>3, <4>6 DEF Told
        <5> QED
          BY <4>2, <4>4, <4>6, <5>1
      <4> QED
        BY <4>5, <4>6
    <3>5. ASSUME NEW x PROVE Copies(x, limited') = Cardinality(Denied(x)')
      <4>1. Copies(x, limited) = Cardinality(Denied(x))
        BY DEF CountedInv
      <4>2. CASE o.status = 429 /\ x = req[r].route
        <5>1. Copies(x, limited') = Copies(x, limited) + 1
          <6>1. limited' = limited (+) SetToBag({x})
            BY <2>3, <4>2
          <6> QED
            BY <1>4, <6>1, BagFacts
        <5>2. Denied(x)' = Denied(x) \cup {r} /\ r \notin Denied(x)
          BY <1>1, <2>2, <2>4, <3>1, <3>2, <3>3, <4>2 DEF Denied
        <5>3. Cardinality(Denied(x)') = Cardinality(Denied(x)) + 1
          BY <1>2, <1>3, <5>2
        <5> QED
          BY <4>1, <5>1, <5>3
      <4>3. CASE o.status # 429 \/ x # req[r].route
        <5>1. Copies(x, limited') = Copies(x, limited)
          <6> DEFINE y == req[r].route
          <6>1. limited' = limited \/ (limited' = limited (+) SetToBag({y}) /\ x # y)
            BY <2>3, <4>3
          <6> HIDE DEF y
          <6>2. CASE limited' = limited
            BY <6>2
          <6>3. CASE limited' = limited (+) SetToBag({y}) /\ x # y
            BY <1>4, <6>3, BagFacts
          <6> QED
            BY <6>1, <6>2, <6>3
        <5>2. Denied(x)' = Denied(x)
          BY <1>1, <2>2, <2>4, <3>1, <3>2, <3>3, <4>3 DEF Denied
        <5> QED
          BY <4>1, <5>1, <5>2
      <4> QED
        BY <4>2, <4>3
    <3> QED
      BY <3>4, <3>5 DEF CountedInv
  <2> QED
    BY <2>5, <2>6
<1>7. ASSUME Quiet \/ \E r \in Requests : Arriving(r) \/ \E l \in RouteNames : Passing(r, l)
      PROVE  Done' = Done /\ limited' = limited /\ counted' = counted
  <2>1. reply' = reply /\ panicked' = panicked /\ limited' = limited /\ counted' = counted
    BY <1>7 DEF Quiet, Arriving, Receive, Passing
  <2> QED
    BY <2>1 DEF Done, Answered
<1> QED
  BY <1>5, <1>6, <1>7, StepKinds

-----------------------------------------------------------------------------
(* The theorems.                                                           *)

\* The invariant holds when the process starts.
LEMMA PipelineInit == Init => PipelineInv
<1> SUFFICES ASSUME Init PROVE PipelineInv
  OBVIOUS
<1>0. /\ now = 0 /\ judged = [r \in Requests |-> 0] /\ reply = [r \in Requests |-> 0]
      /\ spent = EmptyBag /\ cfg \in Configs
  BY DEF Init
<1>a. 0 \in 0 .. MaxTime
  BY PipelineAssumption
<1>1. ShapeInv
  <2>1. cfg \in Configs /\ now \in 0 .. MaxTime
    BY <1>0, <1>a
  <2>2. \A t \in tokens : Genuine(t)
    <3>1. PICK t \in IssuedAt : tokens = {GenerateToken(cfg, u, t) : u \in Users}
      BY DEF Init
    <3>2. t \in Int
      BY PipelineAssumption
    <3>3. \A u \in Users : Genuine(GenerateToken(cfg, u, t))
      BY <2>1, <3>2, GenerateTokenFacts
    <3> QED
      BY <3>1, <3>3
  <2>3. /\ DOMAIN req = Requests
        /\ \A r \in Requests : req[r].route \in Routes
    BY DEF Init, NoRequest, Routes
  <2>4. /\ at \in [Requests -> Nat]
        /\ locals \in [Requests -> [user : Users \cup {None}, role : {"", "ADMIN", "USER"}]]
        /\ DOMAIN logged = Requests /\ panicked \in SUBSET Requests
    BY DEF Init
  <2>5. judged \in [Requests -> 0 .. MaxTime] /\ reply \in [Requests -> {0} \cup Statuses]
    BY <1>0, <1>a
  <2>6. IsABag(EmptyBag)
    BY DEF IsABag, EmptyBag, SetToBag
  <2> QED
    BY <2>1, <2>2, <2>3, <2>4, <2>5, <2>6 DEF Init, ShapeInv
<1>2. ASSUME NEW r \in Requests PROVE RequestInv(r)
  <2>1. /\ at[r] = 0 /\ reply[r] = 0 /\ r \notin panicked
        /\ locals[r].user = None
    BY DEF Init
  <2>2. ~Answered(r)
    BY <2>1 DEF Answered
  <2>3. Len(Global(cfg)) \in 2 .. 3
    <3>1. ChainOrder(Chain(r), Len(Global(cfg)), cfg, req[r].route)
      BY <1>1, ChainFacts DEF ShapeInv, Chain
    <3> QED
      BY <3>1 DEF ChainOrder
  <2>4. Len(Global(cfg)) + 1 .. at[r] - 1 = {}
    BY <2>1, <2>3
  <2> QED
    BY <2>1, <2>2, <2>4 DEF RequestInv
<1>3. \A x : Copies(x, EmptyBag) = 0
  BY DEF Copies, BagIn, BagToSet, EmptyBag, SetToBag
<1>4. SpentInv
  <2>1. ASSUME NEW k PROVE Copies(k, spent) <= Cardinality(ChargedTo(k))
    <3>1. ChargedTo(k) \in SUBSET Requests
      BY DEF ChargedTo, Charged
    <3>2. Cardinality(ChargedTo(k)) \in Nat
      BY <3>1, OneMore
    <3> QED
      BY <1>0, <1>3, <3>2
  <2>2. \A r \in Requests : reply[r] # 429
    BY <1>0
  <2> QED
    BY <2>1, <2>2 DEF SpentInv
<1>5. CountedInv
  <2>1. \A x : Told(x) = {} /\ Denied(x) = {}
    BY DEF Init, Told, Denied, Done, Answered
  <2>2. Cardinality({}) = 0
    BY FS_EmptySet
  <2> QED
    BY <1>3, <2>1, <2>2 DEF Init, CountedInv
<1> QED
  BY <1>1, <1>2, <1>4, <1>5 DEF PipelineInv

\* Every step of the process keeps it.
LEMMA PipelineNext == PipelineInv /\ [Next]_vars => PipelineInv'
<1> SUFFICES ASSUME PipelineInv, [Next]_vars PROVE PipelineInv'
  OBVIOUS
<1>1. ShapeInv /\ (\A q \in Requests : RequestInv(q)) /\ SpentInv /\ CountedInv
  BY DEF PipelineInv
<1> QED
  BY <1>1, ShapeKept, RequestsKept, SpentKept, CountedKept DEF PipelineInv

\* The requests, the limiter's counters and the metrics are at all times as PipelineInv
\* says, in every environment the process serves in.
THEOREM PipelineCorrect == Spec => []PipelineInv
  BY PipelineInit, PipelineNext, PTL DEF Spec

\* TypeOK is part of it.
THEOREM TypeCorrect == Spec => []TypeOK
<1>1. PipelineInv => TypeOK
  <2> SUFFICES ASSUME PipelineInv PROVE TypeOK
    OBVIOUS
  <2>1. ShapeInv /\ \A r \in Requests : RequestInv(r)
    BY DEF PipelineInv
  <2>2. /\ cfg \in Configs /\ now \in 0 .. MaxTime
        /\ \A t \in tokens : t.kind = "jwt" /\ t.user \in Users
        /\ panicked \subseteq Requests
        /\ IsABag(spent) /\ IsABag(counted) /\ IsABag(limited)
    BY <2>1 DEF ShapeInv, Genuine
  <2>3. ASSUME NEW r \in Requests
        PROVE  /\ req[r].route \in Routes
               /\ at[r] \in 0 .. Len(Chain(r))
               /\ locals[r].user \in Users \cup {None}
               /\ judged[r] \in 0 .. MaxTime
               /\ reply[r] \in {0} \cup Statuses
    <3>1. /\ req[r].route \in Routes
          /\ judged[r] \in 0 .. MaxTime
          /\ reply[r] \in {0} \cup Statuses
      BY <2>1 DEF ShapeInv
    <3>2. locals[r].user \in Users \cup {None}
      BY <2>1 DEF ShapeInv
    <3>3. at[r] \in 0 .. Len(Chain(r))
      <4>1. ChainOrder(Chain(r), Len(Global(cfg)), cfg, req[r].route)
        BY <2>1, ChainFacts DEF ShapeInv, Chain
      <4>2. Len(Chain(r)) \in Nat /\ Len(Global(cfg)) \in 2 .. 3
        BY <4>1 DEF ChainOrder
      <4>3. at[r] # 0 => at[r] \in Len(Global(cfg)) + 1 .. Len(Chain(r))
        BY <2>1 DEF RequestInv
      <4> QED
        BY <4>2, <4>3
    <3> QED
      BY <3>1, <3>2, <3>3
  <2> QED
    BY <2>2, <2>3 DEF TypeOK
<1> QED
  BY <1>1, PipelineCorrect, PTL

\* Who is behind a handler is entitled to it.
LEMMA ServedWhenIn == PipelineInv => ServedToEntitled
<1> SUFFICES ASSUME PipelineInv, NEW r \in Requests, Layer(r) = "handler"
             PROVE  /\ req[r].route \in Protected =>
                         /\ req[r].header \in tokens
                         /\ locals[r].user = req[r].header.user
                         /\ judged[r] < req[r].header.told
                    /\ req[r].route = "admin" => req[r].header.user \in Admins
                    /\ req[r].route = "metrics" /\ ~IsDevelopment(cfg) =>
                         req[r].header.kind = "metricsToken"
  BY DEF ServedToEntitled
<1> DEFINE g == Len(Global(cfg))
           n == at[r]
           ch == Chain(r)
           route == req[r].route
           header == req[r].header
<1>1. ShapeInv /\ RequestInv(r)
  BY DEF PipelineInv
<1>2. n # 0 /\ ch[n] = "handler"
  BY DEF Layer
<1>3. n \in g + 1 .. Len(ch)
  BY <1>1, <1>2 DEF RequestInv
<1>4. ChainOrder(ch, g, cfg, route)
  BY <1>1, ChainFacts DEF ShapeInv, Chain
<1>5. \A i \in g + 1 .. n - 1 :
       /\ ch[i] = "auth" => Entitled(r)
       /\ ch[i] = "role" => locals[r].role = "ADMIN"
       /\ ch[i] = "metricsAuth" => cfg.metricsToken = Unset \/ header.kind = "metricsToken"
  BY <1>1 DEF RequestInv
<1> HIDE DEF g, n, ch
<1>6. g \in 2 .. 3 /\ n \in Int
  BY <1>3, <1>4 DEF ChainOrder
<1>7. /\ route \in Protected => g + 1 < n /\ ch[g + 1] = "auth"
      /\ route = "admin" => g + 2 < n /\ ch[g + 2] = "role"
      /\ route = "metrics" => g + 1 < n /\ ch[g + 1] = "metricsAuth"
  BY <1>2, <1>3, <1>4 DEF ChainOrder
<1>8. /\ g + 1 < n => g + 1 \in g + 1 .. n - 1
      /\ g + 2 < n => g + 2 \in g + 1 .. n - 1
  BY <1>6
<1>9. route \in Protected => Entitled(r)
  BY <1>5, <1>7, <1>8
<1>10. Entitled(r) => /\ header \in tokens /\ Genuine(header)
                      /\ locals[r].user = header.user /\ locals[r].role = header.role
                      /\ judged[r] < header.exp /\ judged[r] \in Int
  <2>1. judged[r] \in 0 .. MaxTime /\ \A t \in tokens : Genuine(t)
    BY <1>1 DEF ShapeInv
  <2>2. judged[r] \in Int
    BY <2>1
  <2> QED
    BY <2>1, <2>2 DEF Entitled
<1>11. Entitled(r) => judged[r] < header.told
  BY <1>10 DEF Genuine
<1>12. route = "admin" => header.user \in Admins
  <2> HAVE route = "admin"
  <2>1. route \in Protected
    BY DEF Protected
  <2>2. locals[r].role = "ADMIN" /\ Entitled(r)
    BY <1>5, <1>7, <1>8, <1>9, <2>1
  <2> QED
    BY <1>10, <2>2 DEF Genuine
<1>13. route = "metrics" /\ ~IsDevelopment(cfg) => header.kind = "metricsToken"
  <2> HAVE route = "metrics" /\ ~IsDevelopment(cfg)
  <2>1. cfg.metricsEnabled
    BY <1>2, <1>3, <1>4 DEF ChainOrder
  <2>2. cfg.metricsToken # Unset
    BY <1>1, <2>1, ConfigFacts DEF ShapeInv
  <2> QED
    BY <1>5, <1>7, <1>8, <2>2
<1> QED
  BY <1>9, <1>10, <1>11, <1>12, <1>13

\* ServedToEntitled, for every route, token and environment: no order in which requests
\* arrive, tokens run out and layers interleave brings a request to a handler that is not
\* for its caller.
THEOREM Served == Spec => []ServedToEntitled
  BY ServedWhenIn, PipelineCorrect, PTL

\* RefusedOnlyWhenExpired: whatever the expiry and wherever in the second the login fell,
\* cutting the date costs the user less than a second.
THEOREM Refused == Spec => []RefusedOnlyWhenExpired
<1>1. PipelineInv => RefusedOnlyWhenExpired
  <2> SUFFICES ASSUME PipelineInv, NEW r \in Requests,
                      Answered(r), Layer(r) = "auth", req[r].header \in tokens
               PROVE  judged[r] > req[r].header.told - Second
    BY DEF RefusedOnlyWhenExpired
  <2>1. ShapeInv /\ RequestInv(r)
    BY DEF PipelineInv
  <2>2. Genuine(req[r].header) /\ judged[r] \in Int
    <3>1. judged[r] \in 0 .. MaxTime /\ Genuine(req[r].header)
      BY <2>1 DEF ShapeInv
    <3> QED
      BY <3>1
  <2>3. ~ (judged[r] < req[r].header.exp)
    BY <2>1, <2>2 DEF RequestInv, Genuine
  <2> QED
    BY <2>2, <2>3, PipelineAssumption DEF Genuine
<1> QED
  BY <1>1, PipelineCorrect, PTL

\* DeniedForOwnTraffic: the key of the limiter keeps callers apart, however many there are
\* and however their requests interleave.
THEOREM OwnTraffic == Spec => []DeniedForOwnTraffic
<1>1. PipelineInv => DeniedForOwnTraffic
  BY DEF PipelineInv, SpentInv, Own, DeniedForOwnTraffic
<1> QED
  BY <1>1, PipelineCorrect, PTL

\* CountedAsAnswered: counters and log agree with the answers, for every number of requests.
THEOREM Observability == Spec => []CountedAsAnswered
<1>1. PipelineInv => CountedAsAnswered
  <2> SUFFICES ASSUME PipelineInv PROVE CountedAsAnswered
    OBVIOUS
  <2>1. ShapeInv /\ (\A r \in Requests : RequestInv(r)) /\ CountedInv
    BY DEF PipelineInv
  <2>2. ASSUME cfg.metricsEnabled, NEW r \in Requests, NEW s \in Statuses
        PROVE  Copies(<<Label(r), s>>, counted) =
                 Cardinality({q \in Done : Label(q) = Label(r) /\ reply[q] = s})
    <3> DEFINE x == <<Label(r), s>>
    <3>1. Told(x) = {q \in Done : Label(q) = Label(r) /\ reply[q] = s}
      BY DEF Told
    <3>2. Copies(x, counted) = Cardinality(Told(x))
      BY <2>1, <2>2, Zenon DEF CountedInv
    <3> QED
      BY <3>1, <3>2
  <2>3. \A scope \in Scopes : Copies(scope, limited) =
            Cardinality({r \in Done : req[r].route = scope /\ reply[r] = 429})
    BY <2>1 DEF CountedInv, Denied
  <2>4. ASSUME NEW r \in Done
        PROVE  /\ logged[r].status = reply[r]
               /\ Layer(r) = "handler" /\ req[r].route \in Protected
                    => logged[r].user = req[r].header.user
    <3>1. r \in Requests /\ Answered(r) /\ r \notin panicked
      BY DEF Done
    <3>2. logged[r].status = reply[r] /\ logged[r].user = locals[r].user
      BY <2>1, <3>1 DEF RequestInv
    <3>3. Layer(r) = "handler" /\ req[r].route \in Protected =>
            locals[r].user = req[r].header.user
      BY <3>1, ServedWhenIn DEF ServedToEntitled
    <3> QED
      BY <3>2, <3>3
  <2> QED
    BY <2>2, <2>3, <2>4 DEF CountedAsAnswered, Done
<1> QED
  BY <1>1, PipelineCorrect, PTL
=============================================================================
