-------------------------- MODULE EngagementProofs --------------------------
(*****************************************************************************)
(* Proofs about DeviceEngagement and DeviceKeys: what one party writes as    *)
(* CBOR another reads again, for every engagement, device key and            *)
(* authorization that the types allow.                                       *)
(*****************************************************************************)
EXTENDS DeviceEngagement, DeviceKeys, FiniteSetTheorems, SequenceTheorems, WellFoundedInduction, TLAPS

-----------------------------------------------------------------------------
(* Maps with integer keys *)

\* Entries with integer keys that differ, and the map that they are.
Table(s, m) ==
    /\ \E S : s \in Seq(S)
    /\ \A i \in DOMAIN s : s[i][1] = Integer(s[i][1].int) /\ s[i][1].int \in DOMAIN m /\ m[s[i][1].int] = s[i][2]
    /\ \A i, j \in DOMAIN s : s[i][1].int = s[j][1].int => i = j
    /\ m = [k \in DOMAIN m |-> m[k]]
    /\ \A k \in DOMAIN m : \E i \in DOMAIN s : s[i][1].int = k

\* Such entries are read as that map.
LEMMA TableIsRead ==
    ASSUME NEW s, NEW m, Table(s, m)
    PROVE  IntegerMap(Map(s)) = {m}
<1>1. PICK v : v = Map(s)
    OBVIOUS
<1>2. Is("map", v) /\ v.map = s
    BY <1>1 DEF Map, Is
<1>0. /\ \A i \in DOMAIN s : s[i][1] = Integer(s[i][1].int) /\ s[i][1].int \in DOMAIN m
      /\ \A k \in DOMAIN m : \E i \in DOMAIN s : s[i][1].int = k
    BY DEF Table
<1>3. \A i \in DOMAIN s : Is("int", s[i][1])
    <2>1. \A x : Is("int", Integer(x))
        BY DEF Integer, Is
    <2>. QED BY <1>0, <2>1
<1>4. DOMAIN s \subseteq Int
    BY DEF Table
<1>5. {s[i][1].int : i \in DOMAIN s} = DOMAIN m
    BY <1>0
<1>6. \A k \in DOMAIN m :
        s[CHOOSE i \in DOMAIN s : s[i][1].int = k /\ \A j \in DOMAIN s : s[j][1].int = k => j <= i][2] = m[k]
    <2>1. ASSUME NEW k \in DOMAIN m
          PROVE  s[CHOOSE i \in DOMAIN s : s[i][1].int = k /\ \A j \in DOMAIN s : s[j][1].int = k => j <= i][2] = m[k]
        <3>1. PICK n \in DOMAIN s : s[n][1].int = k
            BY DEF Table
        <3>2. \A j \in DOMAIN s : s[j][1].int = k => j = n
            BY <3>1 DEF Table
        <3>3. n <= n
            BY <1>4, <3>1
        <3>4. (CHOOSE i \in DOMAIN s : s[i][1].int = k /\ \A j \in DOMAIN s : s[j][1].int = k => j <= i) = n
            BY <3>1, <3>2, <3>3
        <3>5. s[n][2] = m[k]
            BY <3>1 DEF Table
        <3>. QED BY <3>4, <3>5
    <2>. QED BY <2>1
<1>7. [k \in DOMAIN m |->
        s[CHOOSE i \in DOMAIN s : s[i][1].int = k /\ \A j \in DOMAIN s : s[j][1].int = k => j <= i][2]] = m
    <2>1. m = [k \in DOMAIN m |-> m[k]]
        BY DEF Table
    <2>. QED BY <1>6, <2>1
<1>8. IntegerMap(v) = {[k \in {s[i][1].int : i \in DOMAIN s} |->
        s[CHOOSE i \in DOMAIN s : s[i][1].int = k /\ \A j \in DOMAIN s : s[j][1].int = k => j <= i][2]]}
    BY <1>2, <1>3 DEF IntegerMap
<1>. QED BY <1>1, <1>5, <1>7, <1>8

\* No entry, one entry, an optional entry.
EmptyMap == [k \in {} |-> 0]
OneEntry(key, v) == [k \in {key} |-> v]

LEMMA EmptyTable == Table(<<>>, EmptyMap)
<1>1. <<>> \in Seq({}) /\ DOMAIN <<>> = {} /\ DOMAIN EmptyMap = {}
    BY DEF EmptyMap
<1>2. EmptyMap = [k \in DOMAIN EmptyMap |-> EmptyMap[k]]
    BY DEF EmptyMap
<1>. QED BY <1>1, <1>2 DEF Table

LEMMA OneTable ==
    ASSUME NEW key, NEW v
    PROVE  Table(<<<<Integer(key), v>>>>, OneEntry(key, v))
<1>1. PICK s, m : s = <<<<Integer(key), v>>>> /\ m = OneEntry(key, v)
    OBVIOUS
<1>2. s \in Seq({<<Integer(key), v>>}) /\ DOMAIN s = {1} /\ s[1] = <<Integer(key), v>>
    BY <1>1
<1>3. s[1][1] = Integer(key) /\ s[1][2] = v /\ s[1][1].int = key
    BY <1>2 DEF Integer
<1>4. DOMAIN m = {key} /\ m[key] = v /\ m = [k \in DOMAIN m |-> m[k]]
    BY <1>1 DEF OneEntry
<1>5. \E S : s \in Seq(S)
    BY <1>2
<1>6. Table(s, m)
    BY <1>2, <1>3, <1>4, <1>5 DEF Table
<1>. QED BY <1>1, <1>6

\* Entries one after the other.
Joined(m, n) == [k \in DOMAIN m \cup DOMAIN n |-> IF k \in DOMAIN m THEN m[k] ELSE n[k]]

LEMMA JoinedTable ==
    ASSUME NEW s, NEW m, Table(s, m), NEW t, NEW n, Table(t, n), DOMAIN m \cap DOMAIN n = {}
    PROVE  Table(s \o t, Joined(m, n))
<1>1. PICK S : s \in Seq(S)
    BY DEF Table
<1>2. PICK T : t \in Seq(T)
    BY DEF Table
<1>3. s \in Seq(S \cup T) /\ t \in Seq(S \cup T)
    BY <1>1, <1>2
<1>4. PICK c, a, b, e : c = s \o t /\ a = Len(s) /\ b = Len(t) /\ e = Joined(m, n)
    OBVIOUS
<1>5. a \in Nat /\ b \in Nat /\ DOMAIN s = 1..a /\ DOMAIN t = 1..b
    BY <1>3, <1>4
<1>6. /\ c \in Seq(S \cup T) /\ DOMAIN c = 1..(a + b)
      /\ \A i \in 1..(a + b) : c[i] = IF i <= a THEN s[i] ELSE t[i - a]
    BY <1>3, <1>4, <1>5, ConcatProperties
<1>7. /\ \A i \in 1..a : i \in 1..(a + b) /\ c[i] = s[i]
      /\ \A i \in 1..b : a + i \in 1..(a + b) /\ c[a + i] = t[i]
      /\ \A i \in 1..(a + b) : i \in 1..a \/ \E j \in 1..b : i = a + j
    <2>1. \A i \in 1..a : i \in 1..(a + b) /\ c[i] = s[i]
        BY <1>5, <1>6
    <2>2. ASSUME NEW i \in 1..b PROVE a + i \in 1..(a + b) /\ c[a + i] = t[i]
        <3>1. a + i \in 1..(a + b) /\ ~(a + i <= a) /\ (a + i) - a = i
            BY <1>5
        <3>. QED BY <1>6, <3>1
    <2>3. ASSUME NEW i \in 1..(a + b) PROVE i \in 1..a \/ \E j \in 1..b : i = a + j
        <3>1. CASE i > a
            <4>1. i - a \in 1..b /\ i = a + (i - a)
                BY <1>5, <3>1
            <4>. QED BY <4>1
        <3>2. CASE ~(i > a)
            BY <1>5, <3>2
        <3>. QED BY <3>1, <3>2
    <2>. QED BY <2>1, <2>2, <2>3
<1>8. /\ DOMAIN e = DOMAIN m \cup DOMAIN n /\ e = [k \in DOMAIN e |-> e[k]]
      /\ \A k \in DOMAIN m : e[k] = m[k]
      /\ \A k \in DOMAIN n : e[k] = n[k]
    BY <1>4 DEF Joined
<1>9. \A i \in 1..a : s[i][1] = Integer(s[i][1].int) /\ s[i][1].int \in DOMAIN m /\ m[s[i][1].int] = s[i][2]
    BY <1>5 DEF Table
<1>10. \A i \in 1..b : t[i][1] = Integer(t[i][1].int) /\ t[i][1].int \in DOMAIN n /\ n[t[i][1].int] = t[i][2]
    BY <1>5 DEF Table
<1>11. \A i \in 1..(a + b) : c[i][1] = Integer(c[i][1].int) /\ c[i][1].int \in DOMAIN e /\ e[c[i][1].int] = c[i][2]
    BY <1>7, <1>8, <1>9, <1>10
<1>12. ASSUME NEW i \in 1..(a + b), NEW j \in 1..(a + b), c[i][1].int = c[j][1].int
       PROVE  i = j
    <2>1. CASE i \in 1..a /\ j \in 1..a
        BY <1>5, <1>7, <1>12, <2>1 DEF Table
    <2>2. ASSUME NEW p \in 1..b, i = a + p, NEW q \in 1..b, j = a + q
          PROVE  i = j
        <3>1. t[p][1].int = t[q][1].int
            BY <1>7, <1>12, <2>2
        <3>. QED BY <1>5, <2>2, <3>1 DEF Table
    <2>3. ASSUME NEW x \in 1..a, NEW p \in 1..b
          PROVE  c[x][1].int # c[a + p][1].int
        BY <1>7, <1>9, <1>10
    <2>. QED BY <1>7, <1>12, <2>1, <2>2, <2>3
<1>13. ASSUME NEW k \in DOMAIN e
       PROVE  \E i \in 1..(a + b) : c[i][1].int = k
    <2>1. CASE k \in DOMAIN m
        <3>1. PICK i \in 1..a : s[i][1].int = k
            BY <1>5, <2>1 DEF Table
        <3>. QED BY <1>7, <3>1
    <2>2. CASE k \in DOMAIN n
        <3>1. PICK i \in 1..b : t[i][1].int = k
            BY <1>5, <2>2 DEF Table
        <3>. QED BY <1>7, <3>1
    <2>. QED BY <1>8, <1>13, <2>1, <2>2
<1>14. \E U : c \in Seq(U)
    BY <1>6
<1>15. Table(c, e)
    BY <1>6, <1>8, <1>11, <1>12, <1>13, <1>14 DEF Table
<1>. QED BY <1>4, <1>15

\* Entries that are written out.
Pair(k, v) == <<Integer(k), v>>

LEMMA PairParts ==
    ASSUME NEW k, NEW v
    PROVE  Pair(k, v)[1] = Integer(k) /\ Pair(k, v)[2] = v /\ Integer(k).int = k
BY DEF Pair, Integer

TwoMap(k1, v1, k2, v2) ==
    [k \in {k1, k2} |-> IF k = k1 THEN v1 ELSE v2]

LEMMA TwoEntries ==
    ASSUME NEW k1, NEW k2, k1 # k2,
           NEW v1, NEW v2
    PROVE  Table(<<Pair(k1, v1), Pair(k2, v2)>>, TwoMap(k1, v1, k2, v2))
<1>1. PICK s : s = <<Pair(k1, v1), Pair(k2, v2)>>
    OBVIOUS
<1>2. PICK m : m = TwoMap(k1, v1, k2, v2)
    OBVIOUS
<1>3. s \in Seq({Pair(k1, v1), Pair(k2, v2)}) /\ DOMAIN s = {1, 2} /\ s[1] = Pair(k1, v1) /\ s[2] = Pair(k2, v2)
    BY <1>1
<1>4. /\ s[1][1] = Integer(k1) /\ s[1][2] = v1 /\ s[1][1].int = k1
      /\ s[2][1] = Integer(k2) /\ s[2][2] = v2 /\ s[2][1].int = k2
    BY <1>3, PairParts
<1>5. DOMAIN m = {k1, k2} /\ m[k1] = v1 /\ m[k2] = v2 /\ m = [k \in DOMAIN m |-> m[k]]
    BY <1>2 DEF TwoMap
<1>6. \E S : s \in Seq(S)
    BY <1>3
<1>7. Table(s, m)
    BY <1>3, <1>4, <1>5, <1>6 DEF Table
<1>. QED BY <1>1, <1>2, <1>7

ThreeMap(k1, v1, k2, v2, k3, v3) ==
    [k \in {k1, k2, k3} |-> IF k = k1 THEN v1 ELSE IF k = k2 THEN v2 ELSE v3]

LEMMA ThreeEntries ==
    ASSUME NEW k1, NEW k2, NEW k3, k1 # k2, k1 # k3, k2 # k3,
           NEW v1, NEW v2, NEW v3
    PROVE  Table(<<Pair(k1, v1), Pair(k2, v2), Pair(k3, v3)>>, ThreeMap(k1, v1, k2, v2, k3, v3))
<1>1. PICK s : s = <<Pair(k1, v1), Pair(k2, v2), Pair(k3, v3)>>
    OBVIOUS
<1>2. PICK m : m = ThreeMap(k1, v1, k2, v2, k3, v3)
    OBVIOUS
<1>3. /\ s \in Seq({Pair(k1, v1), Pair(k2, v2), Pair(k3, v3)}) /\ DOMAIN s = {1, 2, 3}
      /\ s[1] = Pair(k1, v1) /\ s[2] = Pair(k2, v2) /\ s[3] = Pair(k3, v3)
    BY <1>1
<1>4. /\ s[1][1] = Integer(k1) /\ s[1][2] = v1 /\ s[1][1].int = k1
      /\ s[2][1] = Integer(k2) /\ s[2][2] = v2 /\ s[2][1].int = k2
      /\ s[3][1] = Integer(k3) /\ s[3][2] = v3 /\ s[3][1].int = k3
    BY <1>3, PairParts
<1>5. /\ DOMAIN m = {k1, k2, k3} /\ m[k1] = v1 /\ m[k2] = v2 /\ m[k3] = v3
      /\ m = [k \in DOMAIN m |-> m[k]]
    BY <1>2 DEF ThreeMap
<1>6. \E S : s \in Seq(S)
    BY <1>3
<1>7. Table(s, m)
    BY <1>3, <1>4, <1>5, <1>6 DEF Table
<1>. QED BY <1>1, <1>2, <1>7

FourMap(k1, v1, k2, v2, k3, v3, k4, v4) ==
    [k \in {k1, k2, k3, k4} |-> IF k = k1 THEN v1 ELSE IF k = k2 THEN v2 ELSE IF k = k3 THEN v3 ELSE v4]

LEMMA FourEntries ==
    ASSUME NEW k1, NEW k2, NEW k3, NEW k4, k1 # k2, k1 # k3, k1 # k4, k2 # k3, k2 # k4, k3 # k4,
           NEW v1, NEW v2, NEW v3, NEW v4
    PROVE  Table(<<Pair(k1, v1), Pair(k2, v2), Pair(k3, v3), Pair(k4, v4)>>, FourMap(k1, v1, k2, v2, k3, v3, k4, v4))
<1>1. PICK s : s = <<Pair(k1, v1), Pair(k2, v2), Pair(k3, v3), Pair(k4, v4)>>
    OBVIOUS
<1>2. PICK m : m = FourMap(k1, v1, k2, v2, k3, v3, k4, v4)
    OBVIOUS
<1>3. /\ s \in Seq({Pair(k1, v1), Pair(k2, v2), Pair(k3, v3), Pair(k4, v4)}) /\ DOMAIN s = {1, 2, 3, 4}
      /\ s[1] = Pair(k1, v1) /\ s[2] = Pair(k2, v2) /\ s[3] = Pair(k3, v3) /\ s[4] = Pair(k4, v4)
    BY <1>1
<1>4. /\ s[1][1] = Integer(k1) /\ s[1][2] = v1 /\ s[1][1].int = k1
      /\ s[2][1] = Integer(k2) /\ s[2][2] = v2 /\ s[2][1].int = k2
      /\ s[3][1] = Integer(k3) /\ s[3][2] = v3 /\ s[3][1].int = k3
      /\ s[4][1] = Integer(k4) /\ s[4][2] = v4 /\ s[4][1].int = k4
    BY <1>3, PairParts
<1>5. /\ DOMAIN m = {k1, k2, k3, k4} /\ m[k1] = v1 /\ m[k2] = v2 /\ m[k3] = v3 /\ m[k4] = v4
      /\ m = [k \in DOMAIN m |-> m[k]]
    BY <1>2 DEF FourMap
<1>6. \E S : s \in Seq(S)
    BY <1>3
<1>7. Table(s, m)
    BY <1>3, <1>4, <1>5, <1>6 DEF Table
<1>. QED BY <1>1, <1>2, <1>7

-----------------------------------------------------------------------------
(* Keys *)

\* A curve has an identifier of its own among the curves of its type.
LEMMA CurveIsFound ==
    /\ \A crv \in DOMAIN EC2Curves : CurveOf(EC2Curves, EC2Curves[crv]) = {crv}
    /\ \A crv \in DOMAIN OKPCurves : CurveOf(OKPCurves, OKPCurves[crv]) = {crv}
<1>1. /\ DOMAIN EC2Curves = {"P256", "P384", "P521", "P256K"}
      /\ EC2Curves["P256"] = 1 /\ EC2Curves["P384"] = 2 /\ EC2Curves["P521"] = 3 /\ EC2Curves["P256K"] = 8
    BY DEF EC2Curves
<1>2. /\ DOMAIN OKPCurves = {"X25519", "X448", "Ed25519", "Ed448"}
      /\ OKPCurves["X25519"] = 4 /\ OKPCurves["X448"] = 5 /\ OKPCurves["Ed25519"] = 6 /\ OKPCurves["Ed448"] = 7
    BY DEF OKPCurves
<1>3. \A crv \in DOMAIN EC2Curves : CurveOf(EC2Curves, EC2Curves[crv]) = {crv}
    BY <1>1 DEF CurveOf
<1>4. \A crv \in DOMAIN OKPCurves : CurveOf(OKPCurves, OKPCurves[crv]) = {crv}
    BY <1>2 DEF CurveOf
<1>. QED BY <1>3, <1>4

\* The fields of values.
LEMMA ValueFields ==
    /\ \A x : Is("int", Integer(x)) /\ Integer(x).int = x
    /\ \A x : Is("bytes", Bytes(x)) /\ Bytes(x).bytes = x
    /\ \A x : Is("text", Text(x)) /\ Text(x).text = x
    /\ \A x : Is("array", Array(x)) /\ Array(x).array = x
    /\ \A x : Is("map", Map(x)) /\ Map(x).map = x /\ ~Is("broken", Map(x))
BY DEF Is, Integer, Bytes, Text, Array, Map

\* A key that is written is read again.
LEMMA KeyIsRead ==
    ASSUME NEW key, IsKey(key)
    PROVE  KeyFromValue(KeyValue(key)) = {key}
<1>1. CASE key.kty = "EC2"
    <2>1. /\ key = EC2Key(key.crv, key.x, key.y) /\ key.crv \in DOMAIN EC2Curves
          /\ Is("bytes", key.y) \/ Is("bool", key.y)
        BY <1>1 DEF IsKey
    <2>2. PICK crv, x, y, id : crv = key.crv /\ x = key.x /\ y = key.y /\ id = EC2Curves[crv]
        OBVIOUS
    <2>3. KeyValue(key) = Map(<<Pair(1, Integer(2)), Pair(-1, Integer(id)), Pair(-2, Bytes(x)), Pair(-3, y)>>)
        BY <1>1, <2>2 DEF KeyValue, Pair
    <2>4. PICK m : /\ Table(<<Pair(1, Integer(2)), Pair(-1, Integer(id)), Pair(-2, Bytes(x)), Pair(-3, y)>>, m)
                   /\ DOMAIN m = {1, -1, -2, -3}
                   /\ m[1] = Integer(2) /\ m[-1] = Integer(id) /\ m[-2] = Bytes(x) /\ m[-3] = y
        <3>1. PICK m : m = FourMap(1, Integer(2), -1, Integer(id), -2, Bytes(x), -3, y)
            OBVIOUS
        <3>2. Table(<<Pair(1, Integer(2)), Pair(-1, Integer(id)), Pair(-2, Bytes(x)), Pair(-3, y)>>, m)
            BY <3>1, FourEntries
        <3>. QED BY <3>1, <3>2 DEF FourMap
    <2>5. IntegerMap(KeyValue(key)) = {m}
        BY <2>3, <2>4, TableIsRead
    <2>6. /\ Is("int", m[1]) /\ m[1].int = 2 /\ Is("int", m[-1]) /\ m[-1].int = id
          /\ Is("bytes", m[-2]) /\ m[-2].bytes = x
        BY <2>4, ValueFields
    <2>7. CurveOf(EC2Curves, id) = {crv}
        BY <2>1, <2>2, CurveIsFound
    <2>8. UNION {EC2Y(w) : w \in Get(m, -3)} = {y}
        BY <2>1, <2>2, <2>4 DEF Get, EC2Y
    <2>9. {1, -1, -2} \subseteq DOMAIN m
        BY <2>4
    <2>10. KeyFromValue(KeyValue(key)) =
            {EC2Key(c, m[-2].bytes, z) : c \in CurveOf(EC2Curves, m[-1].int), z \in UNION {EC2Y(w) : w \in Get(m, -3)}}
        BY <2>5, <2>6, <2>9 DEF KeyFromValue
    <2>11. KeyFromValue(KeyValue(key)) = {EC2Key(crv, x, y)}
        BY <2>6, <2>7, <2>8, <2>10
    <2>. QED BY <2>1, <2>2, <2>11
<1>2. CASE key.kty = "OKP"
    <2>1. key = OKPKey(key.crv, key.x) /\ key.crv \in DOMAIN OKPCurves
        BY <1>2 DEF IsKey
    <2>2. PICK crv, x, id : crv = key.crv /\ x = key.x /\ id = OKPCurves[crv]
        OBVIOUS
    <2>3. KeyValue(key) = Map(<<Pair(1, Integer(1)), Pair(-1, Integer(id)), Pair(-2, Bytes(x))>>)
        BY <1>2, <2>2 DEF KeyValue, Pair
    <2>4. PICK m : /\ Table(<<Pair(1, Integer(1)), Pair(-1, Integer(id)), Pair(-2, Bytes(x))>>, m)
                   /\ DOMAIN m = {1, -1, -2}
                   /\ m[1] = Integer(1) /\ m[-1] = Integer(id) /\ m[-2] = Bytes(x)
        <3>1. PICK m : m = ThreeMap(1, Integer(1), -1, Integer(id), -2, Bytes(x))
            OBVIOUS
        <3>2. Table(<<Pair(1, Integer(1)), Pair(-1, Integer(id)), Pair(-2, Bytes(x))>>, m)
            BY <3>1, ThreeEntries
        <3>. QED BY <3>1, <3>2 DEF ThreeMap
    <2>5. IntegerMap(KeyValue(key)) = {m}
        BY <2>3, <2>4, TableIsRead
    <2>6. /\ Is("int", m[1]) /\ m[1].int = 1 /\ Is("int", m[-1]) /\ m[-1].int = id
          /\ Is("bytes", m[-2]) /\ m[-2].bytes = x
        BY <2>4, ValueFields
    <2>7. CurveOf(OKPCurves, id) = {crv}
        BY <2>1, <2>2, CurveIsFound
    <2>8. {1, -1, -2} \subseteq DOMAIN m
        BY <2>4
    <2>9. KeyFromValue(KeyValue(key)) = {OKPKey(c, m[-2].bytes) : c \in CurveOf(OKPCurves, m[-1].int)}
        BY <2>5, <2>6, <2>8 DEF KeyFromValue
    <2>10. KeyFromValue(KeyValue(key)) = {OKPKey(crv, x)}
        BY <2>6, <2>7, <2>9
    <2>. QED BY <2>1, <2>2, <2>10
<1>. QED BY <1>1, <1>2 DEF IsKey

-----------------------------------------------------------------------------
(* Optional entries *)

The(option) == CHOOSE x \in option : TRUE

LEMMA OptionValue ==
    ASSUME NEW option, AtMostOne(option), option # {}
    PROVE  option = {The(option)}
<1>1. The(option) \in option
    BY DEF The
<1>. QED BY <1>1 DEF AtMostOne

\* Entries whose keys are in a set.
TableIn(s, m, K) == Table(s, m) /\ DOMAIN m \subseteq K

EntryMap(key, option, v) == IF option = {} THEN EmptyMap ELSE OneEntry(key, v)
EntrySeq(key, option, v) == IF option = {} THEN <<>> ELSE <<Pair(key, v)>>

LEMMA PairTable ==
    ASSUME NEW key, NEW v
    PROVE  TableIn(<<Pair(key, v)>>, OneEntry(key, v), {key})
<1>1. Table(<<Pair(key, v)>>, OneEntry(key, v))
    BY OneTable DEF Pair
<1>. QED BY <1>1 DEF TableIn, OneEntry

LEMMA EntryTable ==
    ASSUME NEW key, NEW option, NEW v
    PROVE  TableIn(EntrySeq(key, option, v), EntryMap(key, option, v), {key})
<1>1. CASE option = {}
    <2>1. EntrySeq(key, option, v) = <<>> /\ EntryMap(key, option, v) = EmptyMap
        BY <1>1 DEF EntrySeq, EntryMap
    <2>2. DOMAIN EmptyMap = {}
        BY DEF EmptyMap
    <2>. QED BY <2>1, <2>2, EmptyTable DEF TableIn
<1>2. CASE option # {}
    <2>1. EntrySeq(key, option, v) = <<Pair(key, v)>> /\ EntryMap(key, option, v) = OneEntry(key, v)
        BY <1>2 DEF EntrySeq, EntryMap
    <2>. QED BY <2>1, PairTable
<1>. QED BY <1>1, <1>2

LEMMA JoinedIn ==
    ASSUME NEW s, NEW m, NEW K, TableIn(s, m, K), NEW t, NEW n, NEW L, TableIn(t, n, L), K \cap L = {}
    PROVE  TableIn(s \o t, Joined(m, n), K \cup L)
<1>1. Table(s, m) /\ Table(t, n) /\ DOMAIN m \subseteq K /\ DOMAIN n \subseteq L
    BY DEF TableIn
<1>2. Table(s \o t, Joined(m, n))
    BY <1>1, JoinedTable
<1>3. DOMAIN Joined(m, n) = DOMAIN m \cup DOMAIN n
    BY DEF Joined
<1>. QED BY <1>1, <1>2, <1>3 DEF TableIn

\* What is found under a key.
LEMMA GetJoined ==
    ASSUME NEW m, NEW n, NEW k
    PROVE  Get(Joined(m, n), k) = IF k \in DOMAIN m THEN Get(m, k) ELSE Get(n, k)
BY DEF Get, Joined

LEMMA GetOutside ==
    ASSUME NEW s, NEW m, NEW K, TableIn(s, m, K), NEW k, k \notin K
    PROVE  Get(m, k) = {} /\ k \notin DOMAIN m
BY DEF TableIn, Get

\* An entry of the first part is found, and one of the second that the first has not.
LEMMA GetFirst ==
    ASSUME NEW s, NEW m, NEW K, NEW t, NEW n, NEW L, TableIn(t, n, L), NEW k, k \notin L
    PROVE  Get(Joined(m, n), k) = Get(m, k)
<1>1. k \notin DOMAIN n
    BY GetOutside
<1>. QED BY <1>1, GetJoined DEF Get

LEMMA GetSecond ==
    ASSUME NEW s, NEW m, NEW K, TableIn(s, m, K), NEW n, NEW k, k \notin K
    PROVE  Get(Joined(m, n), k) = Get(n, k)
<1>1. k \notin DOMAIN m
    BY GetOutside
<1>. QED BY <1>1, GetJoined

LEMMA GetPair ==
    ASSUME NEW key, NEW v
    PROVE  Get(OneEntry(key, v), key) = {v}
BY DEF Get, OneEntry

LEMMA GetEntry ==
    ASSUME NEW key, NEW option, NEW v
    PROVE  Get(EntryMap(key, option, v), key) = IF option = {} THEN {} ELSE {v}
BY DEF Get, EntryMap, OneEntry, EmptyMap

LEMMA Got ==
    ASSUME NEW m, NEW k
    PROVE  /\ Get(m, k) = {} => k \notin DOMAIN m
           /\ \A v : Get(m, k) = {v} => k \in DOMAIN m /\ m[k] = v
BY DEF Get

\* Optional strings, numbers and byte strings are read again.
Written(option, v) == IF option = {} THEN {} ELSE {v}

LEMMA OptionalText ==
    ASSUME NEW m, NEW k, NEW option, AtMostOne(option), Get(m, k) = Written(option, Text(The(option)))
    PROVE  Optional(m, k, String) = {option}
<1>1. CASE option = {}
    <2>1. k \notin DOMAIN m
        BY <1>1, Got DEF Written
    <2>. QED BY <1>1, <2>1 DEF Optional
<1>2. CASE option # {}
    <2>1. k \in DOMAIN m /\ m[k] = Text(The(option))
        BY <1>2, Got DEF Written
    <2>2. String(m[k]) = {The(option)}
        BY <2>1, ValueFields DEF String
    <2>3. option = {The(option)}
        BY <1>2, OptionValue
    <2>. QED BY <2>1, <2>2, <2>3 DEF Optional
<1>. QED BY <1>1, <1>2

LEMMA OptionalBytes ==
    ASSUME NEW m, NEW k, NEW option, AtMostOne(option), Get(m, k) = Written(option, Bytes(The(option)))
    PROVE  Optional(m, k, ByteStr) = {option}
<1>1. CASE option = {}
    <2>1. k \notin DOMAIN m
        BY <1>1, Got DEF Written
    <2>. QED BY <1>1, <2>1 DEF Optional
<1>2. CASE option # {}
    <2>1. k \in DOMAIN m /\ m[k] = Bytes(The(option))
        BY <1>2, Got DEF Written
    <2>2. ByteStr(m[k]) = {The(option)}
        BY <2>1, ValueFields DEF ByteStr
    <2>3. option = {The(option)}
        BY <1>2, OptionValue
    <2>. QED BY <2>1, <2>2, <2>3 DEF Optional
<1>. QED BY <1>1, <1>2

LEMMA OptionalNumber ==
    ASSUME NEW m, NEW k, NEW option, AtMostOne(option), option \subseteq Nat,
           Get(m, k) = Written(option, Integer(The(option)))
    PROVE  Optional(m, k, Unsigned) = {option}
<1>1. CASE option = {}
    <2>1. k \notin DOMAIN m
        BY <1>1, Got DEF Written
    <2>. QED BY <1>1, <2>1 DEF Optional
<1>2. CASE option # {}
    <2>1. k \in DOMAIN m /\ m[k] = Integer(The(option))
        BY <1>2, Got DEF Written
    <2>2. option = {The(option)} /\ The(option) \in Nat
        BY <1>2, OptionValue
    <2>3. Unsigned(m[k]) = {The(option)}
        BY <2>1, <2>2, ValueFields DEF Unsigned
    <2>. QED BY <2>1, <2>2, <2>3 DEF Optional
<1>. QED BY <1>1, <1>2

-----------------------------------------------------------------------------
(* Options of the transports *)

LEMMA NfcIsRead ==
    ASSUME NEW o \in [command : CommandMin..CommandMax, response : ResponseMin..ResponseMax]
    PROVE  NfcFromValue(NfcValue(o)) = {o}
<1>1. PICK c, r : c = o.command /\ r = o.response
    OBVIOUS
<1>2. c \in CommandMin..MaxU16 /\ r \in ResponseMin..MaxU32
    <2>1. c \in CommandMin..CommandMax /\ r \in ResponseMin..ResponseMax
        BY <1>1
    <2>2. CommandMin \in Nat /\ ResponseMin \in Nat
        BY DEF CommandMin, ResponseMin
    <2>3. CommandMax \in Nat /\ ResponseMax \in Nat
        BY DEF CommandMax, ResponseMax
    <2>. QED BY <2>1, <2>2, <2>3, WidthAssumption
<1>3. PICK m : m = TwoMap(0, Integer(c), 1, Integer(r))
    OBVIOUS
<1>4. Table(<<Pair(0, Integer(c)), Pair(1, Integer(r))>>, m)
    BY <1>3, TwoEntries
<1>5. NfcValue(o) = Map(<<Pair(0, Integer(c)), Pair(1, Integer(r))>>)
    BY <1>1 DEF NfcValue, Pair
<1>6. IntegerMap(NfcValue(o)) = {m}
    BY <1>4, <1>5, TableIsRead
<1>7. DOMAIN m = {0, 1} /\ m[0] = Integer(c) /\ m[1] = Integer(r)
    BY <1>3 DEF TwoMap
<1>8. Is("int", m[0]) /\ Is("int", m[1]) /\ m[0].int = c /\ m[1].int = r
    BY <1>7, ValueFields
<1>9. NfcFromValue(NfcValue(o)) = {[command |-> c, response |-> r]}
    BY <1>2, <1>6, <1>7, <1>8 DEF NfcFromValue
<1>10. o = [command |-> c, response |-> r]
    BY <1>1
<1>. QED BY <1>9, <1>10

LEMMA WifiIsRead ==
    ASSUME NEW o, IsWifi(o)
    PROVE  WifiFromValue(WifiValue(o)) = {o}
<1>1. PICK p, c, n, b : p = o.pass_phrase /\ c = o.operating_class /\ n = o.channel_number /\ b = o.band_info
    OBVIOUS
<1>2. /\ o = [pass_phrase |-> p, operating_class |-> c, channel_number |-> n, band_info |-> b]
      /\ AtMostOne(p) /\ AtMostOne(c) /\ AtMostOne(n) /\ AtMostOne(b) /\ c \subseteq Nat /\ n \subseteq Nat
    BY <1>1 DEF IsWifi
<1>3. PICK vp, vc, vn, vb : /\ vp = Text(The(p)) /\ vc = Integer(The(c))
                            /\ vn = Integer(The(n)) /\ vb = Bytes(The(b))
    OBVIOUS
<1>4. /\ Entry(0, p, Text) = EntrySeq(0, p, vp) /\ Entry(1, c, Integer) = EntrySeq(1, c, vc)
      /\ Entry(2, n, Integer) = EntrySeq(2, n, vn) /\ Entry(3, b, Bytes) = EntrySeq(3, b, vb)
    BY <1>3 DEF Entry, EntrySeq, Pair, The
<1>5. PICK s1, s2, s3 : /\ s1 = EntrySeq(0, p, vp) \o EntrySeq(1, c, vc)
                        /\ s2 = s1 \o EntrySeq(2, n, vn) /\ s3 = s2 \o EntrySeq(3, b, vb)
    OBVIOUS
<1>6. PICK m1, m2, m3 : /\ m1 = Joined(EntryMap(0, p, vp), EntryMap(1, c, vc))
                        /\ m2 = Joined(m1, EntryMap(2, n, vn)) /\ m3 = Joined(m2, EntryMap(3, b, vb))
    OBVIOUS
<1>7. /\ TableIn(EntrySeq(0, p, vp), EntryMap(0, p, vp), {0}) /\ TableIn(EntrySeq(1, c, vc), EntryMap(1, c, vc), {1})
      /\ TableIn(EntrySeq(2, n, vn), EntryMap(2, n, vn), {2}) /\ TableIn(EntrySeq(3, b, vb), EntryMap(3, b, vb), {3})
    BY EntryTable
<1>8. TableIn(s1, m1, {0, 1})
    <2>1. {0} \cap {1} = {} /\ {0} \cup {1} = {0, 1}
        OBVIOUS
    <2>2. TableIn(s1, m1, {0} \cup {1})
        BY <1>5, <1>6, <1>7, <2>1, JoinedIn
    <2>. QED BY <2>1, <2>2
<1>9. TableIn(s2, m2, {0, 1, 2})
    <2>1. {0, 1} \cap {2} = {} /\ {0, 1} \cup {2} = {0, 1, 2}
        OBVIOUS
    <2>2. TableIn(s2, m2, {0, 1} \cup {2})
        BY <1>5, <1>6, <1>7, <1>8, <2>1, JoinedIn
    <2>. QED BY <2>1, <2>2
<1>10. TableIn(s3, m3, {0, 1, 2, 3})
    <2>1. {0, 1, 2} \cap {3} = {} /\ {0, 1, 2} \cup {3} = {0, 1, 2, 3}
        OBVIOUS
    <2>2. TableIn(s3, m3, {0, 1, 2} \cup {3})
        BY <1>5, <1>6, <1>7, <1>9, <2>1, JoinedIn
    <2>. QED BY <2>1, <2>2
<1>11. WifiValue(o) = Map(s3)
    BY <1>1, <1>4, <1>5 DEF WifiValue
<1>12. IntegerMap(WifiValue(o)) = {m3}
    BY <1>10, <1>11, TableIsRead DEF TableIn
<1>13. Get(m3, 0) = Written(p, vp)
    <2>1. Get(m3, 0) = Get(m2, 0) /\ Get(m2, 0) = Get(m1, 0) /\ Get(m1, 0) = Get(EntryMap(0, p, vp), 0)
        BY <1>6, <1>7, GetFirst
    <2>. QED BY <2>1, GetEntry DEF Written
<1>14. Get(m3, 1) = Written(c, vc)
    <2>1. Get(m3, 1) = Get(m2, 1) /\ Get(m2, 1) = Get(m1, 1)
        BY <1>6, <1>7, GetFirst
    <2>2. Get(m1, 1) = Get(EntryMap(1, c, vc), 1)
        BY <1>6, <1>7, GetSecond
    <2>. QED BY <2>1, <2>2, GetEntry DEF Written
<1>15. Get(m3, 2) = Written(n, vn)
    <2>1. Get(m3, 2) = Get(m2, 2)
        BY <1>6, <1>7, GetFirst
    <2>2. Get(m2, 2) = Get(EntryMap(2, n, vn), 2)
        BY <1>6, <1>8, GetSecond
    <2>. QED BY <2>1, <2>2, GetEntry DEF Written
<1>16. Get(m3, 3) = Written(b, vb)
    <2>1. Get(m3, 3) = Get(EntryMap(3, b, vb), 3)
        BY <1>6, <1>9, GetSecond
    <2>. QED BY <2>1, GetEntry DEF Written
<1>17. /\ Optional(m3, 0, String) = {p} /\ Optional(m3, 1, Unsigned) = {c}
       /\ Optional(m3, 2, Unsigned) = {n} /\ Optional(m3, 3, ByteStr) = {b}
    <2>1. Optional(m3, 0, String) = {p}
        BY <1>2, <1>3, <1>13, OptionalText
    <2>2. Optional(m3, 1, Unsigned) = {c}
        BY <1>2, <1>3, <1>14, OptionalNumber
    <2>3. Optional(m3, 2, Unsigned) = {n}
        BY <1>2, <1>3, <1>15, OptionalNumber
    <2>4. Optional(m3, 3, ByteStr) = {b}
        BY <1>2, <1>3, <1>16, OptionalBytes
    <2>. QED BY <2>1, <2>2, <2>3, <2>4
<1>18. WifiFromValue(WifiValue(o)) =
        {[pass_phrase |-> p1, operating_class |-> c1, channel_number |-> n1, band_info |-> b1] :
            p1 \in {p}, c1 \in {c}, n1 \in {n}, b1 \in {b}}
    BY <1>12, <1>17 DEF WifiFromValue
<1>. QED BY <1>2, <1>18

\* A mode that is on or off.
LEMMA Flags ==
    /\ Bool(TRUE) # Bool(FALSE)
    /\ \A S : S = {} => Bool(S # {}) = Bool(FALSE)
    /\ \A S : S # {} => Bool(S # {}) = Bool(TRUE)
<1>1. Bool(TRUE) # Bool(FALSE)
    BY DEF Bool
<1>2. ASSUME NEW S, S = {} PROVE Bool(S # {}) = Bool(FALSE)
    <2>1. (S # {}) = FALSE
        BY <1>2
    <2>. QED BY <2>1, Zenon
<1>3. ASSUME NEW S, S # {} PROVE Bool(S # {}) = Bool(TRUE)
    <2>1. (S # {}) = TRUE
        BY <1>3
    <2>. QED BY <2>1, Zenon
<1>. QED BY <1>1, <1>2, <1>3

LEMMA ModeIsRead ==
    ASSUME NEW m, NEW flag, NEW label, NEW option, AtMostOne(option), \A u \in option : u.len = 16,
           Get(m, flag) = {Bool(option # {})}, Get(m, label) = Written(option, Bytes(The(option)))
    PROVE  Mode(m, flag, label) = {option}
<1>1. CASE option = {}
    <2>1. Get(m, flag) = {Bool(FALSE)} /\ Get(m, flag) # {Bool(TRUE)}
        BY <1>1, Flags
    <2>. QED BY <1>1, <2>1 DEF Mode
<1>2. CASE option # {}
    <2>1. Get(m, flag) = {Bool(TRUE)} /\ Get(m, flag) # {Bool(FALSE)}
        BY <1>2, Flags
    <2>2. Get(m, label) = {Bytes(The(option))} /\ option = {The(option)}
        BY <1>2, OptionValue DEF Written
    <2>3. The(option).len = 16
        BY <2>2
    <2>4. Uuid(Bytes(The(option))) = {The(option)}
        BY <2>3, ValueFields DEF Uuid
    <2>5. Mode(m, flag, label) = {{u} : u \in UNION {Uuid(v) : v \in Get(m, label)}}
        BY <2>1 DEF Mode
    <2>6. UNION {Uuid(v) : v \in Get(m, label)} = {The(option)}
        BY <2>2, <2>4
    <2>. QED BY <2>2, <2>5, <2>6
<1>. QED BY <1>1, <1>2

LEMMA BleIsRead ==
    ASSUME NEW o, IsBle(o)
    PROVE  BleFromValue(BleValue(o)) = {o}
<1>1. PICK c, p, a : c = o.central /\ p = o.peripheral /\ a = o.address
    OBVIOUS
<1>2. /\ o = [central |-> c, peripheral |-> p, address |-> a]
      /\ AtMostOne(c) /\ AtMostOne(p) /\ AtMostOne(a)
      /\ \A u \in c : u.len = 16
      /\ \A u \in p : u.len = 16
      /\ p = {} => a = {}
    BY <1>1 DEF IsBle
<1>3. PICK fc, fp, vc, vp, va : /\ fc = Bool(c # {}) /\ fp = Bool(p # {})
                                /\ vc = Bytes(The(c)) /\ vp = Bytes(The(p)) /\ va = Bytes(The(a))
    OBVIOUS
<1>4. /\ Entry(11, c, Bytes) = EntrySeq(11, c, vc) /\ Entry(10, p, Bytes) = EntrySeq(10, p, vp)
      /\ Entry(20, a, Bytes) = EntrySeq(20, a, va)
    BY <1>3 DEF Entry, EntrySeq, Pair, The
<1>5. (IF p = {} THEN <<>> ELSE Entry(20, a, Bytes)) = EntrySeq(20, a, va)
    <2>1. a = {} => EntrySeq(20, a, va) = <<>>
        BY DEF EntrySeq
    <2>. QED BY <1>2, <1>4, <2>1
<1>6. PICK s1, s2, s3, s4 : /\ s1 = <<Pair(1, fc)>> \o EntrySeq(11, c, vc) /\ s2 = s1 \o <<Pair(0, fp)>>
                            /\ s3 = s2 \o EntrySeq(10, p, vp) /\ s4 = s3 \o EntrySeq(20, a, va)
    OBVIOUS
<1>7. PICK m1, m2, m3, m4 : /\ m1 = Joined(OneEntry(1, fc), EntryMap(11, c, vc)) /\ m2 = Joined(m1, OneEntry(0, fp))
                            /\ m3 = Joined(m2, EntryMap(10, p, vp)) /\ m4 = Joined(m3, EntryMap(20, a, va))
    OBVIOUS
<1>8. /\ TableIn(<<Pair(1, fc)>>, OneEntry(1, fc), {1}) /\ TableIn(<<Pair(0, fp)>>, OneEntry(0, fp), {0})
      /\ TableIn(EntrySeq(11, c, vc), EntryMap(11, c, vc), {11}) /\ TableIn(EntrySeq(10, p, vp), EntryMap(10, p, vp), {10})
      /\ TableIn(EntrySeq(20, a, va), EntryMap(20, a, va), {20})
    BY EntryTable, PairTable
<1>9. TableIn(s1, m1, {1, 11})
    <2>1. {1} \cap {11} = {} /\ {1} \cup {11} = {1, 11}
        OBVIOUS
    <2>2. TableIn(s1, m1, {1} \cup {11})
        BY <1>6, <1>7, <1>8, <2>1, JoinedIn
    <2>. QED BY <2>1, <2>2
<1>10. TableIn(s2, m2, {1, 11, 0})
    <2>1. {1, 11} \cap {0} = {} /\ {1, 11} \cup {0} = {1, 11, 0}
        OBVIOUS
    <2>2. TableIn(s2, m2, {1, 11} \cup {0})
        BY <1>6, <1>7, <1>8, <1>9, <2>1, JoinedIn
    <2>. QED BY <2>1, <2>2
<1>11. TableIn(s3, m3, {1, 11, 0, 10})
    <2>1. {1, 11, 0} \cap {10} = {} /\ {1, 11, 0} \cup {10} = {1, 11, 0, 10}
        OBVIOUS
    <2>2. TableIn(s3, m3, {1, 11, 0} \cup {10})
        BY <1>6, <1>7, <1>8, <1>10, <2>1, JoinedIn
    <2>. QED BY <2>1, <2>2
<1>12. TableIn(s4, m4, {1, 11, 0, 10, 20})
    <2>1. {1, 11, 0, 10} \cap {20} = {} /\ {1, 11, 0, 10} \cup {20} = {1, 11, 0, 10, 20}
        OBVIOUS
    <2>2. TableIn(s4, m4, {1, 11, 0, 10} \cup {20})
        BY <1>6, <1>7, <1>8, <1>11, <2>1, JoinedIn
    <2>. QED BY <2>1, <2>2
<1>13. BleValue(o) = Map(s4)
    <2>1. BleValue(o) = Map(<<Pair(1, fc)>> \o Entry(11, c, Bytes) \o <<Pair(0, fp)>> \o Entry(10, p, Bytes)
                            \o IF p = {} THEN <<>> ELSE Entry(20, a, Bytes))
        BY <1>1, <1>3 DEF BleValue, Pair
    <2>. QED BY <1>4, <1>5, <1>6, <2>1
<1>14. IntegerMap(BleValue(o)) = {m4}
    BY <1>12, <1>13, TableIsRead DEF TableIn
<1>15. Get(m4, 1) = {fc}
    <2>1. Get(m4, 1) = Get(m3, 1) /\ Get(m3, 1) = Get(m2, 1) /\ Get(m2, 1) = Get(m1, 1)
        BY <1>7, <1>8, GetFirst
    <2>2. Get(m1, 1) = Get(OneEntry(1, fc), 1)
        BY <1>7, <1>8, GetFirst
    <2>. QED BY <2>1, <2>2, GetPair
<1>16. Get(m4, 11) = Written(c, vc)
    <2>1. Get(m4, 11) = Get(m3, 11) /\ Get(m3, 11) = Get(m2, 11) /\ Get(m2, 11) = Get(m1, 11)
        BY <1>7, <1>8, GetFirst
    <2>2. Get(m1, 11) = Get(EntryMap(11, c, vc), 11)
        BY <1>7, <1>8, GetSecond
    <2>. QED BY <2>1, <2>2, GetEntry DEF Written
<1>17. Get(m4, 0) = {fp}
    <2>1. Get(m4, 0) = Get(m3, 0) /\ Get(m3, 0) = Get(m2, 0)
        BY <1>7, <1>8, GetFirst
    <2>2. Get(m2, 0) = Get(OneEntry(0, fp), 0)
        BY <1>7, <1>9, GetSecond
    <2>. QED BY <2>1, <2>2, GetPair
<1>18. Get(m4, 10) = Written(p, vp)
    <2>1. Get(m4, 10) = Get(m3, 10)
        BY <1>7, <1>8, GetFirst
    <2>2. Get(m3, 10) = Get(EntryMap(10, p, vp), 10)
        BY <1>7, <1>10, GetSecond
    <2>. QED BY <2>1, <2>2, GetEntry DEF Written
<1>19. Get(m4, 20) = Written(a, va)
    <2>1. Get(m4, 20) = Get(EntryMap(20, a, va), 20)
        BY <1>7, <1>11, GetSecond
    <2>. QED BY <2>1, GetEntry DEF Written
<1>20. Mode(m4, 1, 11) = {c}
    BY <1>2, <1>3, <1>15, <1>16, ModeIsRead
<1>21. Mode(m4, 0, 10) = {p}
    BY <1>2, <1>3, <1>17, <1>18, ModeIsRead
<1>22. Address(m4) = {a}
    <2>1. CASE p # {}
        <3>1. Optional(m4, 20, ByteStr) = {a}
            BY <1>2, <1>3, <1>19, OptionalBytes
        <3>. QED BY <1>3, <1>17, <2>1, <3>1, Flags DEF Address
    <2>2. CASE p = {}
        <3>1. Get(m4, 0) # {Bool(TRUE)}
            BY <1>3, <1>17, <2>2, Flags
        <3>. QED BY <1>2, <2>2, <3>1 DEF Address
    <2>. QED BY <2>1, <2>2
<1>23. BleFromValue(BleValue(o)) =
        {[central |-> c1, peripheral |-> p1, address |-> a1] : c1 \in {c}, p1 \in {p}, a1 \in {a}}
    BY <1>14, <1>20, <1>21, <1>22 DEF BleFromValue
<1>. QED BY <1>2, <1>23

-----------------------------------------------------------------------------
(* Methods, services and engagements *)

LEMMA MethodIsRead ==
    ASSUME NEW method, IsMethod(method)
    PROVE  MethodFromValue(MethodValue(method)) = {method}
<1>1. PICK kind_, o : kind_ = method.kind /\ o = method.options
    OBVIOUS
<1>2. method = Method(kind_, o)
    BY <1>1 DEF IsMethod
<1>3. ASSUME NEW n, NEW v, MethodValue(method) = Array(<<Integer(n), Integer(1), v>>)
      PROVE  /\ n = 1 => MethodFromValue(MethodValue(method)) = {Method("NFC", x) : x \in NfcFromValue(v)}
             /\ n = 2 => MethodFromValue(MethodValue(method)) = {Method("BLE", x) : x \in BleFromValue(v)}
             /\ n = 3 => MethodFromValue(MethodValue(method)) = {Method("WIFI", x) : x \in WifiFromValue(v)}
    <2>1. PICK w, s : w = MethodValue(method) /\ s = <<Integer(n), Integer(1), v>>
        OBVIOUS
    <2>2. Is("array", w) /\ w.array = s
        BY <1>3, <2>1, ValueFields
    <2>3. Len(s) = 3 /\ s[1] = Integer(n) /\ s[2] = Integer(1) /\ s[3] = v
        BY <2>1
    <2>4. Is("int", s[1]) /\ s[1].int = n
        BY <2>3, ValueFields
    <2>5. /\ n = 1 => MethodFromValue(w) = {Method("NFC", x) : x \in NfcFromValue(v)}
          /\ n = 2 => MethodFromValue(w) = {Method("BLE", x) : x \in BleFromValue(v)}
          /\ n = 3 => MethodFromValue(w) = {Method("WIFI", x) : x \in WifiFromValue(v)}
        BY <2>2, <2>3, <2>4 DEF MethodFromValue
    <2>. QED BY <2>1, <2>5
<1>4. CASE kind_ = "NFC"
    <2>1. MethodValue(method) = Array(<<Integer(1), Integer(1), NfcValue(o)>>)
        BY <1>1, <1>4 DEF MethodValue, transport_type
    <2>2. NfcFromValue(NfcValue(o)) = {o}
        BY <1>1, <1>4, NfcIsRead DEF IsMethod
    <2>3. MethodFromValue(MethodValue(method)) = {Method("NFC", x) : x \in {o}}
        BY <1>3, <2>1, <2>2
    <2>. QED BY <1>2, <1>4, <2>3
<1>5. CASE kind_ = "BLE"
    <2>1. MethodValue(method) = Array(<<Integer(2), Integer(1), BleValue(o)>>)
        BY <1>1, <1>5 DEF MethodValue, transport_type
    <2>2. BleFromValue(BleValue(o)) = {o}
        BY <1>1, <1>5, BleIsRead DEF IsMethod
    <2>3. MethodFromValue(MethodValue(method)) = {Method("BLE", x) : x \in {o}}
        BY <1>3, <2>1, <2>2
    <2>. QED BY <1>2, <1>5, <2>3
<1>6. CASE kind_ = "WIFI"
    <2>1. MethodValue(method) = Array(<<Integer(3), Integer(1), WifiValue(o)>>)
        BY <1>1, <1>6 DEF MethodValue, transport_type
    <2>2. WifiFromValue(WifiValue(o)) = {o}
        BY <1>1, <1>6, WifiIsRead DEF IsMethod
    <2>3. MethodFromValue(MethodValue(method)) = {Method("WIFI", x) : x \in {o}}
        BY <1>3, <2>1, <2>2
    <2>. QED BY <1>2, <1>6, <2>3
<1>. QED BY <1>1, <1>4, <1>5, <1>6 DEF IsMethod

\* A vector whose elements are read is read.
LEMMA VecIsRead ==
    ASSUME NEW d, NEW s, DOMAIN d = DOMAIN s, \A i \in DOMAIN s : d[i] = {s[i]}, DOMAIN s # {},
           s = [i \in DOMAIN s |-> s[i]]
    PROVE  NonEmptyVec(d) = {s}
<1>1. d # <<>>
    <2>1. DOMAIN <<>> = {}
        OBVIOUS
    <2>. QED BY <2>1
<1>2. \A i \in DOMAIN d : d[i] # {} /\ (CHOOSE x \in d[i] : TRUE) = s[i]
    OBVIOUS
<1>3. [i \in DOMAIN d |-> CHOOSE x \in d[i] : TRUE] = s
    BY <1>2
<1>. QED BY <1>1, <1>2, <1>3 DEF NonEmptyVec

LEMMA MethodsAreRead ==
    ASSUME NEW ms, IsMethods(ms)
    PROVE  Methods(Array([i \in DOMAIN ms |-> MethodValue(ms[i])])) = {ms}
<1>1. PICK n, w : n = Len(ms) /\ w = [i \in DOMAIN ms |-> MethodValue(ms[i])]
    OBVIOUS
<1>2. n \in Nat \ {0} /\ DOMAIN ms = 1..n /\ ms = [i \in 1..n |-> ms[i]] /\ \A i \in 1..n : IsMethod(ms[i])
    BY <1>1 DEF IsMethods
<1>3. Is("array", Array(w)) /\ Array(w).array = w
    BY ValueFields
<1>4. PICK d : d = Decoded(Array(w), MethodFromValue)
    OBVIOUS
<1>5. d = [i \in DOMAIN w |-> MethodFromValue(w[i])]
    BY <1>3, <1>4 DEF Decoded
<1>6. DOMAIN d = DOMAIN ms /\ \A i \in DOMAIN ms : d[i] = {ms[i]}
    BY <1>1, <1>2, <1>5, MethodIsRead
<1>7. DOMAIN ms # {}
    <2>1. 1 \in 1..n
        BY <1>2
    <2>. QED BY <1>2, <2>1
<1>8. NonEmptyVec(d) = {ms}
    BY <1>2, <1>6, <1>7, VecIsRead
<1>. QED BY <1>1, <1>4, <1>8 DEF Methods

-----------------------------------------------------------------------------
(* Structures with named fields *)

FieldSeq(name, option, v) == IF option = {} THEN <<>> ELSE <<<<Text(name), v>>>>
Places(s, name) == {i \in DOMAIN s : s[i][1] = Text(name)}

\* An optional field of a structure is found at one place or at none.
Found(s, name, option, v) ==
    /\ option = {} => Places(s, name) = {}
    /\ option # {} => \E i : Places(s, name) = {i} /\ s[i][2] = v

LEMMA FieldsAreFound ==
    ASSUME NEW a, NEW b, a # b, NEW A, NEW B, NEW v, NEW w,
           NEW s, s = FieldSeq(a, A, v) \o FieldSeq(b, B, w)
    PROVE  Found(s, a, A, v) /\ Found(s, b, B, w)
<1>1. Text(a) # Text(b)
    BY DEF Text
<1>2. PICK p, q : p = <<Text(a), v>> /\ q = <<Text(b), w>>
    OBVIOUS
<1>3. p[1] = Text(a) /\ p[2] = v /\ q[1] = Text(b) /\ q[2] = w
    BY <1>2
<1>4. CASE A = {} /\ B = {}
    <2>1. s = <<>>
        BY <1>4 DEF FieldSeq
    <2>2. DOMAIN s = {}
        BY <2>1
    <2>. QED BY <1>4, <2>2 DEF Found, Places
<1>5. CASE A # {} /\ B = {}
    <2>1. s = <<p>>
        BY <1>2, <1>5 DEF FieldSeq
    <2>2. DOMAIN s = {1} /\ s[1] = p
        BY <2>1
    <2>3. Places(s, a) = {1} /\ Places(s, b) = {}
        BY <1>1, <1>3, <2>2 DEF Places
    <2>. QED BY <1>3, <1>5, <2>2, <2>3 DEF Found
<1>6. CASE A = {} /\ B # {}
    <2>1. s = <<q>>
        BY <1>2, <1>6 DEF FieldSeq
    <2>2. DOMAIN s = {1} /\ s[1] = q
        BY <2>1
    <2>3. Places(s, b) = {1} /\ Places(s, a) = {}
        BY <1>1, <1>3, <2>2 DEF Places
    <2>. QED BY <1>3, <1>6, <2>2, <2>3 DEF Found
<1>7. CASE A # {} /\ B # {}
    <2>1. s = <<p>> \o <<q>>
        BY <1>2, <1>7 DEF FieldSeq
    <2>2. DOMAIN s = {1, 2} /\ s[1] = p /\ s[2] = q
        BY <2>1
    <2>3. Places(s, a) = {1} /\ Places(s, b) = {2}
        BY <1>1, <1>3, <2>2 DEF Places
    <2>. QED BY <1>3, <1>7, <2>2, <2>3 DEF Found
<1>. QED BY <1>4, <1>5, <1>6, <1>7

LEMMA ServiceIsRead ==
    ASSUME NEW s, IsService(s)
    PROVE  ServiceFromValue(ServiceValue(s)) = {s}
<1>1. PICK x, y, z : x = s[1] /\ y = s[2] /\ z = s[3]
    OBVIOUS
<1>2. x \in Nat /\ s = <<x, y, z>>
    BY <1>1 DEF IsService
<1>3. PICK a : a = <<Integer(x), Text(y), Text(z)>>
    OBVIOUS
<1>4. Len(a) = 3 /\ a[1] = Integer(x) /\ a[2] = Text(y) /\ a[3] = Text(z)
    BY <1>3
<1>5. Unsigned(a[1]) = {x} /\ String(a[2]) = {y} /\ String(a[3]) = {z}
    BY <1>2, <1>4, ValueFields DEF Unsigned, String
<1>6. PICK v : v = ServiceValue(s)
    OBVIOUS
<1>7. v = Array(a) /\ Is("array", v) /\ v.array = a
    BY <1>1, <1>3, <1>6, ValueFields DEF ServiceValue
<1>8. ServiceFromValue(v) = {<<x1, y1, z1>> : x1 \in {x}, y1 \in {y}, z1 \in {z}}
    BY <1>4, <1>5, <1>7 DEF ServiceFromValue
<1>. QED BY <1>2, <1>6, <1>8

LEMMA ServiceField ==
    ASSUME NEW s, NEW name, NEW option, AtMostOne(option), \A x \in option : IsService(x),
           Found(s, name, option, ServiceValue(The(option)))
    PROVE  Field(Map(s), name, ServiceFromValue) = {option}
<1>1. Map(s).map = s
    BY ValueFields
<1>2. CASE option = {}
    <2>1. Places(s, name) = {}
        BY <1>2 DEF Found
    <2>. QED BY <1>1, <1>2, <2>1 DEF Field, Places
<1>3. CASE option # {}
    <2>1. PICK i : Places(s, name) = {i} /\ s[i][2] = ServiceValue(The(option))
        BY <1>3 DEF Found
    <2>2. option = {The(option)}
        BY <1>3, OptionValue
    <2>3. ServiceFromValue(s[i][2]) = {The(option)}
        BY <2>1, <2>2, ServiceIsRead
    <2>4. Cardinality({i}) = 1
        BY FS_Singleton
    <2>5. ~(Cardinality({i}) > 1) /\ {i} # {}
        BY <2>4
    <2>6. Field(Map(s), name, ServiceFromValue) = UNION {{{x} : x \in ServiceFromValue(s[j][2])} : j \in {i}}
        BY <1>1, <2>1, <2>5 DEF Field, Places
    <2>. QED BY <2>2, <2>3, <2>6
<1>. QED BY <1>2, <1>3

LEMMA ServerIsRead ==
    ASSUME NEW m, IsServer(m)
    PROVE  ServerFromValue(ServerValue(m)) = {m}
<1>1. PICK w, o : w = m.web_api /\ o = m.oidc
    OBVIOUS
<1>2. /\ m = [web_api |-> w, oidc |-> o] /\ AtMostOne(w) /\ AtMostOne(o)
      /\ \A s \in w : IsService(s)
      /\ \A s \in o : IsService(s)
    BY <1>1 DEF IsServer
<1>3. PICK vw, vo : vw = ServiceValue(The(w)) /\ vo = ServiceValue(The(o))
    OBVIOUS
<1>4. PICK s : s = FieldSeq("webApi", w, vw) \o FieldSeq("oidc", o, vo)
    OBVIOUS
<1>5. ServerValue(m) = Map(s)
    BY <1>1, <1>3, <1>4 DEF ServerValue, FieldEntry, FieldSeq, The
<1>6. Found(s, "webApi", w, vw) /\ Found(s, "oidc", o, vo)
    BY <1>4, FieldsAreFound
<1>7. Field(Map(s), "webApi", ServiceFromValue) = {w}
    BY <1>2, <1>3, <1>6, ServiceField
<1>8. Field(Map(s), "oidc", ServiceFromValue) = {o}
    BY <1>2, <1>3, <1>6, ServiceField
<1>9. ServerFromValue(Map(s)) = {[web_api |-> w1, oidc |-> o1] : w1 \in {w}, o1 \in {o}}
    BY <1>7, <1>8, ValueFields DEF ServerFromValue
<1>. QED BY <1>2, <1>5, <1>9

\* An engagement that is written is read again, without protocol information.
LEMMA EngagementIsRead ==
    ASSUME NEW e, IsEngagement(e)
    PROVE  /\ EngagementFromValue(EngagementValue(e)) = {WithoutProtocolInfo(e)}
           /\ \E i \in DOMAIN EngagementValue(e).map : IsSecurityOf(EngagementValue(e).map[i][2], e)
<1>1. PICK c, t, M, S, k : c = e.cipher /\ t = e.key /\ M = e.methods /\ S = e.server /\ k = e.key.inner
    OBVIOUS
<1>2. /\ e = [version |-> "1.0", cipher |-> c, key |-> t, methods |-> M, server |-> S,
              protocol_info |-> e.protocol_info]
      /\ c \in Nat /\ IsKey(k) /\ t = Tag24New(k, KeyValue(k))
      /\ AtMostOne(M) /\ (\A ms \in M : IsMethods(ms))
      /\ AtMostOne(S) /\ (\A m \in S : IsServer(m))
    BY <1>1 DEF IsEngagement
<1>3. PICK a : a = <<Integer(c), Tag24Value(t)>>
    OBVIOUS
<1>4. PICK vm, vs : /\ vm = Array([i \in DOMAIN The(M) |-> MethodValue(The(M)[i])])
                    /\ vs = ServerValue(The(S))
    OBVIOUS
<1>5. PICK s0, m0 : /\ s0 = <<Pair(0, Text("1.0")), Pair(1, Array(a))>>
                    /\ m0 = TwoMap(0, Text("1.0"), 1, Array(a))
    OBVIOUS
<1>6. TableIn(s0, m0, {0, 1}) /\ DOMAIN m0 = {0, 1} /\ m0[0] = Text("1.0") /\ m0[1] = Array(a)
    <2>1. Table(s0, m0)
        BY <1>5, TwoEntries
    <2>2. DOMAIN m0 = {0, 1} /\ m0[0] = Text("1.0") /\ m0[1] = Array(a)
        BY <1>5 DEF TwoMap
    <2>. QED BY <2>1, <2>2 DEF TableIn
<1>7. PICK s1, s2, m1, m2 : /\ s1 = s0 \o EntrySeq(2, M, vm) /\ s2 = s1 \o EntrySeq(3, S, vs)
                            /\ m1 = Joined(m0, EntryMap(2, M, vm)) /\ m2 = Joined(m1, EntryMap(3, S, vs))
    OBVIOUS
<1>8. TableIn(EntrySeq(2, M, vm), EntryMap(2, M, vm), {2}) /\ TableIn(EntrySeq(3, S, vs), EntryMap(3, S, vs), {3})
    BY EntryTable
<1>9. TableIn(s1, m1, {0, 1, 2})
    <2>1. {0, 1} \cap {2} = {} /\ {0, 1} \cup {2} = {0, 1, 2}
        OBVIOUS
    <2>2. TableIn(s1, m1, {0, 1} \cup {2})
        BY <1>6, <1>7, <1>8, <2>1, JoinedIn
    <2>. QED BY <2>1, <2>2
<1>10. TableIn(s2, m2, {0, 1, 2, 3})
    <2>1. {0, 1, 2} \cap {3} = {} /\ {0, 1, 2} \cup {3} = {0, 1, 2, 3}
        OBVIOUS
    <2>2. TableIn(s2, m2, {0, 1, 2} \cup {3})
        BY <1>7, <1>8, <1>9, <2>1, JoinedIn
    <2>. QED BY <2>1, <2>2
<1>11. EngagementValue(e) = Map(s2)
    <2>1. Entry(2, M, LAMBDA ms : Array([i \in DOMAIN ms |-> MethodValue(ms[i])])) = EntrySeq(2, M, vm)
        BY <1>4 DEF Entry, EntrySeq, Pair, The
    <2>2. Entry(3, S, ServerValue) = EntrySeq(3, S, vs)
        BY <1>4 DEF Entry, EntrySeq, Pair, The
    <2>3. e.version = "1.0"
        BY <1>2
    <2>4. EngagementValue(e) = Map(s0 \o Entry(2, M, LAMBDA ms : Array([i \in DOMAIN ms |-> MethodValue(ms[i])]))
                                      \o Entry(3, S, ServerValue))
        BY <1>1, <1>3, <1>5, <2>3 DEF EngagementValue, Pair
    <2>. QED BY <1>7, <2>1, <2>2, <2>4
<1>12. IntegerMap(EngagementValue(e)) = {m2}
    BY <1>10, <1>11, TableIsRead DEF TableIn
<1>13. Get(m2, 0) = {Text("1.0")} /\ Get(m2, 1) = {Array(a)}
    <2>1. Get(m2, 0) = Get(m1, 0) /\ Get(m1, 0) = Get(m0, 0)
        BY <1>7, <1>8, GetFirst
    <2>2. Get(m2, 1) = Get(m1, 1) /\ Get(m1, 1) = Get(m0, 1)
        BY <1>7, <1>8, GetFirst
    <2>3. Get(m0, 0) = {Text("1.0")} /\ Get(m0, 1) = {Array(a)}
        BY <1>6 DEF Get
    <2>. QED BY <2>1, <2>2, <2>3
<1>14. Get(m2, 2) = Written(M, vm)
    <2>1. Get(m2, 2) = Get(m1, 2)
        BY <1>7, <1>8, GetFirst
    <2>2. Get(m1, 2) = Get(EntryMap(2, M, vm), 2)
        BY <1>6, <1>7, GetSecond
    <2>. QED BY <2>1, <2>2, GetEntry DEF Written
<1>15. Get(m2, 3) = Written(S, vs)
    <2>1. Get(m2, 3) = Get(EntryMap(3, S, vs), 3)
        BY <1>7, <1>9, GetSecond
    <2>. QED BY <2>1, GetEntry DEF Written
<1>16. Optional(m2, 2, Methods) = {M}
    <2>1. CASE M = {}
        <3>1. 2 \notin DOMAIN m2
            BY <1>14, <2>1, Got DEF Written
        <3>. QED BY <2>1, <3>1 DEF Optional
    <2>2. CASE M # {}
        <3>1. 2 \in DOMAIN m2 /\ m2[2] = vm
            BY <1>14, <2>2, Got DEF Written
        <3>2. M = {The(M)}
            BY <1>2, <2>2, OptionValue
        <3>3. Methods(vm) = {The(M)}
            BY <1>2, <1>4, <3>2, MethodsAreRead
        <3>. QED BY <3>1, <3>2, <3>3 DEF Optional
    <2>. QED BY <2>1, <2>2
<1>17. Optional(m2, 3, ServerFromValue) = {S}
    <2>1. CASE S = {}
        <3>1. 3 \notin DOMAIN m2
            BY <1>15, <2>1, Got DEF Written
        <3>. QED BY <2>1, <3>1 DEF Optional
    <2>2. CASE S # {}
        <3>1. 3 \in DOMAIN m2 /\ m2[3] = vs
            BY <1>15, <2>2, Got DEF Written
        <3>2. S = {The(S)}
            BY <1>2, <2>2, OptionValue
        <3>3. ServerFromValue(vs) = {The(S)}
            BY <1>2, <1>4, <3>2, ServerIsRead
        <3>. QED BY <3>1, <3>2, <3>3 DEF Optional
    <2>. QED BY <2>1, <2>2
<1>18. Optional(m2, 4, AnyValue) = {{}}
    <2>1. 4 \notin DOMAIN m2
        BY <1>10, GetOutside
    <2>. QED BY <2>1 DEF Optional
<1>19. Len(a) = 2 /\ a[1] = Integer(c) /\ a[2] = Tag24Value(t)
    BY <1>3
<1>20. Unsigned(a[1]) = {c}
    BY <1>2, <1>19, ValueFields DEF Unsigned
<1>21. KeyBytes(a[2]) = {t}
    <2>1. PICK b : b = t.inner_bytes
        OBVIOUS
    <2>2. b = to_vec(KeyValue(k)) /\ t = Tag24(k, b)
        BY <1>2, <2>1 DEF Tag24New, Tag24
    <2>3. Tag24Bytes(a[2]) = {b}
        BY <1>19, <2>1, ValueFields DEF Tag24Bytes, Tag24Value, Tag, Is
    <2>4. from_slice(b) = {KeyValue(k)}
        <3>1. ~Is("broken", KeyValue(k))
            BY ValueFields DEF KeyValue
        <3>. QED BY <2>2, <3>1 DEF from_slice, to_vec
    <2>5. FromSlice(b, KeyFromValue) = {k}
        BY <1>2, <2>4, KeyIsRead DEF FromSlice
    <2>6. Tag24FromBytes(b, FromSlice(b, KeyFromValue)) = {t}
        BY <2>2, <2>5 DEF Tag24FromBytes
    <2>. QED BY <2>3, <2>6 DEF KeyBytes
<1>22. 1 \in DOMAIN m2 /\ m2[1] = Array(a) /\ Is("array", m2[1]) /\ m2[1].array = a
    <2>1. 1 \in DOMAIN m2 /\ m2[1] = Array(a)
        BY <1>13, Got
    <2>. QED BY <2>1, ValueFields
<1>23. EngagementFromValue(EngagementValue(e)) =
        {[version |-> "1.0", cipher |-> c1, key |-> k1, methods |-> ms, server |-> s, protocol_info |-> p] :
            c1 \in {c}, k1 \in {t}, ms \in {M}, s \in {S}, p \in {{}}}
    <2>1. EngagementFromValue(EngagementValue(e)) = EngagementFromMap(m2)
        BY <1>12 DEF EngagementFromValue
    <2>2. EngagementFromMap(m2) =
            {[version |-> "1.0", cipher |-> c1, key |-> k1, methods |-> ms, server |-> s, protocol_info |-> p] :
                c1 \in {c}, k1 \in {t}, ms \in {M}, s \in {S}, p \in {{}}}
        BY <1>13, <1>16, <1>17, <1>18, <1>19, <1>20, <1>21, <1>22 DEF EngagementFromMap
    <2>. QED BY <2>1, <2>2
<1>24. WithoutProtocolInfo(e) =
        [version |-> "1.0", cipher |-> c, key |-> t, methods |-> M, server |-> S, protocol_info |-> {}]
    BY <1>2 DEF WithoutProtocolInfo
<1>25. \E i \in DOMAIN s2 : s2[i][2] = Array(a)
    <2>1. Table(s2, m2) /\ 1 \in DOMAIN m2
        BY <1>10, <1>22 DEF TableIn
    <2>2. PICK i \in DOMAIN s2 : s2[i][1].int = 1
        BY <2>1 DEF Table
    <2>3. m2[1] = s2[i][2]
        BY <2>1, <2>2 DEF Table
    <2>. QED BY <1>22, <2>2, <2>3
<1>26. EngagementValue(e).map = s2
    BY <1>11, ValueFields
<1>27. EngagementFromValue(EngagementValue(e)) = {WithoutProtocolInfo(e)}
    BY <1>23, <1>24
<1>28. IsSecurityOf(Array(a), e)
    BY <1>1, <1>19, ValueFields DEF IsSecurityOf
<1>. QED BY <1>25, <1>26, <1>27, <1>28

\* The code of a device is read as the engagement that it shows.
LEMMA CodeIsRead ==
    ASSUME NEW e, IsEngagement(e), NEW t, t = Tag24New(e, EngagementValue(e))
    PROVE  from_qr_code_uri(to_qr_code_uri(t)) = {Tag24(WithoutProtocolInfo(e), t.inner_bytes)}
<1>1. PICK b, uri : b = t.inner_bytes /\ uri = to_qr_code_uri(t)
    OBVIOUS
<1>2. b = to_vec(EngagementValue(e))
    BY <1>1 DEF Tag24New, Tag24
<1>3. uri.prefix = "mdoc:" /\ uri.encoded = b
    BY <1>1 DEF to_qr_code_uri
<1>4. from_slice(b) = {EngagementValue(e)}
    <2>1. ~Is("broken", EngagementValue(e))
        BY ValueFields DEF EngagementValue
    <2>. QED BY <1>2, <2>1 DEF from_slice, to_vec
<1>5. FromSlice(b, EngagementFromValue) = {WithoutProtocolInfo(e)}
    BY <1>4, EngagementIsRead DEF FromSlice
<1>6. from_qr_code_uri(uri) = Tag24FromBytes(b, FromSlice(b, EngagementFromValue))
    BY <1>3 DEF from_qr_code_uri
<1>. QED BY <1>1, <1>5, <1>6 DEF Tag24FromBytes

-----------------------------------------------------------------------------
(* Scanning and connecting *)

\* What the reader uses was read from one code, and its session is that of the engagement
\* in that code: no step changes a code that was shown or scanned.
THEOREM EngagementInductive == EngagementSpec => []EngagementInv
<1>1. EngagementInit => EngagementInv
    BY DEF EngagementInit, EngagementInv, AtMostOne
<1>2. EngagementInv /\ [EngagementNext]_engagementVars => EngagementInv'
    <2>. SUFFICES ASSUME EngagementInv, [EngagementNext]_engagementVars
                  PROVE  EngagementInv'
        OBVIOUS
    <2>1. CASE Engage
        <3>1. PICK e \in Engagements : device = {} /\ device' = {Tag24New(e, EngagementValue(e))}
            BY <2>1 DEF Engage
        <3>2. UNCHANGED <<scanned, reader, session>>
            BY <2>1 DEF Engage
        <3>3. scanned = {} /\ reader = {} /\ session = {}
            BY <3>1 DEF EngagementInv
        <3>. QED BY <3>1, <3>2, <3>3 DEF EngagementInv, AtMostOne
    <2>2. CASE Scan
        <3>1. PICK t \in device : \E uri \in {to_qr_code_uri(t)} \cup Alterations(to_qr_code_uri(t)) :
                scanned' = {uri} /\ reader' = from_qr_code_uri(uri)
            BY <2>2 DEF Scan
        <3>2. PICK uri \in {to_qr_code_uri(t)} \cup Alterations(to_qr_code_uri(t)) :
                scanned' = {uri} /\ reader' = from_qr_code_uri(uri)
            BY <3>1
        <3>3. scanned = {} /\ UNCHANGED <<device, session>>
            BY <2>2 DEF Scan
        <3>4. reader = {} /\ session = {}
            BY <3>3 DEF EngagementInv
        <3>. QED BY <3>1, <3>2, <3>3, <3>4 DEF EngagementInv, AtMostOne
    <2>3. CASE Connect
        <3>0. PICK t \in reader : \E point \in EncodedPoint(t.inner.key.inner) :
                session' = {[uuid |-> first_central_client_uuid(t.inner), point |-> point]}
            BY <2>3 DEF Connect
        <3>1. PICK point \in EncodedPoint(t.inner.key.inner) :
                session' = {[uuid |-> first_central_client_uuid(t.inner), point |-> point]}
            BY <3>0
        <3>2. UNCHANGED <<device, scanned, reader>>
            BY <2>3 DEF Connect
        <3>3. \A found \in session' : found.point \in EncodedPoint(t.inner.key.inner)
                                      /\ found.uuid = first_central_client_uuid(t.inner)
            BY <3>1
        <3>. QED BY <3>1, <3>2, <3>3 DEF EngagementInv, AtMostOne
    <2>4. CASE UNCHANGED engagementVars
        BY <2>4 DEF EngagementInv, engagementVars, AtMostOne
    <2>. QED BY <2>1, <2>2, <2>3, <2>4 DEF EngagementNext
<1>. QED BY <1>1, <1>2, PTL DEF EngagementSpec

\* The reader of the code of a device has the engagement that the device made.
LEMMA ReaderOfCode ==
    ASSUME EngagementInv, NEW t \in device, scanned = {to_qr_code_uri(t)}
    PROVE  /\ t.inner \in Engagements /\ t = Tag24New(t.inner, EngagementValue(t.inner))
           /\ reader = {Tag24(WithoutProtocolInfo(t.inner), t.inner_bytes)}
<1>1. PICK e \in Engagements : t = Tag24New(e, EngagementValue(e))
    BY DEF EngagementInv
<1>2. t.inner = e
    BY <1>1 DEF Tag24New, Tag24
<1>3. IsEngagement(e)
    BY EngagementsAssumption
<1>4. reader = from_qr_code_uri(to_qr_code_uri(t))
    BY DEF EngagementInv
<1>. QED BY <1>1, <1>2, <1>3, <1>4, CodeIsRead

\* A reader that scans the code of a device uses the engagement that the device meant,
\* apart from protocol_info, for every engagement that the types allow: From<DeviceEngagement>
\* for Value and TryFrom<Value> for DeviceEngagement are inverse.
THEOREM ScannedIsWhatWasMeant == EngagementSpec => []ScannedIsMeant
<1>1. EngagementInv => ScannedIsMeant
    <2>. SUFFICES ASSUME EngagementInv, NEW t \in device, scanned = {to_qr_code_uri(t)}
                  PROVE  {u.inner : u \in reader} = {WithoutProtocolInfo(t.inner)}
        BY DEF ScannedIsMeant
    <2>1. reader = {Tag24(WithoutProtocolInfo(t.inner), t.inner_bytes)}
        BY ReaderOfCode
    <2>2. Tag24(WithoutProtocolInfo(t.inner), t.inner_bytes).inner = WithoutProtocolInfo(t.inner)
        BY DEF Tag24
    <2>. QED BY <2>1, <2>2
<1>. QED BY <1>1, EngagementInductive, PTL

\* A set of numbers that is not empty has a least one, and below a bound a greatest one.
LEMMA LeastNumber ==
    ASSUME NEW S, S \subseteq Nat, S # {}
    PROVE  \E x \in S : \A y \in S : x <= y
<1>1. IsWellFoundedOn(OpToRel(<, Nat), Nat)
    BY NatLessThanWellFounded
<1>2. \E x \in S : \A y \in S : ~ (<<y, x>> \in OpToRel(<, Nat))
    BY <1>1, WFMin
<1>3. ASSUME NEW x \in S, NEW y \in S, ~ (<<y, x>> \in OpToRel(<, Nat))
      PROVE  x <= y
    BY <1>3 DEF OpToRel
<1>. QED BY <1>2, <1>3

LEMMA GreatestNumber ==
    ASSUME NEW n \in Nat, NEW S, S \subseteq 1..n, S # {}
    PROVE  \E x \in S : \A y \in S : y <= x
<1>1. PICK T : T = {n - x : x \in S}
    OBVIOUS
<1>2. T \subseteq Nat /\ T # {}
    <2>1. ASSUME NEW x \in S PROVE n - x \in Nat
        <3>1. x \in 1..n
            OBVIOUS
        <3>. QED BY <3>1
    <2>. QED BY <1>1, <2>1
<1>3. PICK z \in T : \A y \in T : z <= y
    BY <1>2, LeastNumber
<1>4. PICK x \in S : z = n - x
    BY <1>1
<1>5. ASSUME NEW y \in S PROVE y <= x
    <2>1. n - y \in T
        BY <1>1
    <2>2. n - x <= n - y
        BY <1>3, <1>4, <2>1
    <2>. QED BY <2>2
<1>. QED BY <1>5

\* The last entry of a key is an entry.
LEMMA LastEntry ==
    ASSUME NEW v, IsValue(v), NEW m \in IntegerMap(v), NEW k \in DOMAIN m
    PROVE  Is("map", v) /\ \E i \in DOMAIN v.map : m[k] = v.map[i][2]
<1>1. PICK s : s = v.map
    OBVIOUS
<1>2. /\ Is("map", v)
      /\ m = [j \in {s[i][1].int : i \in DOMAIN s} |->
                s[CHOOSE i \in DOMAIN s : s[i][1].int = j /\ \A h \in DOMAIN s : s[h][1].int = j => h <= i][2]]
    <2>1. Is("map", v) /\ \A i \in DOMAIN s : Is("int", s[i][1])
        BY <1>1 DEF IntegerMap
    <2>2. IntegerMap(v) = {[j \in {s[i][1].int : i \in DOMAIN s} |->
                s[CHOOSE i \in DOMAIN s : s[i][1].int = j /\ \A h \in DOMAIN s : s[h][1].int = j => h <= i][2]]}
        BY <1>1, <2>1 DEF IntegerMap
    <2>. QED BY <2>1, <2>2
<1>3. PICK n : n \in Nat /\ DOMAIN s = 1..n
    BY <1>1, <1>2 DEF IsValue
<1>4. PICK S : S = {i \in DOMAIN s : s[i][1].int = k}
    OBVIOUS
<1>5. S \subseteq 1..n /\ S # {}
    BY <1>2, <1>3, <1>4
<1>6. PICK x \in S : \A y \in S : y <= x
    BY <1>3, <1>5, GreatestNumber
<1>7. x \in DOMAIN s /\ s[x][1].int = k /\ \A h \in DOMAIN s : s[h][1].int = k => h <= x
    BY <1>4, <1>6
<1>8. PICK z : z = CHOOSE i \in DOMAIN s : s[i][1].int = k /\ \A h \in DOMAIN s : s[h][1].int = k => h <= i
    OBVIOUS
<1>9. z \in DOMAIN s
    BY <1>7, <1>8
<1>10. m[k] = s[z][2]
    BY <1>2, <1>8
<1>. QED BY <1>1, <1>2, <1>9, <1>10

\* What is read from any code has the bytes of that code, and its cipher and key are those
\* of an entry of it.
LEMMA ReadFromCode ==
    ASSUME NEW uri, IsCode(uri), NEW t \in from_qr_code_uri(uri)
    PROVE  /\ to_qr_code_uri(t) = uri
           /\ \E k \in DOMAIN uri.encoded.item.map : IsSecurityOf(uri.encoded.item.map[k][2], t.inner)
<1>1. PICK b, item : b = uri.encoded /\ item = uri.encoded.item
    OBVIOUS
<1>2. uri.prefix = "mdoc:" /\ t \in Tag24FromBytes(b, FromSlice(b, EngagementFromValue))
    BY <1>1 DEF from_qr_code_uri
<1>3. PICK x \in FromSlice(b, EngagementFromValue) : t = Tag24(x, b)
    BY <1>2 DEF Tag24FromBytes
<1>4. t.inner = x /\ t.inner_bytes = b
    BY <1>3 DEF Tag24
<1>5. to_qr_code_uri(t) = uri
    <2>1. uri = [prefix |-> "mdoc:", encoded |-> b]
        BY <1>1, <1>2 DEF IsCode
    <2>. QED BY <1>4, <2>1 DEF to_qr_code_uri
<1>6. x \in EngagementFromValue(item)
    BY <1>1, <1>3 DEF FromSlice, from_slice
<1>0. PICK m \in IntegerMap(item) : x \in EngagementFromMap(m)
    BY <1>6 DEF EngagementFromValue
<1>7. 1 \in DOMAIN m /\ Is("array", m[1]) /\ Len(m[1].array) >= 2
    BY <1>0 DEF EngagementFromMap
<1>8. PICK v, a : v = m[1] /\ a = v.array
    OBVIOUS
<1>9. x.cipher \in Unsigned(a[1]) /\ x.key \in KeyBytes(a[2])
    BY <1>0, <1>8 DEF EngagementFromMap
<1>10. IsValue(item)
    BY <1>1 DEF IsCode
<1>11. PICK i \in DOMAIN item.map : v = item.map[i][2]
    BY <1>7, <1>8, <1>10, LastEntry
<1>12. Is("map", item)
    BY <1>7, <1>10, LastEntry
<1>13. /\ IsValue(v)
       /\ Is("array", v) => \A j \in DOMAIN a : IsValue(a[j]) /\ (Is("tag", a[j]) => IsValue(a[j].content))
    BY <1>1, <1>8, <1>11, <1>12 DEF IsCode
<1>14. Is("array", v) /\ Len(a) >= 2
    BY <1>7, <1>8
<1>15. v = Array([j \in 1..Len(a) |-> a[j]]) /\ Len(a) \in Nat
    BY <1>8, <1>13, <1>14 DEF IsValue
<1>16. 1 \in DOMAIN a /\ 2 \in DOMAIN a
    <2>1. a = [j \in 1..Len(a) |-> a[j]]
        BY <1>8, <1>15, ValueFields
    <2>2. DOMAIN a = 1..Len(a)
        BY <2>1
    <2>. QED BY <1>14, <1>15, <2>2
<1>17. IsValue(a[1]) /\ IsValue(a[2]) /\ (Is("tag", a[2]) => IsValue(a[2].content))
    BY <1>13, <1>14, <1>16
<1>18. a[1] = Integer(x.cipher)
    BY <1>9, <1>17 DEF Unsigned, IsValue
<1>19. a[2] = Tag24Value(x.key)
    <2>1. PICK d \in Tag24Bytes(a[2]) : x.key \in Tag24FromBytes(d, FromSlice(d, KeyFromValue))
        BY <1>9 DEF KeyBytes
    <2>2. x.key.inner_bytes = d
        BY <2>1 DEF Tag24FromBytes, Tag24
    <2>3. Is("tag", a[2]) /\ a[2].tag = 24 /\ Is("bytes", a[2].content) /\ a[2].content.bytes = d
        BY <2>1 DEF Tag24Bytes
    <2>4. a[2] = Tag(24, a[2].content) /\ a[2].content = Bytes(d)
        BY <1>17, <2>3 DEF IsValue
    <2>. QED BY <2>2, <2>4 DEF Tag24Value
<1>20. IsSecurityOf(v, x)
    BY <1>8, <1>14, <1>18, <1>19 DEF IsSecurityOf
<1>. QED BY <1>1, <1>4, <1>5, <1>11, <1>20

\* The reader keeps the bytes of the code that it scanned, whatever code it is: it shows the
\* same code again and puts the same bytes into the session transcript, and the key that it
\* uses is written in that code (Tag24::from_bytes).
THEOREM TranscriptsAgree == EngagementSpec => []TranscriptAgrees
<1>1. EngagementInv => TranscriptAgrees
    <2>. SUFFICES ASSUME EngagementInv, NEW t \in reader, NEW uri \in scanned
                  PROVE  /\ to_qr_code_uri(t) = uri
                         /\ \E k \in DOMAIN uri.encoded.item.map : IsSecurityOf(uri.encoded.item.map[k][2], t.inner)
        BY DEF TranscriptAgrees
    <2>1. reader = from_qr_code_uri(uri) /\ scanned = {uri}
        BY DEF EngagementInv, AtMostOne
    <2>2. PICK d \in device : uri \in {to_qr_code_uri(d)} \cup Alterations(to_qr_code_uri(d))
        BY DEF EngagementInv
    <2>3. PICK e \in Engagements : d = Tag24New(e, EngagementValue(e))
        BY DEF EngagementInv
    <2>4. CASE uri = to_qr_code_uri(d)
        <3>1. d.inner = e /\ d.inner_bytes = to_vec(EngagementValue(e))
            BY <2>3 DEF Tag24New, Tag24
        <3>2. reader = {Tag24(WithoutProtocolInfo(e), d.inner_bytes)}
            BY <2>1, <2>4, <3>1, ReaderOfCode
        <3>3. t.inner = WithoutProtocolInfo(e) /\ t.inner_bytes = d.inner_bytes
            BY <3>2 DEF Tag24
        <3>4. to_qr_code_uri(t) = uri
            BY <2>4, <3>3 DEF to_qr_code_uri
        <3>5. IsEngagement(e)
            BY EngagementsAssumption
        <3>6. t.inner.cipher = e.cipher /\ t.inner.key = e.key
            BY <3>3, <3>5 DEF WithoutProtocolInfo, IsEngagement
        <3>7. uri.encoded.item = EngagementValue(e)
            BY <2>4, <3>1 DEF to_qr_code_uri, to_vec
        <3>8. \A v : IsSecurityOf(v, e) => IsSecurityOf(v, t.inner)
            BY <3>6 DEF IsSecurityOf
        <3>. QED BY <3>4, <3>5, <3>7, <3>8, EngagementIsRead
    <2>5. CASE uri \in Alterations(to_qr_code_uri(d))
        <3>1. IsCode(uri)
            BY <2>3, <2>5, CodesAssumption
        <3>. QED BY <2>1, <3>1, ReadFromCode
    <2>. QED BY <2>2, <2>4, <2>5
<1>. QED BY <1>1, EngagementInductive, PTL

\* A point has one encoding.
LEMMA OnePoint ==
    ASSUME NEW key, NEW p \in EncodedPoint(key)
    PROVE  EncodedPoint(key) = {p}
BY DEF EncodedPoint

\* A reader of the code of a device that offers to be a central client finds the first such
\* offer, after whatever other methods, and agrees on a key with the point of the device
\* (first_central_client_uuid, TryFrom<CoseKey> for EncodedPoint).
THEOREM ReaderFindsTheDevice == EngagementSpec => []ReaderFindsDevice
<1>1. EngagementInv => ReaderFindsDevice
    <2>. SUFFICES ASSUME EngagementInv, NEW t \in device, NEW found \in session, scanned = {to_qr_code_uri(t)}
                  PROVE  /\ {found.point} = EncodedPoint(t.inner.key.inner)
                         /\ \A ms \in t.inner.methods : \A i \in DOMAIN ms :
                                Central(ms[i]) # {} => found.uuid # {} /\ \E j \in 1..i : found.uuid = Central(ms[j])
        BY DEF ReaderFindsDevice
    <2>1. PICK e : e = t.inner
        OBVIOUS
    <2>2. IsEngagement(e) /\ reader = {Tag24(WithoutProtocolInfo(e), t.inner_bytes)}
        BY <2>1, ReaderOfCode, EngagementsAssumption
    <2>3. PICK u \in reader : found.point \in EncodedPoint(u.inner.key.inner) /\ found.uuid = first_central_client_uuid(u.inner)
        BY DEF EngagementInv
    <2>4. u.inner = WithoutProtocolInfo(e)
        BY <2>2, <2>3 DEF Tag24
    <2>5. u.inner.key = e.key /\ u.inner.methods = e.methods
        BY <2>2, <2>4 DEF WithoutProtocolInfo, IsEngagement
    <2>6. {found.point} = EncodedPoint(e.key.inner)
        BY <2>3, <2>5, OnePoint
    <2>7. ASSUME NEW ms \in e.methods, NEW i \in DOMAIN ms, Central(ms[i]) # {}
          PROVE  found.uuid # {} /\ \E j \in 1..i : found.uuid = Central(ms[j])
        <3>1. PICK n \in Nat : DOMAIN ms = 1..n
            BY <2>2, <2>7 DEF IsEngagement, IsMethods
        <3>2. PICK offers : offers = {j \in DOMAIN ms : Central(ms[j]) # {}}
            OBVIOUS
        <3>3. offers \subseteq Nat /\ offers # {} /\ i \in offers
            BY <2>7, <3>1, <3>2
        <3>4. PICK x \in offers : \A y \in offers : x <= y
            BY <3>3, LeastNumber
        <3>5. {j \in offers : \A k \in offers : j <= k} = {x}
            <4>1. ASSUME NEW j \in offers, \A k \in offers : j <= k
                  PROVE  j = x
                <5>1. j <= x /\ x <= j /\ j \in Nat /\ x \in Nat
                    BY <3>3, <3>4, <4>1
                <5>. QED BY <5>1
            <4>. QED BY <3>4, <4>1
        <3>6. e.methods = {ms}
            BY <2>2, <2>7 DEF IsEngagement, AtMostOne
        <3>7. first_central_client_uuid(u.inner) = UNION {Central(ms[j]) : j \in {k \in offers : \A h \in offers : k <= h}}
            BY <2>5, <3>2, <3>6 DEF first_central_client_uuid
        <3>8. found.uuid = Central(ms[x])
            BY <2>3, <3>5, <3>7
        <3>9. x \in 1..i
            BY <3>1, <3>2, <3>3, <3>4
        <3>10. Central(ms[x]) # {}
            BY <3>2, <3>4
        <3>. QED BY <3>8, <3>9, <3>10
    <2>. QED BY <2>1, <2>6, <2>7
<1>. QED BY <1>1, EngagementInductive, PTL

-----------------------------------------------------------------------------
(* Device keys and their authorizations *)

\* The sequence of a finite set has each member once.
LEMMA SetAsSeq ==
    ASSUME NEW S, IsFiniteSet(S), NEW s, s = SetToSeq(S)
    PROVE  /\ s \in [1..Cardinality(S) -> S] /\ Cardinality(S) \in Nat
           /\ \A i, j \in DOMAIN s : s[i] = s[j] => i = j
           /\ {s[i] : i \in DOMAIN s} = S
           /\ \A x \in S : \E i \in DOMAIN s : s[i] = x
<1>1. PICK n : n = Cardinality(S)
    OBVIOUS
<1>2. n \in Nat /\ ExistsBijection(1..n, S)
    BY <1>1, FS_CardinalityType
<1>3. \E f \in [1..n -> S] : IsInjective(f)
    BY <1>2 DEF ExistsBijection, Bijection, Injection
<1>4. s \in [1..n -> S] /\ IsInjective(s)
    BY <1>1, <1>3 DEF SetToSeq
<1>5. Cardinality(1..n) = n /\ IsFiniteSet(1..n)
    <2>1. 1 \in Int /\ n \in Int
        BY <1>2
    <2>2. IsFiniteSet(1..n) /\ Cardinality(1..n) = IF 1 > n THEN 0 ELSE n - 1 + 1
        BY <2>1, FS_Interval
    <2>. QED BY <1>2, <2>2
<1>6. s \in Injection(1..n, S)
    BY <1>4 DEF Injection
<1>7. s \in Surjection(1..n, S)
    BY <1>1, <1>5, <1>6, FS_Injection
<1>8. {s[i] : i \in 1..n} = S
    BY <1>4, <1>7 DEF Surjection
<1>. QED BY <1>1, <1>2, <1>4, <1>8 DEF IsInjective

\* A vector of strings is read again.
LEMMA TextsAreRead ==
    ASSUME NEW S, IsFiniteSet(S), S # {}
    PROVE  TextsFromArray(TextArray(S)) = {S}
<1>1. PICK s, w : s = SetToSeq(S) /\ w = [i \in DOMAIN s |-> Text(s[i])]
    OBVIOUS
<1>2. {s[i] : i \in DOMAIN s} = S /\ s = [i \in DOMAIN s |-> s[i]]
    BY <1>1, SetAsSeq
<1>3. TextArray(S) = Array(w)
    BY <1>1 DEF TextArray
<1>4. PICK d : d = Decoded(Array(w), String)
    OBVIOUS
<1>5. d = [i \in DOMAIN w |-> String(w[i])]
    BY <1>4, ValueFields DEF Decoded
<1>6. DOMAIN d = DOMAIN s /\ \A i \in DOMAIN s : d[i] = {s[i]}
    BY <1>1, <1>5, ValueFields DEF String
<1>7. DOMAIN s # {}
    BY <1>2
<1>8. NonEmptyVec(d) = {s}
    BY <1>2, <1>6, <1>7, VecIsRead
<1>9. Range(s) = S
    BY <1>2 DEF Range
<1>. QED BY <1>3, <1>4, <1>8, <1>9 DEF TextsFromArray

\* A map from namespaces to elements is read again.
LEMMA ElementsAreRead ==
    ASSUME NEW d, IsFiniteSet(DOMAIN d), DOMAIN d # {}, d = [n \in DOMAIN d |-> d[n]],
           \A n \in DOMAIN d : IsFiniteSet(d[n]) /\ d[n] # {}
    PROVE  ElementsFromValue(ElementsValue(d)) = {d}
<1>1. PICK names, s : /\ names = SetToSeq(DOMAIN d)
                      /\ s = [i \in DOMAIN names |-> <<Text(names[i]), TextArray(d[names[i]])>>]
    OBVIOUS
<1>2. /\ DOMAIN names \subseteq Int
      /\ \A i, j \in DOMAIN names : names[i] = names[j] => i = j
      /\ {names[i] : i \in DOMAIN names} = DOMAIN d
    <2>1. PICK n : n = Cardinality(DOMAIN d)
        OBVIOUS
    <2>2. names \in [1..n -> DOMAIN d] /\ n \in Nat
        BY <1>1, <2>1, SetAsSeq
    <2>3. DOMAIN names \subseteq Int
        BY <2>2
    <2>4. \A i, j \in DOMAIN names : names[i] = names[j] => i = j
        BY <1>1, SetAsSeq
    <2>5. {names[i] : i \in DOMAIN names} = DOMAIN d
        <3>1. \A x \in DOMAIN d : \E i \in DOMAIN names : names[i] = x
            BY <1>1, SetAsSeq
        <3>. QED BY <2>2, <3>1
    <2>. QED BY <2>3, <2>4, <2>5
<1>3. DOMAIN s = DOMAIN names /\ \A i \in DOMAIN s : s[i][1] = Text(names[i]) /\ s[i][2] = TextArray(d[names[i]])
    BY <1>1
<1>4. PICK v : v = ElementsValue(d)
    OBVIOUS
<1>5. Is("map", v) /\ v.map = s
    BY <1>1, <1>4, ValueFields DEF ElementsValue
<1>6. \A i \in DOMAIN s : /\ names[i] \in DOMAIN d /\ Is("text", s[i][1]) /\ s[i][1].text = names[i]
                          /\ TextsFromArray(s[i][2]) = {d[names[i]]}
    BY <1>2, <1>3, ValueFields, TextsAreRead
<1>7. {s[i][1].text : i \in DOMAIN s} = DOMAIN d
    <2>1. {s[i][1].text : i \in DOMAIN s} = {names[i] : i \in DOMAIN s}
        BY <1>6
    <2>. QED BY <1>2, <1>3, <2>1
<1>8. s # <<>>
    <2>1. DOMAIN <<>> = {}
        OBVIOUS
    <2>. QED BY <1>2, <1>3, <2>1
<1>9. ASSUME NEW n \in DOMAIN d
      PROVE  (LET i == CHOOSE i \in DOMAIN s : s[i][1].text = n /\ \A j \in DOMAIN s : s[j][1].text = n => j <= i
              IN  CHOOSE S \in TextsFromArray(s[i][2]) : TRUE) = d[n]
    <2>1. PICK h \in DOMAIN s : names[h] = n
        BY <1>2, <1>3
    <2>2. \A j \in DOMAIN s : s[j][1].text = n => j = h
        BY <1>2, <1>3, <1>6, <2>1
    <2>3. h <= h /\ s[h][1].text = n
        BY <1>2, <1>3, <1>6, <2>1
    <2>4. (CHOOSE i \in DOMAIN s : s[i][1].text = n /\ \A j \in DOMAIN s : s[j][1].text = n => j <= i) = h
        BY <2>1, <2>2, <2>3
    <2>5. TextsFromArray(s[h][2]) = {d[n]}
        BY <1>6, <2>1
    <2>6. (CHOOSE S \in TextsFromArray(s[h][2]) : TRUE) = d[n]
        BY <2>5
    <2>. QED BY <2>4, <2>6
<1>10. [n \in DOMAIN d |->
          LET i == CHOOSE i \in DOMAIN s : s[i][1].text = n /\ \A j \in DOMAIN s : s[j][1].text = n => j <= i
          IN  CHOOSE S \in TextsFromArray(s[i][2]) : TRUE] = d
    BY <1>9
<1>11. \A i \in DOMAIN s : Is("text", s[i][1]) /\ TextsFromArray(s[i][2]) # {}
    BY <1>6
<1>12. ElementsFromValue(v) = {[n \in {s[i][1].text : i \in DOMAIN s} |->
          LET i == CHOOSE i \in DOMAIN s : s[i][1].text = n /\ \A j \in DOMAIN s : s[j][1].text = n => j <= i
          IN  CHOOSE S \in TextsFromArray(s[i][2]) : TRUE]}
    BY <1>5, <1>8, <1>11 DEF ElementsFromValue
<1>. QED BY <1>4, <1>7, <1>10, <1>12

\* What is found at the place of a field.
LEMMA FieldPlace ==
    ASSUME NEW i
    PROVE  ~(Cardinality({i}) > 1) /\ {i} # {}
<1>1. Cardinality({i}) = 1
    BY FS_Singleton
<1>. QED BY <1>1

LEMMA NamespacesField ==
    ASSUME NEW s, NEW name, NEW option \in Options(NonEmptySubsets(Namespaces)),
           Found(s, name, option, TextArray(The(option)))
    PROVE  Field(Map(s), name, TextsFromArray) = {option}
<1>1. Map(s).map = s
    BY ValueFields
<1>2. CASE option = {}
    <2>1. Places(s, name) = {}
        BY <1>2 DEF Found
    <2>. QED BY <1>1, <1>2, <2>1 DEF Field, Places
<1>3. CASE option # {}
    <2>1. PICK i : Places(s, name) = {i} /\ s[i][2] = TextArray(The(option))
        BY <1>3 DEF Found
    <2>2. PICK S \in NonEmptySubsets(Namespaces) : option = {S}
        BY <1>3 DEF Options
    <2>3. The(option) = S
        BY <2>2 DEF The
    <2>4. S \in SUBSET Namespaces /\ S # {}
        BY <2>2 DEF NonEmptySubsets
    <2>5. IsFiniteSet(S)
        BY <2>4, FS_Subset, DeviceKeysAssumption
    <2>6. TextsFromArray(s[i][2]) = {S}
        BY <2>1, <2>3, <2>4, <2>5, TextsAreRead
    <2>7. ~(Cardinality({i}) > 1) /\ {i} # {}
        BY FieldPlace
    <2>8. Field(Map(s), name, TextsFromArray) = UNION {{{x} : x \in TextsFromArray(s[j][2])} : j \in {i}}
        BY <1>1, <2>1, <2>7 DEF Field, Places
    <2>. QED BY <2>2, <2>6, <2>8
<1>. QED BY <1>2, <1>3

ElementMaps == UNION {[D -> NonEmptySubsets(Elements)] : D \in NonEmptySubsets(Namespaces)}

LEMMA ElementsField ==
    ASSUME NEW s, NEW name, NEW option \in Options(ElementMaps),
           Found(s, name, option, ElementsValue(The(option)))
    PROVE  Field(Map(s), name, ElementsFromValue) = {option}
<1>1. Map(s).map = s
    BY ValueFields
<1>2. CASE option = {}
    <2>1. Places(s, name) = {}
        BY <1>2 DEF Found
    <2>. QED BY <1>1, <1>2, <2>1 DEF Field, Places
<1>3. CASE option # {}
    <2>1. PICK i : Places(s, name) = {i} /\ s[i][2] = ElementsValue(The(option))
        BY <1>3 DEF Found
    <2>2. PICK d \in ElementMaps : option = {d}
        BY <1>3 DEF Options
    <2>3. The(option) = d
        BY <2>2 DEF The
    <2>4. PICK D \in NonEmptySubsets(Namespaces) : d \in [D -> NonEmptySubsets(Elements)]
        BY <2>2 DEF ElementMaps
    <2>5. /\ DOMAIN d = D /\ D \in SUBSET Namespaces /\ D # {} /\ d = [n \in DOMAIN d |-> d[n]]
          /\ \A n \in DOMAIN d : d[n] \in SUBSET Elements /\ d[n] # {}
        <3>1. DOMAIN d = D /\ d = [n \in DOMAIN d |-> d[n]] /\ \A n \in DOMAIN d : d[n] \in NonEmptySubsets(Elements)
            BY <2>4
        <3>2. D \in SUBSET Namespaces /\ D # {}
            BY <2>4 DEF NonEmptySubsets
        <3>3. \A n \in DOMAIN d : d[n] \in SUBSET Elements /\ d[n] # {}
            BY <3>1 DEF NonEmptySubsets
        <3>. QED BY <3>1, <3>2, <3>3
    <2>6. IsFiniteSet(DOMAIN d) /\ \A n \in DOMAIN d : IsFiniteSet(d[n]) /\ d[n] # {}
        BY <2>5, FS_Subset, DeviceKeysAssumption
    <2>7. ElementsFromValue(s[i][2]) = {d}
        BY <2>1, <2>3, <2>5, <2>6, ElementsAreRead
    <2>8. ~(Cardinality({i}) > 1) /\ {i} # {}
        BY FieldPlace
    <2>9. Field(Map(s), name, ElementsFromValue) = UNION {{{x} : x \in ElementsFromValue(s[j][2])} : j \in {i}}
        BY <1>1, <2>1, <2>8 DEF Field, Places
    <2>. QED BY <2>2, <2>7, <2>9
<1>. QED BY <1>2, <1>3

LEMMA AuthIsRead ==
    ASSUME NEW auth \in KeyAuthorizations
    PROVE  AuthFromValue(AuthValue(auth)) = {auth}
<1>1. PICK n, d : n = auth.namespaces /\ d = auth.data_elements
    OBVIOUS
<1>2. /\ auth = [namespaces |-> n, data_elements |-> d]
      /\ n \in Options(NonEmptySubsets(Namespaces)) /\ d \in Options(ElementMaps)
    BY <1>1 DEF KeyAuthorizations, ElementMaps
<1>3. PICK vn, vd : vn = TextArray(The(n)) /\ vd = ElementsValue(The(d))
    OBVIOUS
<1>4. PICK s : s = FieldSeq("nameSpaces", n, vn) \o FieldSeq("dataElements", d, vd)
    OBVIOUS
<1>5. AuthValue(auth) = Map(s)
    BY <1>1, <1>3, <1>4 DEF AuthValue, FieldEntry, FieldSeq, The
<1>6. Found(s, "nameSpaces", n, vn) /\ Found(s, "dataElements", d, vd)
    BY <1>4, FieldsAreFound
<1>7. Field(Map(s), "nameSpaces", TextsFromArray) = {n}
    BY <1>2, <1>3, <1>6, NamespacesField
<1>8. Field(Map(s), "dataElements", ElementsFromValue) = {d}
    BY <1>2, <1>3, <1>6, ElementsField
<1>9. AuthFromValue(Map(s)) = {[namespaces |-> n1, data_elements |-> d1] : n1 \in {n}, d1 \in {d}}
    BY <1>7, <1>8, ValueFields DEF AuthFromValue
<1>. QED BY <1>2, <1>5, <1>9

\* The key and the authorizations in a mobile security object are those that were issued.
LEMMA InfoIsRead ==
    ASSUME NEW info \in DeviceKeyInfos
    PROVE  InfoFromValue(InfoValue(info)) = {info}
<1>1. PICK k, A : k = info.device_key /\ A = info.key_authorizations
    OBVIOUS
<1>2. info = [device_key |-> k, key_authorizations |-> A] /\ IsKey(k) /\ A \in Options(KeyAuthorizations)
    BY <1>1, DeviceKeysAssumption DEF DeviceKeyInfos
<1>3. PICK vk, va : vk = KeyValue(k) /\ va = AuthValue(The(A))
    OBVIOUS
<1>4. PICK s : s = FieldSeq("deviceKey", {k}, vk) \o FieldSeq("keyAuthorizations", A, va)
    OBVIOUS
<1>5. InfoValue(info) = Map(s)
    BY <1>1, <1>3, <1>4 DEF InfoValue, FieldEntry, FieldSeq, The
<1>6. Found(s, "deviceKey", {k}, vk) /\ Found(s, "keyAuthorizations", A, va)
    BY <1>4, FieldsAreFound
<1>7. Map(s).map = s
    BY ValueFields
<1>8. UNION Field(Map(s), "deviceKey", KeyFromValue) = {k}
    <2>1. PICK i : Places(s, "deviceKey") = {i} /\ s[i][2] = vk
        BY <1>6 DEF Found
    <2>2. Field(Map(s), "deviceKey", KeyFromValue) = UNION {{{x} : x \in KeyFromValue(s[j][2])} : j \in {i}}
        <3>1. ~(Cardinality({i}) > 1) /\ {i} # {}
            BY FieldPlace
        <3>. QED BY <1>7, <2>1, <3>1 DEF Field, Places
    <2>3. KeyFromValue(s[i][2]) = {k}
        BY <1>2, <1>3, <2>1, KeyIsRead
    <2>4. Field(Map(s), "deviceKey", KeyFromValue) = {{k}}
        <3>1. UNION {{{x} : x \in KeyFromValue(s[j][2])} : j \in {i}} = {{x} : x \in KeyFromValue(s[i][2])}
            OBVIOUS
        <3>2. {{x} : x \in {k}} = {{k}}
            OBVIOUS
        <3>. QED BY <2>2, <2>3, <3>1, <3>2
    <2>. QED BY <2>4
<1>9. Field(Map(s), "keyAuthorizations", AuthFromValue) = {A}
    <2>1. CASE A = {}
        <3>1. Places(s, "keyAuthorizations") = {}
            BY <1>6, <2>1 DEF Found
        <3>. QED BY <1>7, <2>1, <3>1 DEF Field, Places
    <2>2. CASE A # {}
        <3>1. PICK i : Places(s, "keyAuthorizations") = {i} /\ s[i][2] = va
            BY <1>6, <2>2 DEF Found
        <3>2. A = {The(A)} /\ The(A) \in KeyAuthorizations
            BY <1>2, <2>2 DEF Options, The
        <3>3. AuthFromValue(s[i][2]) = {The(A)}
            BY <1>3, <3>1, <3>2, AuthIsRead
        <3>4. Field(Map(s), "keyAuthorizations", AuthFromValue) = UNION {{{x} : x \in AuthFromValue(s[j][2])} : j \in {i}}
            <4>1. ~(Cardinality({i}) > 1) /\ {i} # {}
                BY FieldPlace
            <4>. QED BY <1>7, <3>1, <4>1 DEF Field, Places
        <3>5. UNION {{{x} : x \in AuthFromValue(s[j][2])} : j \in {i}} = {{x} : x \in AuthFromValue(s[i][2])}
            OBVIOUS
        <3>6. {{x} : x \in {The(A)}} = {{The(A)}}
            OBVIOUS
        <3>. QED BY <3>2, <3>3, <3>4, <3>5, <3>6
    <2>. QED BY <2>1, <2>2
<1>10. InfoFromValue(Map(s)) = {[device_key |-> k1, key_authorizations |-> a1] : k1 \in {k}, a1 \in {A}}
    BY <1>8, <1>9, ValueFields DEF InfoFromValue
<1>. QED BY <1>2, <1>5, <1>10

\* The holder has the device key and the authorizations that were issued, and answers by
\* them: the CBOR maps of the mobile security object lose and add nothing.
THEOREM DeviceKeysInductive == DeviceKeysSpec => []DeviceKeysInv
<1>1. DeviceKeysInit => DeviceKeysInv
    BY DEF DeviceKeysInit, DeviceKeysInv, AtMostOne
<1>2. DeviceKeysInv /\ [DeviceKeysNext]_deviceKeyVars => DeviceKeysInv'
    <2>. SUFFICES ASSUME DeviceKeysInv, [DeviceKeysNext]_deviceKeyVars
                  PROVE  DeviceKeysInv'
        OBVIOUS
    <2>1. CASE IssueKey
        <3>1. PICK info \in DeviceKeyInfos : issued = {} /\ issued' = {info}
            BY <2>1 DEF IssueKey
        <3>2. UNCHANGED <<held, answers>>
            BY <2>1 DEF IssueKey
        <3>3. held = {} /\ answers = {}
            BY <3>1 DEF DeviceKeysInv
        <3>. QED BY <3>1, <3>2, <3>3 DEF DeviceKeysInv, AtMostOne
    <2>2. CASE Receive
        <3>1. PICK info \in issued : held = {} /\ held' = {InfoFromValue(InfoValue(info))}
            BY <2>2 DEF Receive
        <3>2. UNCHANGED <<issued, answers>>
            BY <2>2 DEF Receive
        <3>3. held' = {{info}} /\ issued = {info}
            BY <3>1, InfoIsRead DEF DeviceKeysInv, AtMostOne
        <3>4. answers = {}
            BY <3>1 DEF DeviceKeysInv
        <3>. QED BY <3>1, <3>2, <3>3, <3>4 DEF DeviceKeysInv, AtMostOne
    <2>3. CASE AskHolder
        <3>1. PICK info \in UNION held, ns \in Namespaces, el \in Elements :
                \E auth \in info.key_authorizations :
                    answers' = {[namespace |-> ns, element |-> el, permitted |-> permitted(auth, ns, el),
                                 algorithm |-> signature_algorithm(info.device_key)]}
            BY <2>3 DEF AskHolder
        <3>2. PICK auth \in info.key_authorizations :
                answers' = {[namespace |-> ns, element |-> el, permitted |-> permitted(auth, ns, el),
                             algorithm |-> signature_algorithm(info.device_key)]}
            BY <3>1
        <3>3. UNCHANGED <<issued, held>>
            BY <2>3 DEF AskHolder
        <3>4. info \in issued /\ held # {}
            BY DEF DeviceKeysInv
        <3>5. \A a \in answers' : /\ a.permitted = permitted(auth, a.namespace, a.element)
                                  /\ a.algorithm = signature_algorithm(info.device_key)
            BY <3>2
        <3>. QED BY <3>2, <3>3, <3>4, <3>5 DEF DeviceKeysInv, AtMostOne
    <2>4. CASE UNCHANGED deviceKeyVars
        BY <2>4 DEF DeviceKeysInv, deviceKeyVars, AtMostOne
    <2>. QED BY <2>1, <2>2, <2>3, <2>4 DEF DeviceKeysNext
<1>. QED BY <1>1, <1>2, PTL DEF DeviceKeysSpec

\* What was issued is what the holder has, and an element may be signed exactly when it was
\* listed (with both lists: only when), for every key and every authorization over finite
\* sets of namespaces and elements (KeyAuthorizations and DeviceKeyInfo through CBOR).
THEOREM PermittedWasAlwaysListed == DeviceKeysSpec => []PermittedWasListed
<1>1. ASSUME DeviceKeysInv, NEW a \in answers, NEW info \in issued, NEW auth \in info.key_authorizations
      PROVE  /\ a.algorithm = signature_algorithm(info.device_key)
             /\ a.permitted => Listed(auth, a)
             /\ Listed(auth, a) => a.permitted \/ BothLists(auth)
    <2>1. PICK h \in issued : \E x \in h.key_authorizations :
            /\ a.permitted = permitted(x, a.namespace, a.element)
            /\ a.algorithm = signature_algorithm(h.device_key)
        BY <1>1 DEF DeviceKeysInv
    <2>2. PICK x \in h.key_authorizations : /\ a.permitted = permitted(x, a.namespace, a.element)
                                            /\ a.algorithm = signature_algorithm(h.device_key)
        BY <2>1
    <2>3. h = info
        BY <1>1 DEF DeviceKeysInv, AtMostOne
    <2>4. info.key_authorizations \in Options(KeyAuthorizations)
        BY <1>1 DEF DeviceKeysInv, DeviceKeyInfos
    <2>5. x = auth
        BY <2>2, <2>3, <2>4 DEF Options
    <2>6. permitted(auth, a.namespace, a.element) => Listed(auth, a)
        BY DEF permitted, Listed
    <2>7. Listed(auth, a) => permitted(auth, a.namespace, a.element) \/ BothLists(auth)
        BY DEF permitted, Listed, BothLists
    <2>. QED BY <2>2, <2>3, <2>5, <2>6, <2>7
<1>2. DeviceKeysInv => PermittedWasListed
    BY <1>1 DEF PermittedWasListed, DeviceKeysInv
<1>. QED BY <1>2, DeviceKeysInductive, PTL
=============================================================================
