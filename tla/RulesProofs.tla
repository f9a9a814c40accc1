----------------------------- MODULE RulesProofs -----------------------------
(***************************************************************************)
(* What holds of the connector's pure functions for every input: frames     *)
(* that lack any fields, any delays, ttls and intervals, any extension.     *)
(***************************************************************************)
EXTENDS Rules, WellFoundedInduction, TLAPS

-----------------------------------------------------------------------------
(* Numbers                                                                  *)

(* Every set of numbers has a least one.                                    *)
LEMMA LeastNumber ==
  ASSUME NEW T \in SUBSET Nat, T # {}
  PROVE  \E x \in T : \A y \in T : x <= y
<1> DEFINE R == OpToRel(<, Nat)
<1>1. R = {ss \in Nat \X Nat : ss[1] < ss[2]}
  BY DEF OpToRel
<1>2. IsWellFoundedOn(R, Nat)
  BY NatLessThanWellFounded
<1> HIDE DEF R
<1>3. \E x \in T : \A y \in T : ~(<<y, x>> \in R)
  BY <1>2, WFMin
<1>4. PICK x \in T : \A y \in T : ~(<<y, x>> \in R)
  BY <1>3
<1>5. ASSUME NEW y \in T
      PROVE  x <= y
  <2>1. <<y, x>> \notin R /\ <<y, x>> \in Nat \X Nat /\ <<y, x>>[1] = y /\ <<y, x>>[2] = x
    BY <1>4
  <2>2. ~(y < x)
    BY <1>1, <2>1
  <2> QED BY <2>2
<1> QED BY <1>5

-----------------------------------------------------------------------------
(* Frames                                                                   *)

AnyFrame ==
    [type : Types, lacks : SUBSET Fields, payload : {"none", "other", "empty", "complete"},
     sequence : {"none", "positive", "invalid"}]

LEMMA KnownTypes ==
  /\ Known = {"accepted", "replaced", "rejected", "ack", "heartbeat", "request", "interrupt",
              "event", "response", "session_started", "session_ended"}
  /\ RequiredFields["ack"] = {"in_reply_to"} /\ RequiredFields["event"] = Turn \cup {"response_id"}
  /\ RequiredFields["heartbeat"] = Connection /\ RequiredFields["accepted"] = Connection
  /\ RequiredFields["request"] = Turn /\ RequiredFields["rejected"] = {} /\ RequiredFields["replaced"] = Connection
BY DEF Known, RequiredFields

(* Whatever fields a frame lacks, it is served.                             *)
THEOREM EveryFrameIsServed ==
  ASSUME NEW f \in AnyFrame
  PROVE  isServed(f)
<1> USE KnownTypes
<1>1. /\ f.type \in Types /\ f.lacks \subseteq Fields
      /\ f.payload \in {"none", "other", "empty", "complete"}
      /\ f.sequence \in {"none", "positive", "invalid"}
  BY DEF AnyFrame
<1>2. \A type : valid(f, type) => isEnvelope(f) /\ f.type = type
  BY DEF valid
<1>3. CASE ~isEnvelope(f)
  <2>1. received(f) = "ignored"
    BY <1>2, <1>3 DEF received
  <2> QED BY <1>3, <2>1 DEF isServed
<1>4. CASE isEnvelope(f) /\ f.type = "accepted"
  <2>1. routed(f) = "ignored"
    BY <1>4 DEF routed, Served
  <2>2. ~valid(f, "rejected") /\ ~valid(f, "replaced")
    BY <1>2, <1>4
  <2>3. received(f) = IF valid(f, "accepted") THEN "accepted" ELSE "ignored"
    BY <1>4, <2>1, <2>2 DEF received
  <2>4. valid(f, "accepted") => valid(heartbeatOf(f), "heartbeat")
    BY <1>4 DEF valid, heartbeatOf, isEnvelope, required, Base, Connection, Fields, Turn,
                NeedsPayload, NeedsContents
  <2> QED BY <1>4, <2>3, <2>4 DEF isServed
<1>5. CASE isEnvelope(f) /\ f.type = "request"
  <2>1. received(f) = IF valid(f, "request") THEN "handled" ELSE "refused"
    BY <1>5 DEF received, routed, valid, Served
  <2>2. valid(f, "request") => f.lacks \cap Turn = {} /\ f.lacks \cap Base = {}
    BY <1>5 DEF valid, required, isEnvelope
  <2>3. valid(f, "request") => valid(eventFor(f), "event")
    BY <2>2 DEF valid, eventFor, isEnvelope, required, Base, Turn, NeedsPayload, NeedsContents
  <2>4. valid(f, "request") => valid(ackFor(f), "ack")
    BY <2>2 DEF valid, ackFor, isEnvelope, required, Base, Turn, Connection, NeedsPayload, NeedsContents
  <2> QED BY <1>5, <2>1, <2>3, <2>4 DEF isServed
<1>6. CASE isEnvelope(f) /\ f.type = "ack"
  <2>1. routed(f) = IF required(f, "ack") THEN "acknowledged" ELSE "ignored"
    BY <1>6 DEF routed, Served
  <2>2. ~valid(f, "accepted") /\ ~valid(f, "rejected") /\ ~valid(f, "replaced")
    BY <1>2, <1>6
  <2>3. received(f) = IF required(f, "ack") THEN "acknowledged" ELSE "ignored"
    BY <1>6, <2>1, <2>2 DEF received
  <2> QED BY <1>6, <2>3 DEF isServed, valid
<1>7. CASE isEnvelope(f) /\ f.type = "rejected"
  <2>1. routed(f) = "closed"
    BY <1>7 DEF routed, Served
  <2>2. ~valid(f, "accepted") /\ ~valid(f, "replaced")
    BY <1>2, <1>7
  <2>3. \/ received(f) \in {"rejected", "closed"}
        \/ received(f) = "throws" /\ f.payload = "none"
    BY <1>7, <2>1, <2>2 DEF received
  <2> QED BY <1>7, <2>3 DEF isServed
<1>8. CASE isEnvelope(f) /\ f.type \notin {"accepted", "request", "ack", "rejected"}
  <2>1. received(f) \in {"answered", "closed", "handled", "refused"}
    BY <1>1, <1>8 DEF received, routed, valid, Served, Types
  <2> QED BY <1>8, <2>1 DEF isServed
<1> QED BY <1>3, <1>4, <1>5, <1>6, <1>7, <1>8

-----------------------------------------------------------------------------
(* Delays                                                                   *)

(* Two heartbeats fit into any ttl of two seconds or more, and no loop      *)
(* sleeps for less than a second or longer than configured.                 *)
THEOREM EverySessionIsKept ==
  ASSUME NEW interval \in Nat, NEW ttl \in Nat
  PROVE  heartbeatsKeep(interval, ttl)
BY SMT DEF heartbeatsKeep, heartbeatIntervalSec, most, least

(* A computation of the powers of two up to the n-th.                       *)
powersTo(f, n) ==
    f = [i \in 0..n |-> IF i = 0 THEN 1 ELSE 2 * f[i - 1]]

LEMMA PowerAt ==
  ASSUME NEW n \in Nat, NEW f, powersTo(f, n), NEW i \in 0..n
  PROVE  f[i] = IF i = 0 THEN 1 ELSE 2 * f[i - 1]
BY DEF powersTo

LEMMA PowersUpTo == \A n \in Nat : \E f : powersTo(f, n)
<1> SUFFICES ASSUME \E n \in Nat : ~\E f : powersTo(f, n)
             PROVE  FALSE
  OBVIOUS
<1> DEFINE T == {n \in Nat : ~\E f : powersTo(f, n)}
<1>1. PICK n \in T : \A m \in T : n <= m
  BY LeastNumber
<1>2. n # 0
  <2>1. powersTo([i \in 0..0 |-> 1], 0)
    BY DEF powersTo
  <2> QED BY <1>1, <2>1
<1>3. PICK f : powersTo(f, n - 1)
  BY <1>1, <1>2
<1> DEFINE g == [i \in 0..n |-> IF i = n THEN 2 * f[n - 1] ELSE f[i]]
<1>4. powersTo(g, n)
  <2>1. n \in Nat /\ n # 0
    BY <1>1, <1>2
  <2>2. \A i \in 0..(n - 1) : f[i] = IF i = 0 THEN 1 ELSE 2 * f[i - 1]
    BY <1>3, <2>1, PowerAt
  <2>3. ASSUME NEW i \in 0..n
        PROVE  g[i] = IF i = 0 THEN 1 ELSE 2 * g[i - 1]
    <3>1. CASE i = n
      <4>1. g[n] = 2 * f[n - 1] /\ n - 1 \in 0..n /\ n - 1 # n
        BY <2>1
      <4>2. g[n - 1] = f[n - 1]
        BY <4>1
      <4> HIDE DEF g
      <4> QED BY <2>1, <3>1, <4>1, <4>2
    <3>2. CASE i # n
      <4>1. i \in 0..(n - 1) /\ (i # 0 => i - 1 \in 0..n /\ i - 1 # n)
        BY <2>1, <3>2
      <4>2. g[i] = f[i] /\ (i # 0 => g[i - 1] = f[i - 1])
        BY <3>2, <4>1
      <4> HIDE DEF g
      <4> QED BY <2>2, <4>1, <4>2
    <3> QED BY <3>1, <3>2
  <2> HIDE DEF g
  <2>4. g = [i \in 0..n |-> g[i]]
    BY DEF g
  <2> QED BY <2>3, <2>4 DEF powersTo
<1> QED BY <1>1, <1>4

(* Two computations agree as far as both go.                                *)
LEMMA PowersAgree ==
  ASSUME NEW n \in Nat, NEW m \in Nat, NEW f, NEW g, powersTo(f, n), powersTo(g, m), n <= m
  PROVE  f[n] = g[n]
<1> DEFINE T == {i \in 0..n : f[i] # g[i]}
<1>1. SUFFICES ASSUME T # {}
               PROVE  FALSE
  BY DEF T
<1>2. PICK i \in T : \A j \in T : i <= j
  <2>1. T \in SUBSET Nat
    OBVIOUS
  <2> QED BY <1>1, <2>1, LeastNumber
<1>3. /\ f[i] = IF i = 0 THEN 1 ELSE 2 * f[i - 1]
      /\ g[i] = IF i = 0 THEN 1 ELSE 2 * g[i - 1]
  <2>1. i \in 0..n /\ i \in 0..m
    BY <1>2
  <2> QED BY <2>1, PowerAt
<1>4. i # 0 => f[i - 1] = g[i - 1]
  <2>1. ASSUME i # 0, i - 1 \in T
        PROVE  FALSE
    BY <1>2, <2>1
  <2> QED BY <1>2, <2>1
<1> QED BY <1>2, <1>3, <1>4

LEMMA Power == \A n \in Nat : power[n] = IF n = 0 THEN 1 ELSE 2 * power[n - 1]
<1> DEFINE upTo(n) == CHOOSE f : powersTo(f, n)
           p == [n \in Nat |-> upTo(n)[n]]
<1>1. \A n \in Nat : powersTo(upTo(n), n)
  BY PowersUpTo
<1>2. ASSUME NEW n \in Nat
      PROVE  p[n] = IF n = 0 THEN 1 ELSE 2 * p[n - 1]
  <2>1. upTo(n)[n] = IF n = 0 THEN 1 ELSE 2 * upTo(n)[n - 1]
    <3> HIDE DEF upTo
    <3> QED BY <1>1, PowerAt
  <2>2. ASSUME n # 0
        PROVE  upTo(n)[n - 1] = upTo(n - 1)[n - 1]
    <3>1. n - 1 \in Nat /\ n - 1 <= n
      BY <2>2
    <3>2. powersTo(upTo(n - 1), n - 1) /\ powersTo(upTo(n), n)
      BY <1>1, <3>1
    <3> QED BY <3>1, <3>2, PowersAgree
  <2>3. p[n] = upTo(n)[n] /\ (n # 0 => p[n - 1] = upTo(n - 1)[n - 1])
    OBVIOUS
  <2> QED BY <2>1, <2>2, <2>3
<1>3. p = [n \in Nat |-> IF n = 0 THEN 1 ELSE 2 * p[n - 1]]
  <2> HIDE DEF p
  <2>1. p = [n \in Nat |-> p[n]]
    BY DEF p
  <2> QED BY <1>2, <2>1
<1> HIDE DEF p
<1>4. power = [n \in Nat |-> IF n = 0 THEN 1 ELSE 2 * power[n - 1]]
  BY <1>3 DEF power
<1> QED BY <1>4

LEMMA PowersDouble ==
  \A n \in Nat : power[n] \in Nat /\ power[n] >= 1 /\ power[n + 1] = 2 * power[n]
<1> DEFINE T == {n \in Nat : ~(power[n] \in Nat /\ power[n] >= 1)}
<1>1. ASSUME T # {}
      PROVE  FALSE
  <2>1. PICK n \in T : \A m \in T : n <= m
    BY <1>1, LeastNumber
  <2>2. n # 0 => n - 1 \notin T /\ n - 1 \in Nat
    BY <2>1
  <2> QED BY <2>1, <2>2, Power
<1>2. \A n \in Nat : power[n + 1] = 2 * power[n]
  BY Power
<1> QED BY <1>1, <1>2
(* What is divided lies between the quotient's multiples of the divisor.    *)
LEMMA Divided ==
  ASSUME NEW x \in Nat, NEW k \in Nat \ {0}
  PROVE  /\ x \div k \in Nat
         /\ k * (x \div k) <= x /\ x < k * (x \div k) + k
<1>1. x \div k \in Int
  OBVIOUS
<1>2. k * (x \div k) <= x /\ x < k * (x \div k) + k
  OBVIOUS
<1>3. x \div k >= 0
  OBVIOUS
<1> QED BY <1>1, <1>2, <1>3

(* A common factor is cancelled.                                            *)
LEMMA Cancelled ==
  ASSUME NEW k \in Nat \ {0}, NEW u \in Int, NEW v \in Int, k * u < k * v
  PROVE  u < v
<1>1. SUFFICES ASSUME u >= v
               PROVE  FALSE
  OBVIOUS
<1>2. PICK w \in Nat : u = v + w
  BY <1>1
<1>3. k * w >= 0 /\ k * u = k * v + k * w
  BY <1>2
<1> QED BY <1>3

(* The jitter takes or adds a tenth, and rounding less than one.            *)
jittered(b, luck) == (b * (9 * Parts + 2 * luck) + 5 * Parts) \div (10 * Parts)

LEMMA Jitter ==
  ASSUME NEW b \in Nat, NEW luck \in 0..(Parts - 1)
  PROVE  jittered(b, luck) \in Nat /\ 10 * jittered(b, luck) < 11 * b + 6
         /\ 10 * jittered(b, luck) > 9 * b - 5
<1> USE PartsAssumption
<1>1. PICK x \in Nat : x = b * (9 * Parts + 2 * luck)
  OBVIOUS
<1>2. Parts * (9 * b) <= x /\ x <= Parts * (11 * b)
  <2>1. b * luck >= 0 /\ b * luck <= b * Parts
    <3>1. PICK w \in Nat : Parts = luck + w
      OBVIOUS
    <3>2. b * w >= 0 /\ b * Parts = b * luck + b * w /\ b * luck >= 0
      BY <3>1
    <3> QED BY <3>2
  <2>2. x = Parts * (9 * b) + 2 * (b * luck) /\ Parts * (11 * b) = Parts * (9 * b) + 2 * (b * Parts)
    BY <1>1
  <2> QED BY <2>1, <2>2
<1>3. x + 5 * Parts \in Nat /\ 10 * Parts \in Nat \ {0}
  BY <1>1
<1>4. PICK d : d = (x + 5 * Parts) \div (10 * Parts)
  OBVIOUS
<1>5. /\ d \in Nat
      /\ (10 * Parts) * d <= x + 5 * Parts /\ x + 5 * Parts < (10 * Parts) * d + 10 * Parts
  BY <1>3, <1>4, Divided
<1>6. (10 * Parts) * d = Parts * (10 * d)
  BY <1>5
<1>7. Parts * (10 * d) < Parts * (11 * b + 6)
  <2>1. Parts * (11 * b + 6) = Parts * (11 * b) + 6 * Parts
    OBVIOUS
  <2> QED BY <1>2, <1>5, <1>6, <2>1
<1>8. Parts * (9 * b - 5) < Parts * (10 * d)
  <2>1. Parts * (9 * b - 5) = Parts * (9 * b) - 5 * Parts
    OBVIOUS
  <2> QED BY <1>2, <1>5, <1>6, <2>1
<1>9. 10 * d < 11 * b + 6
  BY <1>5, <1>7, Cancelled
<1>10. 9 * b - 5 < 10 * d
  BY <1>5, <1>8, Cancelled
<1> QED BY <1>1, <1>4, <1>5, <1>9, <1>10 DEF jittered

(* Whatever the jitter, a dial that fails again waits longer, until the cap *)
(* is reached, after any number of failures.                                *)
THEOREM EveryDelayGrows ==
  ASSUME NEW attempt \in Nat, NEW luck \in 0..(Parts - 1), NEW next \in 0..(Parts - 1)
  PROVE  grows(attempt, luck, next)
<1> DEFINE b == base(attempt, connectRetryMinMs, connectRetryMaxMs)
           c == base(attempt + 1, connectRetryMinMs, connectRetryMaxMs)
           this == nextBackoffDelayMs(attempt, connectRetryMinMs, connectRetryMaxMs, luck)
           then == nextBackoffDelayMs(attempt + 1, connectRetryMinMs, connectRetryMaxMs, next)
<1>1. /\ power[attempt] \in Nat /\ power[attempt] >= 1
      /\ power[attempt + 1] = 2 * power[attempt]
  BY PowersDouble
<1>2. /\ b = least(30000, 1000 * power[attempt])
      /\ c = least(30000, 1000 * power[attempt + 1])
  BY DEF base, connectRetryMinMs, connectRetryMaxMs
<1>3. /\ b \in Nat /\ b >= 1000 /\ b <= 30000
      /\ c \in Nat /\ (c < 30000 => c = 2 * b)
  BY <1>1, <1>2 DEF least
<1> HIDE DEF b, c
<1>4. /\ this \in Nat /\ 10 * this < 11 * b + 6 /\ 10 * this > 9 * b - 5
      /\ then \in Nat /\ 10 * then > 9 * c - 5
  <2>1. this = jittered(b, luck) /\ then = jittered(c, next)
    BY DEF nextBackoffDelayMs, jittered, b, c
  <2> QED BY <1>3, <2>1, Jitter
<1> HIDE DEF this, then
<1>5. 10 * this >= 9000 /\ 10 * this <= 330000
  BY <1>3, <1>4
<1>6. c < 30000 => this < then
  BY <1>3, <1>4
<1> QED BY <1>5, <1>6 DEF grows, this, then, c, connectRetryMinMs, connectRetryMaxMs

-----------------------------------------------------------------------------
(* Media                                                                    *)

(* A reference with any extension or content type, and any store.           *)
isRef(ref) ==
    /\ ref.class \in {"remote", "local", "data"}
    /\ ref.class = "data" => ref.comma \in BOOLEAN
isStore(oss) == oss.urlStyle \in {"virtual", "path"}

(* EXT_BY_MIME and the lists of extensions agree on the kind, entry by      *)
(* entry.                                                                   *)
LEMMA TableAgrees ==
  ASSUME NEW i \in DOMAIN ExtByMime
  PROVE  /\ mime(i)[1] \in {"image", "audio", "video"}
         /\ mediaKindFromContentType(mime(i)) = mime(i)[1]
         /\ detectMediaKind(ExtByMime[i][3]) = mime(i)[1]
<1>1. i \in {1, 2, 3, 4, 5, 6, 7, 8, 9, 10, 11, 12, 13}
  BY DEF ExtByMime
<1>2. /\ mime(i)[1] \in {"image", "audio", "video"}
      /\ mediaKindFromContentType(mime(i)) = mime(i)[1]
  BY <1>1 DEF mime, ExtByMime, mediaKindFromContentType
<1>3. detectMediaKind(ExtByMime[i][3]) = mime(i)[1]
  BY <1>1 DEF mime, ExtByMime, detectMediaKind, AudioExt, VideoExt
<1> QED BY <1>2, <1>3

LEMMA LastIn ==
  ASSUME NEW at \in SUBSET DOMAIN ExtByMime, at # {}
  PROVE  lastOf(at) \in at
<1>1. at \subseteq {1, 2, 3, 4, 5, 6, 7, 8, 9, 10, 11, 12, 13}
  BY DEF ExtByMime
<1>2. \E i \in at : \A j \in at : j <= i
  BY <1>1
<1> QED BY <1>2 DEF lastOf

(* A type that the table has leads to an extension of its kind, and the     *)
(* other way around.                                                        *)
LEMMA TypeToExt ==
  ASSUME NEW type, extFromContentType(type) # None
  PROVE  mediaKindFromContentType(type) = detectMediaKind(extFromContentType(type))
<1> DEFINE at == {i \in DOMAIN ExtByMime : mime(i) = type}
<1>1. at # {}
  BY DEF extFromContentType
<1>2. lastOf(at) \in at
  BY <1>1, LastIn
<1>3. extFromContentType(type) = ExtByMime[lastOf(at)][3]
  BY <1>1 DEF extFromContentType
<1> HIDE DEF at
<1>4. PICK i \in DOMAIN ExtByMime : i = lastOf(at) /\ mime(i) = type
  BY <1>2 DEF at
<1> QED BY <1>3, <1>4, TableAgrees

LEMMA ExtToType ==
  ASSUME NEW ext
  PROVE  \/ contentTypeFromExt(ext) = <<None, None>>
         \/ /\ contentTypeFromExt(ext)[1] \in {"image", "audio", "video"}
            /\ detectMediaKind(ext) = contentTypeFromExt(ext)[1]
<1> DEFINE at == {i \in DOMAIN ExtByMime : ExtByMime[i][3] = ext}
<1>1. CASE at = {}
  BY <1>1 DEF contentTypeFromExt
<1>2. CASE at # {}
  <2>1. lastOf(at) \in at
    BY <1>2, LastIn
  <2>2. contentTypeFromExt(ext) = mime(lastOf(at))
    BY <1>2 DEF contentTypeFromExt
  <2> HIDE DEF at
  <2>3. PICK i \in DOMAIN ExtByMime : i = lastOf(at) /\ ExtByMime[i][3] = ext
    BY <2>1 DEF at
  <2> QED BY <2>2, <2>3, TableAgrees
<1> QED BY <1>1, <1>2

(* Whatever the extension, the content type and the configuration.          *)
THEOREM EveryMediaIsPlayable ==
  ASSUME NEW ref, isRef(ref), NEW lacks, NEW oss, isStore(oss)
  PROVE  isPlayable(ref, lacks, oss)
<1> DEFINE out == resolveMediaRefToUrl(ref, hasOss(lacks))
<1>1. publicScheme(oss) = "bare" =>
          oss.publicBaseUrl = "bare" \/ (oss.endpoint = "bare" /\ oss.urlStyle = "path")
  <2>1. CASE oss.publicBaseUrl # None
    BY <2>1 DEF publicScheme
  <2>2. CASE oss.publicBaseUrl = None /\ oss.urlStyle = "virtual"
    BY <2>2 DEF publicScheme
  <2>3. CASE oss.publicBaseUrl = None /\ oss.urlStyle = "path"
    BY <2>3 DEF publicScheme
  <2> QED BY <2>1, <2>2, <2>3 DEF isStore
<1>2. CASE ref.class = "remote"
  <2>1. out.url = "ref"
    BY <1>2 DEF resolveMediaRefToUrl
  <2> QED BY <1>2, <2>1 DEF isPlayable
<1>3. CASE ref.class # "remote" /\ ~hasOss(lacks)
  <2>1. out.url = None
    BY <1>3 DEF resolveMediaRefToUrl, Nothing
  <2> QED BY <2>1 DEF isPlayable, None
<1>4. CASE ref.class = "data" /\ hasOss(lacks)
  <2>1. CASE ~ref.comma
    <3>1. out.url = None
      BY <1>4, <2>1 DEF resolveMediaRefToUrl, Nothing
    <3> QED BY <3>1 DEF isPlayable, None
  <2>2. CASE ref.comma
    <3>1. out = [url |-> "public",
                 stored |-> [type |-> ref.type, ext |-> extFromContentType(ref.type)],
                 kind |-> mediaKindFromContentType(ref.type)]
      BY <1>4, <2>2 DEF resolveMediaRefToUrl, upload
    <3>2. ref.type[1] \in {"image", "audio", "video"} =>
              mediaKindFromContentType(ref.type) = ref.type[1]
      BY DEF mediaKindFromContentType
    <3>3. /\ out.url = "public" /\ out.kind = mediaKindFromContentType(ref.type)
          /\ out.stored.type = ref.type /\ out.stored.ext = extFromContentType(ref.type)
      BY <3>1
    <3>4. out.stored.ext # None => out.kind = detectMediaKind(out.stored.ext)
      BY <3>3, TypeToExt
    <3> HIDE DEF out
    <3> QED BY <1>1, <1>4, <3>2, <3>3, <3>4 DEF isPlayable, out
  <2> QED BY <2>1, <2>2
<1>5. CASE ref.class = "local" /\ hasOss(lacks)
  <2>1. out = [url |-> "public",
               stored |-> [type |-> contentTypeFromExt(ref.ext), ext |-> ref.ext],
               kind |-> detectMediaKind(ref.ext)]
    BY <1>5 DEF resolveMediaRefToUrl, upload
  <2>2. contentTypeFromExt(ref.ext)[1] \in {"image", "audio", "video"} =>
            detectMediaKind(ref.ext) = contentTypeFromExt(ref.ext)[1]
    BY ExtToType DEF None
  <2>3. /\ out.url = "public" /\ out.kind = detectMediaKind(ref.ext)
        /\ out.stored.type = contentTypeFromExt(ref.ext) /\ out.stored.ext = ref.ext
    BY <2>1
  <2> HIDE DEF out
  <2> QED BY <1>1, <1>5, <2>2, <2>3 DEF isPlayable, out
<1> QED BY <1>2, <1>3, <1>4, <1>5 DEF isRef

-----------------------------------------------------------------------------
(* URLs                                                                     *)

(* A computation of the URLs of n candidates, one after the other.          *)
takesTo(out, given, n) ==
    out = [i \in 0..n |-> IF i = 0 THEN <<>> ELSE take(out[i - 1], given[i])]

LEMMA TakenAt ==
  ASSUME NEW given, NEW n \in Nat, NEW out, takesTo(out, given, n), NEW i \in 0..n
  PROVE  out[i] = IF i = 0 THEN <<>> ELSE take(out[i - 1], given[i])
BY DEF takesTo

LEMMA TakesTo ==
  ASSUME NEW given
  PROVE  \A n \in Nat : \E out : takesTo(out, given, n)
<1> DEFINE T == {n \in Nat : ~\E out : takesTo(out, given, n)}
<1>1. SUFFICES ASSUME T # {}
               PROVE  FALSE
  OBVIOUS
<1>2. PICK n \in T : \A m \in T : n <= m
  BY <1>1, LeastNumber
<1>3. n # 0
  <2>1. takesTo([i \in 0..0 |-> <<>>], given, 0)
    BY DEF takesTo
  <2> QED BY <1>2, <2>1
<1>4. PICK f : takesTo(f, given, n - 1)
  BY <1>2, <1>3
<1> DEFINE g == [i \in 0..n |-> IF i = n THEN take(f[n - 1], given[n]) ELSE f[i]]
<1>5. takesTo(g, given, n)
  <2>1. n \in Nat /\ n # 0
    BY <1>2, <1>3
  <2>2. \A i \in 0..(n - 1) : f[i] = IF i = 0 THEN <<>> ELSE take(f[i - 1], given[i])
    BY <1>4, <2>1, TakenAt
  <2>3. ASSUME NEW i \in 0..n
        PROVE  g[i] = IF i = 0 THEN <<>> ELSE take(g[i - 1], given[i])
    <3>1. CASE i = n
      <4>1. g[n] = take(f[n - 1], given[n]) /\ n - 1 \in 0..n /\ n - 1 # n
        BY <2>1
      <4>2. g[n - 1] = f[n - 1]
        BY <4>1
      <4> HIDE DEF g
      <4> QED BY <2>1, <3>1, <4>1, <4>2
    <3>2. CASE i # n
      <4>1. i \in 0..(n - 1) /\ (i # 0 => i - 1 \in 0..n /\ i - 1 # n)
        BY <2>1, <3>2
      <4>2. g[i] = f[i] /\ (i # 0 => g[i - 1] = f[i - 1])
        BY <3>2, <4>1
      <4> HIDE DEF g
      <4> QED BY <2>2, <4>1, <4>2
    <3> QED BY <3>1, <3>2
  <2> HIDE DEF g
  <2>4. g = [i \in 0..n |-> g[i]]
    BY DEF g
  <2> QED BY <2>3, <2>4 DEF takesTo
<1> QED BY <1>2, <1>5

(* The candidates up to the n-th.                                           *)
prefix(given, n) == [i \in 1..n |-> given[i]]

LEMMA UrlsNamed ==
  ASSUME NEW given
  PROVE  \A u : u \in urlsOf(given) <=> named(given, u) # {}
BY DEF urlsOf, named

(* One more candidate: a URL that was seen is kept where it was, a new one  *)
(* has not appeared before.                                                 *)
LEMMA TakenInOrder ==
  ASSUME NEW given, NEW n \in Nat, NEW S, NEW out \in Seq(S),
         onceInOrder(prefix(given, n), out)
  PROVE  LET next == take(out, given[n + 1]) IN
         /\ onceInOrder(prefix(given, n + 1), next)
         /\ next \in Seq(S \cup {trim(given[n + 1])})
<1> DEFINE before == prefix(given, n)
           after == prefix(given, n + 1)
           c == given[n + 1]
           next == take(out, c)
<1>1. /\ DOMAIN before = 1..n /\ \A i \in 1..n : before[i] = given[i]
      /\ DOMAIN after = 1..(n + 1) /\ \A i \in 1..(n + 1) : after[i] = given[i]
  BY DEF prefix
<1>2. /\ \A u : named(before, u) = {i \in 1..n : given[i] # "blank" /\ trim(given[i]) = u}
      /\ \A u : named(after, u) = {i \in 1..(n + 1) : given[i] # "blank" /\ trim(given[i]) = u}
  BY <1>1 DEF named
<1>3. \A u : u \in urlsOf(before) <=> named(before, u) # {}
  BY UrlsNamed
<1>4. \A u : u \in urlsOf(after) <=> named(after, u) # {}
  BY UrlsNamed
<1>5. \A u : named(before, u) = {i \in named(after, u) : i <= n}
  BY <1>2
<1>6. \A u : named(after, u) \ named(before, u) =
             IF c # "blank" /\ trim(c) = u THEN {n + 1} ELSE {}
  BY <1>2
<1> HIDE DEF before, after
<1>7. {out[i] : i \in DOMAIN out} = urlsOf(before)
  BY DEF onceInOrder, before
<1>8. \A i, j \in DOMAIN out : i < j =>
          \E first \in named(before, out[i]) : \A later \in named(before, out[j]) : first < later
  BY DEF onceInOrder, before
<1>9. \A u : named(after, u) \subseteq Nat
  BY <1>2
<1>10. \A u : named(before, u) \subseteq named(after, u)
  BY <1>5
(* An order that held is kept: what appears anew is last.                   *)
<1>11. \A u, v : (\E first \in named(before, u) : \A later \in named(before, v) : first < later)
               => \E first \in named(after, u) : \A later \in named(after, v) : first < later
  BY <1>2, <1>5, <1>6
<1>12. CASE c = "blank" \/ \E i \in DOMAIN out : out[i] = trim(c)
  <2>1. next = out
    BY <1>12 DEF take
  <2>2. \A u : named(after, u) # {} <=> named(before, u) # {}
    BY <1>12, <1>3, <1>6, <1>7, <1>10
  <2>3. urlsOf(after) = urlsOf(before)
    BY <1>3, <1>4, <2>2
  <2>4. onceInOrder(after, out)
    BY <1>7, <1>8, <1>11, <2>3 DEF onceInOrder
  <2> QED BY <2>1, <2>4 DEF after
<1>13. CASE c # "blank" /\ \A i \in DOMAIN out : out[i] # trim(c)
  <2>1. next = Append(out, trim(c))
    BY <1>13 DEF take
  <2>2. /\ next \in Seq(S \cup {trim(c)})
        /\ DOMAIN next = 1..(Len(out) + 1) /\ DOMAIN out = 1..Len(out)
        /\ \A i \in DOMAIN out : next[i] = out[i]
        /\ next[Len(out) + 1] = trim(c)
    <3>1. out \in Seq(S \cup {trim(c)}) /\ trim(c) \in S \cup {trim(c)}
      OBVIOUS
    <3> QED BY <2>1, <3>1
  <2>3. named(before, trim(c)) = {} /\ named(after, trim(c)) = {n + 1}
    BY <1>3, <1>5, <1>6, <1>7, <1>13
  <2>4. ASSUME NEW u, u # trim(c)
        PROVE  named(after, u) = named(before, u)
    <3>1. named(after, u) \ named(before, u) = {}
      BY <1>6, <2>4
    <3> QED BY <1>10, <3>1
  <2>5. urlsOf(after) = urlsOf(before) \cup {trim(c)}
    BY <1>3, <1>4, <2>3, <2>4
  <2>6. {next[i] : i \in DOMAIN next} = urlsOf(after)
    BY <1>7, <2>2, <2>5
  <2>7. ASSUME NEW i \in DOMAIN next, NEW j \in DOMAIN next, i < j
        PROVE  \E first \in named(after, next[i]) : \A later \in named(after, next[j]) : first < later
    <3>1. i \in DOMAIN out /\ next[i] = out[i]
      BY <2>2, <2>7
    <3>2. CASE j \in DOMAIN out
      BY <1>8, <1>11, <2>2, <2>7, <3>1, <3>2
    <3>3. CASE j = Len(out) + 1
      <4>1. PICK first : first \in named(before, out[i])
        BY <1>3, <1>7, <3>1
      <4>2. first \in named(after, next[i]) /\ first \in 1..n
        BY <1>2, <1>10, <3>1, <4>1
      <4> QED BY <2>2, <2>3, <3>3, <4>2
    <3> QED BY <2>2, <3>2, <3>3
  <2> QED BY <2>2, <2>6, <2>7 DEF onceInOrder, after
<1> QED BY <1>12, <1>13

(* The URLs of a reply with any candidates, and any number of them, go out  *)
(* once and in order.                                                       *)
THEOREM EveryUrlGoesOutOnce ==
  ASSUME NEW S, NEW mediaUrls \in Seq(S), NEW mediaUrl \in Seq(S)
  PROVE  onceInOrder(mediaUrls \o mediaUrl, resolveOutboundMediaUrls(mediaUrls, mediaUrl))
<1> DEFINE given == mediaUrls \o mediaUrl
           m == Len(given)
           U == {trim(given[i]) : i \in 1..m}
           f == CHOOSE out : takesTo(out, given, m)
<1>1. given \in Seq(S) /\ m \in Nat /\ given = prefix(given, m)
  <2>1. given \in Seq(S)
    OBVIOUS
  <2> HIDE DEF given
  <2>2. m \in Nat /\ given = [i \in 1..m |-> given[i]]
    BY <2>1
  <2> QED BY <2>1, <2>2 DEF prefix
<1>2. takesTo(f, given, m)
  BY <1>1, TakesTo
<1>3. resolveOutboundMediaUrls(mediaUrls, mediaUrl) = f[m]
  BY Zenon DEF resolveOutboundMediaUrls, takesTo
<1> HIDE DEF f, given, m
<1> DEFINE good(n) == f[n] \in Seq(U) /\ onceInOrder(prefix(given, n), f[n])
           T == {n \in 0..m : ~good(n)}
<1>4. good(0)
  <2>1. f[0] = <<>>
    <3>1. 0 \in 0..m
      BY <1>1
    <3> QED BY <1>1, <1>2, <3>1, TakenAt
  <2>2. DOMAIN prefix(given, 0) = {} /\ DOMAIN <<>> = {}
    BY DEF prefix
  <2>3. onceInOrder(prefix(given, 0), <<>>)
    BY <2>2 DEF onceInOrder, urlsOf
  <2> QED BY <2>1, <2>3
<1>5. ASSUME NEW n \in 0..m, n # m, good(n)
      PROVE  good(n + 1)
  <2>1. n \in Nat /\ n + 1 \in 1..m /\ n + 1 \in 0..m
    BY <1>1, <1>5
  <2>2. f[n + 1] = take(f[n], given[n + 1])
    <3>1. f[n + 1] = IF n + 1 = 0 THEN <<>> ELSE take(f[(n + 1) - 1], given[n + 1])
      BY <1>1, <1>2, <2>1, TakenAt
    <3>2. n + 1 # 0 /\ (n + 1) - 1 = n
      BY <2>1
    <3> QED BY <3>1, <3>2
  <2>3. U \cup {trim(given[n + 1])} = U
    BY <2>1
  <2> HIDE DEF U
  <2> QED BY <1>5, <2>1, <2>2, <2>3, TakenInOrder
<1> HIDE DEF good
<1>6. T = {}
  <2>1. SUFFICES ASSUME T # {}
                 PROVE  FALSE
    OBVIOUS
  <2>2. T \in SUBSET Nat
    OBVIOUS
  <2>3. PICK n \in T : \A k \in T : n <= k
    BY <2>1, <2>2, LeastNumber
  <2>4. n # 0 /\ n \in 0..m
    BY <1>4, <2>3
  <2>5. n - 1 \in 0..m /\ n - 1 \notin T /\ n - 1 # m /\ (n - 1) + 1 = n
    BY <1>1, <2>3, <2>4
  <2> QED BY <1>5, <2>3, <2>5
<1>7. good(m)
  BY <1>1, <1>6
<1> QED BY <1>1, <1>3, <1>7 DEF good, given

-----------------------------------------------------------------------------
(* Configurations                                                           *)

(* Whatever blocks are found, provided that no lease looks like none.       *)
THEOREM EveryConfigurationStarts ==
  ASSUME NEW channel, NEW entry,
         \A block \in {channel, entry} :
             isComplete(block) => resolvePluginConfig(block) # Absent
  PROVE  starts(channel, entry)
<1> DEFINE full == registerFull(channel, entry)
           account == startAccount(channel)
<1> SUFFICES ASSUME enabled(channel, entry)
             PROVE  /\ full # Absent
                    /\ account = Absent => ~isComplete(channel)
                    /\ /\ isComplete(channel) /\ isComplete(entry)
                       /\ channel.agentId = entry.agentId
                       /\ {channel.gatewayUrl, entry.gatewayUrl} \subseteq {"g", "g/"}
                       => full = account
  BY DEF starts
<1>1. isComplete(channel) \/ isComplete(entry)
  BY DEF enabled, configured
<1>2. full = IF isComplete(entry) THEN resolvePluginConfig(entry) ELSE resolvePluginConfig(channel)
  BY <1>1 DEF registerFull, resolveRuntimePluginConfig
<1>3. isComplete(channel) => account = resolvePluginConfig(channel)
  BY DEF startAccount, resolveRuntimePluginConfig, isComplete
<1> HIDE DEF full, account
<1>4. ASSUME isComplete(channel), isComplete(entry), channel.agentId = entry.agentId,
             {channel.gatewayUrl, entry.gatewayUrl} \subseteq {"g", "g/"}
      PROVE  resolvePluginConfig(entry) = resolvePluginConfig(channel)
  <2>1. stripped(channel.gatewayUrl) = "g" /\ stripped(entry.gatewayUrl) = "g"
    BY <1>4 DEF stripped
  <2> QED BY <1>4, <2>1 DEF resolvePluginConfig
<1> QED BY <1>1, <1>2, <1>3, <1>4

-----------------------------------------------------------------------------
(* What the rules are asked                                                 *)

(* One input of a known kind.                                               *)
Given ==
    \/ input = Start
    \/ \E f \in AnyFrame : input = [kind |-> "frame", of |-> f]
    \/ \E attempt \in Nat, luck, next \in 0..(Parts - 1) :
          input = [kind |-> "backoff",
                   of |-> [attempt |-> attempt, luck |-> luck, next |-> next]]
    \/ \E interval, ttl \in Nat :
          input = [kind |-> "ttl", of |-> [configured |-> interval, ttl |-> ttl]]
    \/ \E ref, lacks, oss :
          /\ isRef(ref) /\ isStore(oss)
          /\ input = [kind |-> "media", of |-> [ref |-> ref, lacks |-> lacks, oss |-> oss]]
    \/ \E mediaUrls, mediaUrl \in Seq(Candidates) :
          input = [kind |-> "urls", of |-> [mediaUrls |-> mediaUrls, mediaUrl |-> mediaUrl]]
    \/ \E channel, entry \in Blocks :
          input = [kind |-> "config", of |-> [channel |-> channel, entry |-> entry]]

LEMMA GivenStep ==
  ASSUME Given, [Next]_input
  PROVE  Given'
<1>1. CASE Frame
  <2>1. PICK type \in Types, payload \in {"none", "other", "empty", "complete"},
             sequence \in {"none", "positive", "invalid"},
             lacks \in Lacking :
          give("frame", [type |-> type, lacks |-> lacks, payload |-> payload,
                         sequence |-> sequence])
    BY <1>1 DEF Frame
  <2>2. lacks \subseteq Fields
    BY DEF Lacking
  <2>3. [type |-> type, lacks |-> lacks, payload |-> payload, sequence |-> sequence] \in AnyFrame
    BY <2>2 DEF AnyFrame
  <2> QED BY <2>1, <2>3 DEF give, Given
<1>2. CASE Backoff
  <2>1. 0..MaxAttempt \subseteq Nat
    OBVIOUS
  <2> QED BY <1>2, <2>1 DEF Backoff, give, Given
<1>3. CASE Interval
  <2>1. 0..MaxSeconds \subseteq Nat
    OBVIOUS
  <2> QED BY <1>3, <2>1 DEF Interval, give, Given
<1>4. CASE Media
  <2>1. PICK lacks \in SUBSET OssRequired, public \in {None, "http", "bare"},
             urlStyle \in {"virtual", "path"}, endpoint \in {"http", "bare"} :
          \E ref \in [class : {"remote", "local"},
                      ext : AudioExt \cup VideoExt \cup {"png", "jpg", "jpeg", "svg", "pdf", ""}]
                     \cup [class : {"data"}, type : ContentTypes, comma : BOOLEAN] :
             give("media", [ref |-> ref, lacks |-> lacks,
                            oss |-> [publicBaseUrl |-> public, urlStyle |-> urlStyle,
                                     endpoint |-> endpoint]])
    BY <1>4 DEF Media
  <2>2. PICK ref : isRef(ref) /\
          give("media", [ref |-> ref, lacks |-> lacks,
                         oss |-> [publicBaseUrl |-> public, urlStyle |-> urlStyle,
                                  endpoint |-> endpoint]])
    BY <2>1 DEF isRef
  <2>3. isStore([publicBaseUrl |-> public, urlStyle |-> urlStyle, endpoint |-> endpoint])
    BY DEF isStore
  <2> QED BY <2>2, <2>3 DEF give, Given
<1>5. CASE Urls
  <2>1. PICK mediaUrls \in UNION {[1..n -> Candidates] : n \in 0..3},
             mediaUrl \in {<<>>} \cup {<<c>> : c \in Candidates} :
          give("urls", [mediaUrls |-> mediaUrls, mediaUrl |-> mediaUrl])
    BY <1>5 DEF Urls
  <2>2. mediaUrls \in Seq(Candidates)
    <3>1. PICK n \in 0..3 : mediaUrls \in [1..n -> Candidates]
      OBVIOUS
    <3> HIDE DEF Candidates
    <3> QED BY <3>1
  <2>3. mediaUrl \in Seq(Candidates)
    <3>1. ASSUME NEW c \in Candidates
          PROVE  <<c>> \in Seq(Candidates)
      BY <3>1
    <3>2. <<>> \in Seq(Candidates)
      OBVIOUS
    <3>3. mediaUrl = <<>> \/ \E c \in Candidates : mediaUrl = <<c>>
      BY <2>1
    <3> QED BY <3>1, <3>2, <3>3
  <2> QED BY <2>1, <2>2, <2>3 DEF give, Given
<1>6. CASE Configure
  BY <1>6 DEF Configure, give, Given
<1>7. CASE UNCHANGED input
  BY <1>7 DEF Given
<1> QED BY <1>1, <1>2, <1>3, <1>4, <1>5, <1>6, <1>7 DEF Next

LEMMA InputsGiven == Spec => []Given
<1>1. Init => Given
  BY DEF Init, Given
<1>2. Given /\ [Next]_input => Given'
  BY GivenStep
<1> QED BY <1>1, <1>2, PTL DEF Spec

(* The frames of a run are served: see EveryFrameIsServed.                  *)
THEOREM FramesServed == Spec => []FramesAreServed
<1>1. Given => FramesAreServed
  BY EveryFrameIsServed DEF Given, FramesAreServed, isOf, Start
<1> QED BY <1>1, InputsGiven, PTL

(* Sessions are kept for any bound on ttl and interval.                     *)
THEOREM SessionsKept == Spec => []SessionIsKept
<1>1. Given => SessionIsKept
  BY EverySessionIsKept DEF Given, SessionIsKept, isOf, Start
<1> QED BY <1>1, InputsGiven, PTL

(* Delays grow for any bound on the failed dials.                           *)
THEOREM DelaysGrow == Spec => []BackoffGrows
<1>1. Given => BackoffGrows
  BY EveryDelayGrows DEF Given, BackoffGrows, isOf, Start
<1> QED BY <1>1, InputsGiven, PTL

(* The media of a run are playable: see EveryMediaIsPlayable.               *)
THEOREM MediaPlayable == Spec => []MediaIsPlayable
<1>1. Given => MediaIsPlayable
  BY EveryMediaIsPlayable DEF Given, MediaIsPlayable, isOf, Start
<1> QED BY <1>1, InputsGiven, PTL

(* The URLs of a run go out once: see EveryUrlGoesOutOnce.                  *)
THEOREM UrlsInOrder == Spec => []UrlsOnceInOrder
<1>1. Given => UrlsOnceInOrder
  BY EveryUrlGoesOutOnce DEF Given, UrlsOnceInOrder, isOf, Start
<1> QED BY <1>1, InputsGiven, PTL

(* The configurations of a run start: see EveryConfigurationStarts.         *)
THEOREM ConfiguredStart == Spec => []ConfiguredStarts
<1>1. ASSUME NEW block \in Blocks, isComplete(block)
      PROVE  resolvePluginConfig(block) # Absent
  <2>1. block.gatewayUrl \in {"g", "g/", "h"} /\ block.agentId \in {"x", "y"}
    BY <1>1 DEF Blocks, isComplete
  <2>2. stripped(block.gatewayUrl) \in {"g", "h"}
    BY <2>1 DEF stripped
  <2>3. resolvePluginConfig(block) \in Leases
    BY <1>1, <2>1, <2>2 DEF resolvePluginConfig, Leases
  <2> QED BY <2>3, AbsentAssumption
<1>2. ASSUME NEW channel \in Blocks, NEW entry \in Blocks
      PROVE  starts(channel, entry)
  BY <1>1, EveryConfigurationStarts
<1>3. Given => ConfiguredStarts
  BY <1>2 DEF Given, ConfiguredStarts, isOf, Start
<1> QED BY <1>3, InputsGiven, PTL
=============================================================================
