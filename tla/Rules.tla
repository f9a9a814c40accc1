------------------------------- MODULE Rules --------------------------------
(***************************************************************************)
(* The pure functions of the connector, one input at a time: frames,        *)
(* delays, media references and configurations, with what has to hold of    *)
(* every result.                                                            *)
(***************************************************************************)
EXTENDS Frames, Timing, OutboundMedia, Configuration

CONSTANTS
    MaxAttempt,  \* bound: dials that failed in a row
    MaxSeconds   \* bound: ttl and configured interval

(* A lease is not mistaken for none.                                        *)
Leases == [gatewayBaseUrl : {"g", "h"}, agentId : {"x", "y"}]
ASSUME AbsentAssumption == Absent \notin Leases

VARIABLE input   \* [kind, of]: the function and its argument

Start == [kind |-> "none"]
Init == input = Start

give(kind, of) == input' = [kind |-> kind, of |-> of]

-----------------------------------------------------------------------------
(* A frame lacks nothing, one or two fields, or all of them.                *)
Lacking == {{f, g} : f, g \in Fields} \cup {{}, Fields}
Frame ==
    /\ input = Start
    /\ \E type \in Types, payload \in {"none", "other", "empty", "complete"},
          sequence \in {"none", "positive", "invalid"},
          lacks \in Lacking :
          give("frame", [type |-> type, lacks |-> lacks, payload |-> payload,
                         sequence |-> sequence])

Backoff ==
    /\ input = Start
    /\ \E attempt \in 0..MaxAttempt, luck, next \in 0..(Parts - 1) :
          give("backoff", [attempt |-> attempt, luck |-> luck, next |-> next])

Interval ==
    /\ input = Start
    /\ \E interval, ttl \in 0..MaxSeconds :
          give("ttl", [configured |-> interval, ttl |-> ttl])

ContentTypes ==
    {mime(i) : i \in DOMAIN ExtByMime}
        \cup {<<"image", "svg+xml">>, <<"audio", "flac">>, <<"application", "octet-stream">>}
Media ==
    /\ input = Start
    /\ \E lacks \in SUBSET OssRequired, public \in {None, "http", "bare"},
          urlStyle \in {"virtual", "path"}, endpoint \in {"http", "bare"} :
       \E ref \in [class : {"remote", "local"},
                   ext : AudioExt \cup VideoExt \cup {"png", "jpg", "jpeg", "svg", "pdf", ""}]
                  \cup [class : {"data"}, type : ContentTypes, comma : BOOLEAN] :
          give("media", [ref |-> ref, lacks |-> lacks,
                         oss |-> [publicBaseUrl |-> public, urlStyle |-> urlStyle,
                                  endpoint |-> endpoint]])

Candidates == {"a", " a ", "b", "blank"}
Urls ==
    /\ input = Start
    /\ \E mediaUrls \in UNION {[1..n -> Candidates] : n \in 0..3},
          mediaUrl \in {<<>>} \cup {<<c>> : c \in Candidates} :
          give("urls", [mediaUrls |-> mediaUrls, mediaUrl |-> mediaUrl])

Blocks == {Absent} \cup [gatewayUrl : {"g", "g/", "h", Absent}, agentId : {"x", "y", Absent},
                         agentSk : {"sk", Absent}, enabled : BOOLEAN]
Configure ==
    /\ input = Start
    /\ \E channel, entry \in Blocks : give("config", [channel |-> channel, entry |-> entry])

Next == Frame \/ Backoff \/ Interval \/ Media \/ Urls \/ Configure

Spec == Init /\ [][Next]_input

-----------------------------------------------------------------------------
(* Properties                                                               *)

isOf(kind) == input.kind = kind

(* A request that is handled has in it all that its events and its ack need *)
(* to be valid themselves, and so has an acceptance for the heartbeats that *)
(* follow it.  No envelope is passed over in silence but two: an ack for    *)
(* nothing, and an acceptance that is not valid (its connection_id, its     *)
(* agent_id or its interval is missing), which leaves the dial pending.     *)
(* The listener throws only on a rejection without a payload.               *)
isServed(f) ==
    LET fate == received(f) IN
    /\ fate = "handled" /\ f.type = "request" =>
          valid(eventFor(f), "event") /\ valid(ackFor(f), "ack")
    /\ fate = "accepted" => valid(heartbeatOf(f), "heartbeat")
    /\ isEnvelope(f) /\ fate = "ignored" => f.type \in {"ack", "accepted"} /\ ~valid(f, f.type)
    /\ fate = "throws" => f.type = "rejected" /\ f.payload = "none"
FramesAreServed == isOf("frame") => isServed(input.of)

(* Whatever the jitter, drawn in steps of 1/Parts, a dial that fails again  *)
(* is followed by a longer delay until the cap is reached, and no delay     *)
(* leaves 10% around the configured limits (connectRetryMinMs and           *)
(* connectRetryMaxMs).                                                      *)
grows(attempt, luck, next) ==
    LET min == connectRetryMinMs  max == connectRetryMaxMs
        this == nextBackoffDelayMs(attempt, min, max, luck)
    IN  /\ 10 * this >= 9 * min /\ 10 * this <= 11 * max
        /\ base(attempt + 1, min, max) < max =>
              this < nextBackoffDelayMs(attempt + 1, min, max, next)
BackoffGrows == isOf("backoff") => grows(input.of.attempt, input.of.luck, input.of.next)

(* Two heartbeats fit into a ttl of at least two seconds.                   *)
SessionIsKept == isOf("ttl") => heartbeatsKeep(input.of.configured, input.of.ttl)

(* The kind told to the gateway is that of the stored object, both by its   *)
(* content type and by the extension of its URL, where it has them; bytes   *)
(* never go out; and the URL can be fetched unless the base of the store is *)
(* configured without a scheme.                                             *)
isPlayable(ref, lacks, oss) ==
    LET out == resolveMediaRefToUrl(ref, hasOss(lacks))
    IN  /\ out.url = "ref" => ref.class = "remote"
        /\ out.url = "public" =>
              /\ hasOss(lacks)
              /\ out.stored.type[1] \in {"image", "audio", "video"} =>
                    out.kind = out.stored.type[1]
              /\ out.stored.ext # None => out.kind = detectMediaKind(out.stored.ext)
              /\ publicScheme(oss) = "bare" =>
                    \/ oss.publicBaseUrl = "bare"
                    \/ oss.endpoint = "bare" /\ oss.urlStyle = "path"
MediaIsPlayable == isOf("media") => isPlayable(input.of.ref, input.of.lacks, input.of.oss)

(* Every URL of a reply goes out once, in the order in which they first     *)
(* appear, those of mediaUrls before mediaUrl.                              *)
named(given, u) == {i \in DOMAIN given : given[i] # "blank" /\ trim(given[i]) = u}
urlsOf(given) == {trim(given[i]) : i \in {i \in DOMAIN given : given[i] # "blank"}}
onceInOrder(given, out) ==
    /\ {out[i] : i \in DOMAIN out} = urlsOf(given)
    /\ \A i, j \in DOMAIN out : i < j =>
          \E first \in named(given, out[i]) :
              \A later \in named(given, out[j]) : first < later
UrlsOnceInOrder ==
    isOf("urls") =>
        onceInOrder(input.of.mediaUrls \o input.of.mediaUrl,
                    resolveOutboundMediaUrls(input.of.mediaUrls, input.of.mediaUrl))

(* An account that is shown as configured can be started from registerFull, *)
(* and from startAccount unless only plugins.entries holds the              *)
(* configuration; when both start the same agent at the same gateway, with  *)
(* or without a trailing slash, they compete for one lease.                 *)
starts(channel, entry) ==
    LET full == registerFull(channel, entry)  account == startAccount(channel)
    IN  enabled(channel, entry) =>
          /\ full # Absent
          /\ account = Absent => ~isComplete(channel)
          /\ /\ isComplete(channel) /\ isComplete(entry)
             /\ channel.agentId = entry.agentId
             /\ {channel.gatewayUrl, entry.gatewayUrl} \subseteq {"g", "g/"}
             => full = account
ConfiguredStarts == isOf("config") => starts(input.of.channel, input.of.entry)
=============================================================================
