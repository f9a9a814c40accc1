--------------------------- MODULE OutboundMedia ----------------------------
(***************************************************************************)
(* outbound-media.ts, outbound-reply-payload.ts, object-uploader.ts and     *)
(* s3-uploader.ts: the media references of a reply, and how each becomes a  *)
(* URL and a kind.                                                          *)
(*                                                                         *)
(* A reference is a URL or path with an extension, or a data: URL with a    *)
(* content type <<type, subtype>> and maybe without its comma.              *)
(***************************************************************************)
EXTENDS Naturals, Sequences

None == "none"

(* EXT_BY_MIME, in the order of its entries.                                *)
ExtByMime ==
    << <<"image", "png", "png">>, <<"image", "jpeg", "jpg">>, <<"image", "gif", "gif">>,
       <<"image", "webp", "webp">>, <<"audio", "mpeg", "mp3">>, <<"audio", "mp3", "mp3">>,
       <<"audio", "wav", "wav">>, <<"audio", "x-wav", "wav">>, <<"audio", "aac", "aac">>,
       <<"audio", "ogg", "ogg">>, <<"video", "mp4", "mp4">>, <<"video", "webm", "webm">>,
       <<"video", "quicktime", "mov">> >>
mime(i) == <<ExtByMime[i][1], ExtByMime[i][2]>>
lastOf(at) == CHOOSE i \in at : \A j \in at : j <= i

AudioExt == {"mp3", "wav", "m4a", "aac", "ogg", "oga", "flac", "opus"}
VideoExt == {"mp4", "mov", "webm", "mkv", "avi", "m4v"}

(* Fault: only audio is told apart.                                         *)
detectMediaKind_NoVideo(ext) == IF ext \in AudioExt THEN "audio" ELSE "image"

detectMediaKind(ext) ==
    CASE ext \in AudioExt -> "audio" [] ext \in VideoExt -> "video" [] OTHER -> "image"

mediaKindFromContentType(type) ==
    IF type[1] \in {"audio", "video"} THEN type[1] ELSE "image"

extFromContentType(type) ==
    LET at == {i \in DOMAIN ExtByMime : mime(i) = type}
    IN  IF at = {} THEN None ELSE ExtByMime[lastOf(at)][3]

(* MIME_BY_EXT is made from the entries above: the last one of an extension *)
(* wins.                                                                    *)
contentTypeFromExt(ext) ==
    LET at == {i \in DOMAIN ExtByMime : ExtByMime[i][3] = ext}
    IN  IF at = {} THEN <<None, None>> ELSE mime(lastOf(at))

-----------------------------------------------------------------------------
Nothing == [url |-> None, stored |-> None, kind |-> None]
upload(type, ext, kind) ==
    [url |-> "public", stored |-> [type |-> type, ext |-> ext], kind |-> kind]

(* readOssConfig: without all of these there is no uploader.                *)
OssRequired == {"endpoint", "bucket", "accessKeyId", "secretAccessKey"}
hasOss(lacks) == lacks \cap OssRequired = {}

resolveMediaRefToUrl(ref, hasUploader) ==
    CASE ref.class = "remote" ->
           [url |-> "ref", stored |-> None, kind |-> detectMediaKind(ref.ext)]
      [] ref.class # "remote" /\ ~hasUploader -> Nothing
      [] ref.class = "data" /\ hasUploader ->
           IF ~ref.comma THEN Nothing
           ELSE upload(ref.type, extFromContentType(ref.type), mediaKindFromContentType(ref.type))
      [] ref.class = "local" /\ hasUploader ->
           upload(contentTypeFromExt(ref.ext), ref.ext, detectMediaKind(ref.ext))

(* publicUrlFor: the scheme of the URL under which an object can be read.   *)
publicScheme(config) ==
    CASE config.publicBaseUrl # None -> config.publicBaseUrl
      [] config.publicBaseUrl = None /\ config.urlStyle = "virtual" ->
           IF config.endpoint = "bare" THEN "http" ELSE config.endpoint
      [] OTHER -> config.endpoint

-----------------------------------------------------------------------------
(* Entries of mediaUrls: a string of blanks or no string at all is "blank", *)
(* and one string may differ from another by the blanks around it.          *)
trim(candidate) == CASE candidate = " a " -> "a" [] OTHER -> candidate

(* Fault: compared before they are trimmed.                                 *)
take_Untrimmed(out, candidate) ==
    IF candidate = "blank" \/ \E i \in DOMAIN out : out[i] = candidate
    THEN out ELSE Append(out, trim(candidate))

take(out, candidate) ==
    IF candidate = "blank" \/ \E i \in DOMAIN out : out[i] = trim(candidate)
    THEN out ELSE Append(out, trim(candidate))

(* The candidates in turn, and what is there to return after each.          *)
resolveOutboundMediaUrls(mediaUrls, mediaUrl) ==
    LET candidates == mediaUrls \o mediaUrl
        out[n \in 0..Len(candidates)] ==
            IF n = 0 THEN <<>> ELSE take(out[n - 1], candidates[n])
    IN  out[Len(candidates)]
=============================================================================
