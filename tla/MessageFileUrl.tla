--------------------------- MODULE MessageFileUrl ---------------------------
(***************************************************************************)
(* MessageCycleManager.message_file_to_stream_response                     *)
(* (message_cycle_manager.py, lines 137-172): the URL of a message file,   *)
(* kept when it is an http(s) URL and otherwise replaced by a signed URL   *)
(* built from the tool file id and extension parsed out of it.             *)
(*                                                                         *)
(* A URL is a sequence of characters over a small alphabet; "H" stands for *)
(* the four characters "http" (the model only asks whether a URL starts    *)
(* with them).                                                             *)
(***************************************************************************)
EXTENDS Naturals, Sequences

CONSTANTS
    MaxUrlLen,   \* longest URL enumerated
    MaxExtLen,   \* the "len(extension) > 10" limit
    None         \* Python None

ASSUME MessageFileUrlAssumption == MaxUrlLen \in Nat /\ MaxExtLen \in Nat

UrlChars == {"H", "/", ".", "a"}
Urls == UNION {[1..n -> UrlChars] : n \in 0..MaxUrlLen}
Bin == <<".", "b", "i", "n">>
Owners == {"user", "assistant", None}

\* The indices of s that hold the character c.
Positions(s, c) == {k \in 1..Len(s) : s[k] = c}

\* `c in s`.
Has(s, c) == Positions(s, c) # {}

\* The index of the last c in s, 0 when there is none.
LastAt(s, c) ==
    IF Has(s, c)
      THEN CHOOSE k \in Positions(s, c) : \A j \in Positions(s, c) : j <= k
      ELSE 0

\* The index of the first c in s (when there is one).
FirstAt(s, c) ==
    CHOOSE k \in Positions(s, c) : \A j \in Positions(s, c) : k <= j

\* The part after the last c (all of s without one): s.split(c)[-1].
LastPiece(s, c) == SubSeq(s, LastAt(s, c) + 1, Len(s))

\* The part before the first c (all of s without one): s.split(c)[0].
FirstPiece(s, c) ==
    IF Has(s, c) THEN SubSeq(s, 1, FirstAt(s, c) - 1) ELSE s

\* Mutant: the "trim extension" step left out.
ToolFileIdUntrimmed(u) == LastPiece(u, "/")

\* tool_file_id = url.split("/")[-1].split(".")[0]
ToolFileId(u) == FirstPiece(LastPiece(u, "/"), ".")

\* f".{url.split('.')[-1]}" when "." is anywhere in the URL, ".bin" when it
\* is longer than the limit or when there is no ".".
Extension(u) ==
    IF Has(u, ".")
      THEN LET e == <<".">> \o LastPiece(u, ".")
           IN IF Len(e) > MaxExtLen THEN Bin ELSE e
      ELSE Bin

StartsWithHttp(u) == Len(u) > 0 /\ u[1] = "H"

\* The URL of the response: the message file's own, or
\* sign_tool_file(tool_file_id=, extension=).
ResponseUrl(u) ==
    IF StartsWithHttp(u)
      THEN [signed |-> FALSE, url |-> u, id |-> <<>>, ext |-> <<>>]
      ELSE [signed |-> TRUE, url |-> u, id |-> ToolFileId(u), ext |-> Extension(u)]

\* The whole method: None unless the file exists and has a URL.
MessageFileToStreamResponse(mf) ==
    IF mf # None /\ mf.url # None
      THEN [found |-> TRUE, url |-> ResponseUrl(mf.url),
            belongs_to |-> IF mf.belongs_to # None THEN mf.belongs_to ELSE "user"]
      ELSE [found |-> FALSE]

VARIABLES
    file,      \* the MessageFile the event names: None or [url, belongs_to]
    response   \* the last response built for it

vars == <<file, response>>

Files == {None} \cup [url : Urls \cup {None}, belongs_to : Owners]

Init ==
    /\ file \in Files
    /\ response = [found |-> FALSE]

\* A QueueMessageFileEvent for the file is turned into a stream response.
Respond ==
    /\ response' = MessageFileToStreamResponse(file)
    /\ UNCHANGED file

Next == Respond

Spec == Init /\ [][Next]_vars

-----------------------------------------------------------------------------
\* What the comments of the method name: the file name is the last path
\* segment, and "the extension" is the file name's.
FileName(u) == LastPiece(u, "/")
FileExtension(u) ==
    IF Has(FileName(u), ".")
      THEN LET e == <<".">> \o LastPiece(FileName(u), ".")
           IN IF Len(e) > MaxExtLen THEN Bin ELSE e
      ELSE Bin
OneDot(u) == \E k \in 1..Len(u) : Positions(u, ".") = {k}

\* For a local file named stem.ext (one dot, in the file name, and an
\* extension within the limit), the signed URL names the same file: the
\* tool file id and extension put together give back the file name.
SignedUrlNamesTheFile ==
    LET u == response.url.url
    IN response.found /\ response.url.signed
       /\ OneDot(u) /\ Has(FileName(u), ".")
       /\ Len(<<".">> \o LastPiece(u, ".")) <= MaxExtLen
       => response.url.id \o response.url.ext = FileName(u)

\* The comment "# get extension": the extension signed with a local file is
\* its file name's extension, or ".bin".
ExtensionIsFileExtension ==
    response.found /\ response.url.signed
      => response.url.ext = FileExtension(response.url.url)
=============================================================================
