------------------------ MODULE MessageFileUrlProofs ------------------------
(***************************************************************************)
(* SignedUrlNamesTheFile for every URL length and extension limit: the     *)
(* tool file id and the extension parsed out of a local file's URL put     *)
(* back together give its file name.                                       *)
(*                                                                         *)
(* The last '/' of a URL exists by the well-foundedness of < on Nat        *)
(* (WFMin), which stands in for an induction on the URL.                   *)
(***************************************************************************)
EXTENDS MessageFileUrl, WellFoundedInduction, TLAPS

-----------------------------------------------------------------------------
(***************************************************************************)
(* The positions of a character.                                           *)
(***************************************************************************)

\* A character that occurs in a sequence has a last occurrence.
LEMMA LastAtIsLast ==
    ASSUME NEW S, NEW s \in Seq(S), NEW c, Has(s, c)
    PROVE  /\ LastAt(s, c) \in Positions(s, c)
           /\ \A j \in Positions(s, c) : j <= LastAt(s, c)
  <1> DEFINE P == Positions(s, c)
             T == {Len(s) - k : k \in P}
  <1>1. T \subseteq Nat /\ T # {}
    BY DEF Has, Positions
  <1>2. PICK x \in T : \A y \in T : ~(<<y, x>> \in OpToRel(<, Nat))
    BY <1>1, NatLessThanWellFounded, WFMin
  <1>3. PICK k \in P : x = Len(s) - k
    BY <1>2
  <1>4. \A j \in P : j <= k
    <2> SUFFICES ASSUME NEW j \in P PROVE j <= k
      OBVIOUS
    <2>1. Len(s) - j \in T /\ ~(<<Len(s) - j, x>> \in OpToRel(<, Nat))
      BY <1>2
    <2> QED
      BY <1>1, <1>3, <2>1 DEF OpToRel, Positions
  <1> QED
    BY <1>3, <1>4 DEF LastAt

\* A character that occurs once is its own first and last occurrence.
LEMMA SingleAt ==
    ASSUME NEW s, NEW c, NEW d, Positions(s, c) = {d}
    PROVE  Has(s, c) /\ LastAt(s, c) = d /\ FirstAt(s, c) = d
  BY DEF Has, LastAt, FirstAt

\* Two sequences of one length that agree at every index are equal.
LEMMA SeqExtEq ==
    ASSUME NEW S, NEW x \in Seq(S), NEW y \in Seq(S), Len(x) = Len(y),
           \A i \in 1..Len(x) : x[i] = y[i]
    PROVE  x = y
  OBVIOUS

\* The pieces either side of one character, and the character, put back
\* together give the whole.
LEMMA JoinAtChar ==
    ASSUME NEW S, NEW s \in Seq(S), NEW a \in 0..Len(s),
           NEW d \in (a + 1)..Len(s), NEW c, s[d] = c
    PROVE  SubSeq(s, a + 1, d - 1) \o (<<c>> \o SubSeq(s, d + 1, Len(s)))
             = SubSeq(s, a + 1, Len(s))
  <1> DEFINE A == SubSeq(s, a + 1, d - 1)
             B == <<c>> \o SubSeq(s, d + 1, Len(s))
             W == SubSeq(s, a + 1, Len(s))
  <1>0. A \in Seq(S) /\ B \in Seq(S) /\ W \in Seq(S)
    BY DEF A, B, W
  <1>1. Len(A) = d - 1 - a /\ Len(B) = Len(s) - d + 1 /\ Len(W) = Len(s) - a
    BY DEF A, B, W
  <1>2. /\ \A i \in 1..Len(A) : A[i] = s[a + i]
        /\ \A i \in 1..Len(W) : W[i] = s[a + i]
        /\ B[1] = c
        /\ \A i \in 2..Len(B) : B[i] = s[d + i - 1]
    BY <1>1 DEF A, B, W
  <1> HIDE DEF A, B, W
  <1>3. \A i \in 1..Len(W) : (A \o B)[i] = W[i]
    <2> SUFFICES ASSUME NEW i \in 1..Len(W) PROVE (A \o B)[i] = W[i]
      OBVIOUS
    <2>1. CASE i <= Len(A)
      <3>1. (A \o B)[i] = A[i]
        BY <1>0, <1>1, <2>1
      <3> QED
        BY <3>1, <1>1, <1>2, <2>1
    <2>2. CASE i = Len(A) + 1
      <3>1. (A \o B)[i] = B[1]
        BY <1>0, <1>1, <2>2
      <3> QED
        BY <3>1, <1>1, <1>2, <2>2
    <2>3. CASE i > Len(A) + 1
      <3>1. (A \o B)[i] = B[i - Len(A)]
        BY <1>0, <1>1, <2>3
      <3> QED
        BY <3>1, <1>1, <1>2, <2>3
    <2> QED
      BY <1>1, <2>1, <2>2, <2>3
  <1>4. A \o B \in Seq(S) /\ Len(A \o B) = Len(W)
    <2>1. A \o B \in Seq(S)
      BY <1>0
    <2>2. Len(A \o B) = Len(A) + Len(B)
      BY <1>0
    <2> QED
      BY <2>1, <2>2, <1>1
  <1>5. A \o B = W
    BY <1>0, <1>3, <1>4, SeqExtEq
  <1> QED
    BY <1>5 DEF A, B, W

-----------------------------------------------------------------------------
(***************************************************************************)
(* The URL round trip.                                                     *)
(***************************************************************************)

\* For a URL with one '.', in its file name, and an extension within the
\* limit, ToolFileId and Extension split the file name at its '.'.
LEMMA RoundTrip ==
    ASSUME NEW u \in Seq(UrlChars), OneDot(u), Has(FileName(u), "."),
           Len(<<".">> \o LastPiece(u, ".")) <= MaxExtLen
    PROVE  ToolFileId(u) \o Extension(u) = FileName(u)
  <1> DEFINE n == Len(u)
             L == LastAt(u, "/")
             F == SubSeq(u, L + 1, n)
  <1>1. PICK d \in 1..n : Positions(u, ".") = {d}
    BY DEF OneDot
  <1>2. L \in 0..n
    <2>1. CASE Has(u, "/")
      BY <2>1, LastAtIsLast DEF Positions
    <2>2. CASE ~Has(u, "/")
      BY <2>2 DEF LastAt
    <2> QED
      BY <2>1, <2>2
  <1>3. /\ FileName(u) = F
        /\ F \in Seq(UrlChars)
        /\ Len(F) = n - L
        /\ \A i \in 1..(n - L) : F[i] = u[L + i]
    BY <1>2 DEF FileName, LastPiece
  <1>4. SubSeq(F, 1, d - L - 1) = SubSeq(u, L + 1, d - 1)
    BY <1>1, <1>2
  <1> HIDE DEF L, F
  <1>5. \A i \in 1..(n - L) : F[i] = "." <=> L + i = d
    BY <1>1, <1>2, <1>3 DEF Positions
  <1>6. d > L
    <2>1. PICK i \in 1..(n - L) : F[i] = "."
      BY <1>3 DEF Has, Positions
    <2> QED
      BY <1>1, <1>2, <1>5, <2>1
  <1>7. Positions(F, ".") = {d - L}
    BY <1>1, <1>2, <1>3, <1>5, <1>6 DEF Positions
  <1>8. ToolFileId(u) = SubSeq(u, L + 1, d - 1)
    <2>1. FirstPiece(F, ".") = SubSeq(F, 1, d - L - 1)
      BY <1>7, SingleAt DEF FirstPiece
    <2> QED
      BY <1>3, <1>4, <2>1 DEF ToolFileId, FileName
  <1>9. Extension(u) = <<".">> \o SubSeq(u, d + 1, n)
    <2>1. Has(u, ".") /\ LastAt(u, ".") = d
      BY <1>1, SingleAt
    <2>2. LastPiece(u, ".") = SubSeq(u, d + 1, n)
      BY <2>1 DEF LastPiece
    <2>3. ~(Len(<<".">> \o LastPiece(u, ".")) > MaxExtLen)
      BY MessageFileUrlAssumption
    <2>4. Extension(u) = <<".">> \o LastPiece(u, ".")
      BY <2>1, <2>3, Zenon DEF Extension
    <2> QED
      BY <2>2, <2>4
  <1>10. u[d] = "."
    BY <1>1 DEF Positions
  <1>11. SubSeq(u, L + 1, d - 1) \o (<<".">> \o SubSeq(u, d + 1, n)) = F
    <2>1. L \in 0..Len(u) /\ d \in (L + 1)..Len(u) /\ u[d] = "."
      BY <1>1, <1>2, <1>6, <1>10
    <2> QED
      BY <2>1, JoinAtChar DEF F
  <1> QED
    BY <1>3, <1>8, <1>9, <1>11

-----------------------------------------------------------------------------
(***************************************************************************)
(* The invariant.                                                          *)
(***************************************************************************)

\* The strengthening of SignedUrlNamesTheFile: the file is one the database
\* can hold, and the response is the initial one or the method's answer for
\* that file.
IInv ==
    /\ file \in Files
    /\ response \in {[found |-> FALSE], MessageFileToStreamResponse(file)}

LEMMA InitIInv == Init => IInv
  BY DEF Init, IInv

LEMMA NextIInv == IInv /\ [Next]_vars => IInv'
  BY DEF IInv, Next, Respond, vars

\* A URL a message file can hold is a sequence of URL characters.
LEMMA UrlsAreSeqs == Urls \subseteq Seq(UrlChars)
  BY MessageFileUrlAssumption DEF Urls

LEMMA IInvSafe == IInv => SignedUrlNamesTheFile
  <1> SUFFICES ASSUME IInv,
                      response.found, response.url.signed,
                      OneDot(response.url.url),
                      Has(FileName(response.url.url), "."),
                      Len(<<".">> \o LastPiece(response.url.url, ".")) <= MaxExtLen
               PROVE  response.url.id \o response.url.ext
                        = FileName(response.url.url)
    BY DEF SignedUrlNamesTheFile
  <1>1. /\ file # None /\ file.url # None
        /\ response.url = ResponseUrl(file.url)
    BY DEF IInv, MessageFileToStreamResponse
  <1>2. file.url \in Seq(UrlChars)
    BY <1>1, UrlsAreSeqs DEF IInv, Files
  <1>3. response.url = [signed |-> TRUE, url |-> file.url,
                        id |-> ToolFileId(file.url), ext |-> Extension(file.url)]
    BY <1>1 DEF ResponseUrl
  <1> QED
    BY <1>2, <1>3, RoundTrip

\* SignedUrlNamesTheFile, for every URL length and extension limit: when a
\* local file's URL has one '.', in the file name, and a short extension,
\* message_file_to_stream_response signs the tool file id and extension
\* that make up that file name.
THEOREM SignedUrlRoundTrip == Spec => []SignedUrlNamesTheFile
  BY InitIInv, NextIInv, IInvSafe, PTL DEF Spec
-----------------------------------------------------------------------------
(***************************************************************************)
(* Where the extension comes from.                                         *)
(***************************************************************************)

\* The length, type and elements of a slice s[m-1:k].
LEMMA SubSeqFacts ==
    ASSUME NEW S, NEW s \in Seq(S), NEW m \in 1..(Len(s) + 1),
           NEW k \in (m - 1)..Len(s)
    PROVE  /\ SubSeq(s, m, k) \in Seq(S)
           /\ Len(SubSeq(s, m, k)) = k - m + 1
           /\ \A i \in 1..(k - m + 1) : SubSeq(s, m, k)[i] = s[m + i - 1]
  OBVIOUS

\* A sequence has at most one last occurrence of a character.
LEMMA LastAtUnique ==
    ASSUME NEW S, NEW s \in Seq(S), NEW c, NEW k \in Positions(s, c),
           \A j \in Positions(s, c) : j <= k
    PROVE  LastAt(s, c) = k
  <1>1. Has(s, c)
    BY DEF Has
  <1>2. LastAt(s, c) \in Positions(s, c) /\ LastAt(s, c) <= k
        /\ k <= LastAt(s, c)
    BY <1>1, LastAtIsLast
  <1> QED
    BY <1>2 DEF Positions

\* The extension is cut after the last '.' of the whole URL (line 153).
\* When the file name has a '.', that is the file name's last '.', so the
\* signed extension is the file's own; the url_extension run shows that it
\* is not when the '.' is only in a directory name.
THEOREM ExtensionFromFileName ==
    ASSUME NEW u \in Seq(UrlChars), Has(FileName(u), ".")
    PROVE  Extension(u) = FileExtension(u)
  <1> DEFINE n == Len(u)
             L == LastAt(u, "/")
             F == SubSeq(u, L + 1, n)
  <1>1. L \in 0..n
    <2>1. CASE Has(u, "/")
      BY <2>1, LastAtIsLast DEF Positions
    <2>2. CASE ~Has(u, "/")
      BY <2>2 DEF LastAt
    <2> QED
      BY <2>1, <2>2
  <1>2. /\ FileName(u) = F
        /\ F \in Seq(UrlChars)
        /\ Len(F) = n - L
        /\ \A i \in 1..(n - L) : F[i] = u[L + i]
    BY <1>1 DEF FileName, LastPiece
  <1> HIDE DEF L, F
  <1>3. PICK i \in 1..(n - L) : F[i] = "."
    BY <1>2 DEF Has, Positions
  <1>4. L + i \in Positions(u, ".")
    <2>1. L + i \in 1..n /\ u[L + i] = "."
      BY <1>1, <1>2, <1>3
    <2> QED
      BY <2>1 DEF Positions
  <1> DEFINE D == LastAt(u, ".")
  <1>5. D \in Positions(u, ".") /\ \A j \in Positions(u, ".") : j <= D
    BY <1>4, LastAtIsLast DEF Has
  <1> HIDE DEF D
  <1>6. D > L
    BY <1>1, <1>4, <1>5 DEF Positions
  <1>7. LastAt(F, ".") = D - L
    <2>1. D - L \in Positions(F, ".")
      BY <1>1, <1>2, <1>5, <1>6 DEF Positions
    <2>2. \A j \in Positions(F, ".") : j <= D - L
      <3> SUFFICES ASSUME NEW j \in Positions(F, ".") PROVE j <= D - L
        OBVIOUS
      <3>1. L + j \in Positions(u, ".")
        BY <1>1, <1>2 DEF Positions
      <3> QED
        BY <1>1, <1>5, <3>1 DEF Positions
    <2> QED
      BY <1>2, <2>1, <2>2, LastAtUnique
  <1>8. LastPiece(F, ".") = LastPiece(u, ".")
    <2>1. LastPiece(F, ".") = SubSeq(F, D - L + 1, n - L)
      BY <1>2, <1>7 DEF LastPiece
    <2>2. LastPiece(u, ".") = SubSeq(u, D + 1, n)
      BY DEF LastPiece, D
    <2>3. SubSeq(F, D - L + 1, n - L) = SubSeq(u, D + 1, n)
      <3>1. D \in 1..n
        BY <1>5 DEF Positions
      <3>2. /\ D - L + 1 \in 1..(Len(F) + 1) /\ n - L \in (D - L)..Len(F)
            /\ D + 1 \in 1..(Len(u) + 1) /\ n \in D..Len(u)
        BY <1>1, <1>2, <1>6, <3>1
      <3> DEFINE X == SubSeq(F, D - L + 1, n - L)
                 Y == SubSeq(u, D + 1, n)
      <3>3. /\ X \in Seq(UrlChars) /\ Len(X) = n - D
            /\ \A k \in 1..(n - D) : X[k] = F[D - L + k]
        BY <1>1, <1>2, <3>1, <3>2, SubSeqFacts
      <3>4. /\ Y \in Seq(UrlChars) /\ Len(Y) = n - D
            /\ \A k \in 1..(n - D) : Y[k] = u[D + k]
        BY <1>1, <3>1, <3>2, SubSeqFacts
      <3>5. \A k \in 1..(n - D) : F[D - L + k] = u[D + k]
        <4> SUFFICES ASSUME NEW k \in 1..(n - D) PROVE F[D - L + k] = u[D + k]
          OBVIOUS
        <4>1. D - L + k \in 1..(n - L) /\ L + (D - L + k) = D + k
          BY <1>1, <1>6, <3>1
        <4> QED
          BY <1>2, <4>1
      <3> HIDE DEF X, Y
      <3>6. X = Y
        BY <3>3, <3>4, <3>5, SeqExtEq
      <3> QED
        BY <3>6 DEF X, Y
    <2> QED
      BY <2>1, <2>2, <2>3
  <1> QED
    BY <1>2, <1>4, <1>8 DEF Extension, FileExtension, Has
=============================================================================
