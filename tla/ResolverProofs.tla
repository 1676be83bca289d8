--------------------------- MODULE ResolverProofs ---------------------------
(***************************************************************************)
(* Theorems about the resolver, for every request, every number of         *)
(* services, lines, stages and images, and every store and cache.          *)
(*                                                                         *)
(*  - ResolverTypes: TypeOK, with where each loop is, is an invariant.     *)
(*  - ResolvesAll: no image is overlooked.  By CoverInv: the result covers *)
(*    the services that are done and the result of the service in hand the *)
(*    images that are done, and what was seen is in a result.              *)
(*  - ResultTrue: the result is true of the store.  By TruthInv: what was  *)
(*    looked for was there or not when it was, and a list that is merged   *)
(*    adds no digest that was seen.                                        *)
(*  - NamesWhatIsPulled: a Dockerfile's images are those docker build      *)
(*    pulls for its FROM lines, within Comparable.  By BuiltInv: what the  *)
(*    parser has after n lines is said by those lines alone, ParserInv.    *)
(***************************************************************************)
EXTENDS Resolver, FiniteSetTheorems, SequenceTheorems, TLAPS

-----------------------------------------------------------------------------
(* References *)

LEMMA TokenFacts ==
    /\ "docker.io" \in Tokens /\ "library" \in Tokens /\ "/" \in Tokens
    /\ "latest" \in Tokens /\ "no_value" \in Tokens /\ "library" \notin Dotted
  BY ResolverAssumption, Zenon

\* A set of positions has a first one and a last one.
LEMMA FirstOf ==
    ASSUME NEW n \in Nat, NEW I \in SUBSET (1 .. n), I # {}
    PROVE  Min(I) \in I /\ \A i \in I : Min(I) <= i
<1>. DEFINE R == {ss \in Nat \X Nat : ss[1] < ss[2]}
<1>1. IsWellFoundedOn(R, Nat)
  BY NatLessThanWellFounded, Zenon DEF OpToRel
<1>2. I \subseteq Nat
  OBVIOUS
<1>3. \E x \in I : \A y \in I : ~(<<y, x>> \in R)
  <2>. HIDE DEF R
  <2>. QED
    BY <1>1, <1>2, WFMin
<1>4. PICK x \in I : \A y \in I : ~(<<y, x>> \in R)
  BY <1>3
<1>5. \A y \in I : x <= y
  <2>. SUFFICES ASSUME NEW y \in I PROVE x <= y
    OBVIOUS
  <2>1. x \in Nat /\ y \in Nat
    BY <1>2
  <2>2. ~(y < x)
    BY <1>4, <2>1, Zenon
  <2>. QED
    BY <2>1, <2>2
<1>. QED
  BY <1>5, Zenon DEF Min

LEMMA LastOf ==
    ASSUME NEW n \in Nat, NEW I \in SUBSET (1 .. n), I # {}
    PROVE  Max(I) \in I /\ \A i \in I : Max(I) >= i
<1>. DEFINE J == {n + 1 - i : i \in I}
<1>1. J \in SUBSET (1 .. n) /\ J # {}
  <2>1. \A i \in I : n + 1 - i \in 1 .. n
    OBVIOUS
  <2>. QED
    BY <2>1, Zenon
<1>2. Min(J) \in J /\ \A j \in J : Min(J) <= j
  BY <1>1, FirstOf
<1>3. PICK x \in I : Min(J) = n + 1 - x
  BY <1>2
<1>4. \A y \in I : x >= y
  <2>. SUFFICES ASSUME NEW y \in I PROVE x >= y
    OBVIOUS
  <2>1. n + 1 - x <= n + 1 - y
    BY <1>2, <1>3
  <2>. QED
    BY <2>1
<1>. QED
  BY <1>4 DEF Max

\* split("/") and find: the first place of a token, 0 if it is not there.
LEMMA FirstPlace ==
    ASSUME NEW s \in Texts, NEW c
    PROVE  LET k == FirstAt(s, c)
           IN  /\ k \in 0 .. Len(s)
               /\ k = 0 => \A i \in 1 .. Len(s) : s[i] # c
               /\ k > 0 => s[k] = c /\ \A i \in 1 .. k - 1 : s[i] # c
<1>. DEFINE I == {i \in 1 .. Len(s) : s[i] = c}
            k == IF I # {} THEN Min(I) ELSE 0
<1>1. FirstAt(s, c) = k
  BY DEF FirstAt, SelectInSeq
<1>2. Len(s) \in Nat
  BY DEF Texts
<1>3. I # {} => Min(I) \in I /\ \A i \in I : Min(I) <= i
  BY <1>2, FirstOf
<1>4. k \in 0 .. Len(s)
  BY <1>2, <1>3
<1>5. k = 0 => \A i \in 1 .. Len(s) : s[i] # c
  BY <1>2, <1>3
<1>6. k > 0 => s[k] = c /\ \A i \in 1 .. k - 1 : s[i] # c
  <2>. SUFFICES ASSUME k > 0
                PROVE  s[k] = c /\ \A i \in 1 .. k - 1 : s[i] # c
    OBVIOUS
  <2>1. k \in I /\ \A i \in I : k <= i
    BY <1>3
  <2>. HIDE DEF k
  <2>. QED
    BY <1>2, <1>4, <2>1
<1>. HIDE DEF k
<1>. QED
  BY <1>1, <1>4, <1>5, <1>6, Zenon

\* rfind: the last place of the token, 0 if it is not there.
LEMMA LastPlace ==
    ASSUME NEW s \in Texts, NEW c
    PROVE  /\ LastAt(s, c) \in 0 .. Len(s)
           /\ \A i \in 1 .. Len(s) : s[i] = c => i <= LastAt(s, c)
<1>. DEFINE I == {i \in 1 .. Len(s) : s[i] = c}
            k == LastAt(s, c)
<1>1. k = IF I # {} THEN Max(I) ELSE 0
  BY DEF LastAt, SelectLastInSeq
<1>2. Len(s) \in Nat
  BY DEF Texts
<1>3. I # {} => Max(I) \in I /\ \A i \in I : Max(I) >= i
  BY <1>2, LastOf
<1>. HIDE DEF k
<1>. QED
  BY <1>1, <1>2, <1>3 DEF k

\* A cut of a text is a text.
LEMMA CutType ==
    ASSUME NEW s \in Texts, NEW m \in Int, NEW n \in Int, 1 <= m, n <= Len(s)
    PROVE  /\ SubSeq(s, m, n) \in Texts
           /\ Len(SubSeq(s, m, n)) = IF m <= n THEN n - m + 1 ELSE 0
           /\ \A i \in 1 .. n - m + 1 : SubSeq(s, m, n)[i] = s[m + i - 1]
<1>1. \A i \in m .. n : s[i] \in Tokens
  BY DEF Texts
<1>. QED
  BY <1>1, SubSeqProperties DEF Texts

\* What _normalize_registry makes of a name, by its first slash.
Place(name, slash) ==
    IF slash = 0 THEN <<<<"docker.io">>, <<"library", "/">> \o name>>
    ELSE IF ToSet(SubSeq(name, 1, slash - 1)) \cap (Dotted \cup {":"}) # {}
            \/ SubSeq(name, 1, slash - 1) = <<"localhost">>
      THEN <<SubSeq(name, 1, slash - 1), SubSeq(name, slash + 1, Len(name))>>
      ELSE <<<<"docker.io">>, name>>

LEMMA NormalizeIs ==
    ASSUME NEW name \in Texts
    PROVE  \E slash \in 0 .. Len(name) :
             /\ slash = 0 => \A i \in 1 .. Len(name) : name[i] # "/"
             /\ slash > 0 => /\ name[slash] = "/"
                             /\ \A i \in 1 .. slash - 1 : name[i] # "/"
             /\ Normalize(name) = Place(name, slash)
<1>. DEFINE slash == FirstAt(name, "/")
<1>1. /\ slash \in 0 .. Len(name)
      /\ slash = 0 => \A i \in 1 .. Len(name) : name[i] # "/"
      /\ slash > 0 => name[slash] = "/" /\ \A i \in 1 .. slash - 1 : name[i] # "/"
  BY FirstPlace
<1>2. Normalize(name) = Place(name, slash)
  BY DEF Normalize, Place
<1>. HIDE DEF slash
<1>. QED
  BY <1>1, <1>2, Zenon

LEMMA NormalizeType ==
    ASSUME NEW name \in Texts
    PROVE  Normalize(name)[1] \in Texts /\ Normalize(name)[2] \in Texts
<1>1. PICK slash \in 0 .. Len(name) : Normalize(name) = Place(name, slash)
  BY NormalizeIs
<1>2. Len(name) \in Nat
  BY DEF Texts
<1>3. <<"library", "/">> \o name \in Texts
  BY TokenFacts, ConcatProperties DEF Texts
<1>4. slash > 0 => SubSeq(name, 1, slash - 1) \in Texts
  BY <1>2, CutType
<1>5. slash > 0 => SubSeq(name, slash + 1, Len(name)) \in Texts
  BY <1>2, CutType
<1>6. <<"docker.io">> \in Texts
  BY TokenFacts DEF Texts
<1>. QED
  BY <1>1, <1>3, <1>4, <1>5, <1>6 DEF Place

\* The name that _parse_image_ref normalizes is a front part of the reference,
\* with all slashes that come before a digest.
Parts(raw, n) ==
    /\ n \in 0 .. Len(raw)
    /\ \A i \in 1 .. Len(raw) :
         raw[i] = "/" /\ (\A j \in 1 .. i : raw[j] # "@") => i <= n
    /\ ParseImageRef(raw).registry = Normalize(SubSeq(raw, 1, n))[1]
    /\ ParseImageRef(raw).repository = Normalize(SubSeq(raw, 1, n))[2]
    /\ ParseImageRef(raw).tag \in Texts
    /\ ParseImageRef(raw).digest \in Texts

LEMMA ParseImageRefIs == ASSUME NEW raw \in Texts PROVE \E n \in Nat : Parts(raw, n)
<1>. DEFINE at == FirstAt(raw, "@")
            slash == LastAt(raw, "/")
            colon == LastAt(raw, ":")
            Named(name, tag, digest) ==
                [registry |-> Normalize(name)[1], repository |-> Normalize(name)[2],
                 tag |-> tag, digest |-> digest]
<1>1. at \in 0 .. Len(raw) /\ slash \in 0 .. Len(raw) /\ colon \in 0 .. Len(raw)
  BY FirstPlace, LastPlace
<1>a. /\ at > 0 => raw[at] = "@"
      /\ \A i \in 1 .. Len(raw) : raw[i] = "/" => i <= slash
  BY FirstPlace, LastPlace
<1>2. ParseImageRef(raw) =
        CASE at > 0 -> Named(SubSeq(raw, 1, at - 1), <<>>,
                             SubSeq(raw, at + 1, Len(raw)))
          [] at = 0 /\ colon > slash -> Named(SubSeq(raw, 1, colon - 1),
                                SubSeq(raw, colon + 1, Len(raw)), <<>>)
          [] OTHER -> Named(raw, <<"latest">>, <<>>)
  BY Zenon DEF ParseImageRef
<1>3. Len(raw) \in Nat /\ <<>> \in Texts /\ <<"latest">> \in Texts
  BY TokenFacts DEF Texts
<1>. HIDE DEF at, slash, colon
<1>4. CASE at > 0
  <2>1. ParseImageRef(raw) = Named(SubSeq(raw, 1, at - 1), <<>>,
                                   SubSeq(raw, at + 1, Len(raw)))
    BY <1>1, <1>2, <1>4
  <2>2. SubSeq(raw, at + 1, Len(raw)) \in Texts
    BY <1>1, <1>3, CutType
  <2>3. ASSUME NEW i \in 1 .. Len(raw), \A j \in 1 .. i : raw[j] # "@"
        PROVE  i <= at - 1
    <3>1. at \notin 1 .. i
      BY <1>4, <1>a, <2>3
    <3>. QED
      BY <1>1, <1>3, <1>4, <3>1
  <2>4. /\ ParseImageRef(raw).registry = Normalize(SubSeq(raw, 1, at - 1))[1]
        /\ ParseImageRef(raw).repository = Normalize(SubSeq(raw, 1, at - 1))[2]
        /\ ParseImageRef(raw).tag \in Texts /\ ParseImageRef(raw).digest \in Texts
    BY <1>3, <2>1, <2>2
  <2>5. at - 1 \in 0 .. Len(raw) /\ at - 1 \in Nat
    BY <1>1, <1>3, <1>4
  <2>6. Parts(raw, at - 1)
    BY <2>3, <2>4, <2>5, Zenon DEF Parts
  <2>. QED
    BY <2>5, <2>6
<1>5. CASE at = 0 /\ colon > slash
  <2>1. ParseImageRef(raw) = Named(SubSeq(raw, 1, colon - 1),
                                   SubSeq(raw, colon + 1, Len(raw)), <<>>)
    BY <1>1, <1>2, <1>5
  <2>2. SubSeq(raw, colon + 1, Len(raw)) \in Texts
    BY <1>1, <1>3, CutType
  <2>3. \A i \in 1 .. Len(raw) : raw[i] = "/" => i <= colon - 1
    BY <1>1, <1>3, <1>5, <1>a
  <2>. QED
    BY <1>1, <1>3, <1>5, <2>1, <2>2, <2>3 DEF Parts
<1>6. CASE at = 0 /\ ~(colon > slash)
  <2>1. ParseImageRef(raw) = Named(raw, <<"latest">>, <<>>)
    BY <1>1, <1>2, <1>6
  <2>2. SubSeq(raw, 1, Len(raw)) = raw
    BY SubSeqFull DEF Texts
  <2>3. /\ ParseImageRef(raw).registry = Normalize(raw)[1]
        /\ ParseImageRef(raw).repository = Normalize(raw)[2]
        /\ ParseImageRef(raw).tag = <<"latest">>
        /\ ParseImageRef(raw).digest = <<>>
    BY <2>1
  <2>4. Len(raw) \in 0 .. Len(raw) /\ \A i \in 1 .. Len(raw) : i <= Len(raw)
    BY <1>3
  <2>5. Parts(raw, Len(raw))
    BY <1>3, <2>2, <2>3, <2>4, Zenon DEF Parts
  <2>. QED
    BY <1>3, <2>5
<1>. QED
  BY <1>1, <1>4, <1>5, <1>6

LEMMA ImageType ==
    ASSUME NEW raw \in Texts, NEW platform \in Texts, NEW internal \in BOOLEAN
    PROVE  /\ ResolvedImage(raw, platform, internal) \in Images
           /\ ResolvedImage(raw, platform, internal).internal = internal
<1>1. PICK n \in Nat : Parts(raw, n)
  BY ParseImageRefIs
<1>2. Len(raw) \in Nat
  BY DEF Texts
<1>3. SubSeq(raw, 1, n) \in Texts
  BY <1>1, <1>2, CutType DEF Parts
<1>4. /\ ParseImageRef(raw).registry \in Texts
      /\ ParseImageRef(raw).repository \in Texts
      /\ ParseImageRef(raw).tag \in Texts
      /\ ParseImageRef(raw).digest \in Texts
  BY <1>1, <1>3, NormalizeType DEF Parts
<1>. QED
  BY <1>4 DEF ResolvedImage, Images

-----------------------------------------------------------------------------
(* Types *)

LEMMA TextFacts == NoValue \in Texts /\ <<>> \in Texts /\ NoArgs \in [Vars -> Texts]
<1>1. NoValue \in Texts /\ <<>> \in Texts
  BY TokenFacts DEF NoValue, Texts
<1>. QED
  BY <1>1 DEF NoArgs

LEMMA SubstituteType ==
    ASSUME NEW x \in Forms, NEW args \in [Vars -> Texts], NEW b \in [Vars -> Texts]
    PROVE  Substitute(x, args, b) \in Texts
<1>1. /\ x.form \in {"none", "word", "var", ":-", ":+"} /\ x.text \in Texts
      /\ x.var \in Vars /\ x.word \in Texts
  BY DEF Forms
<1>2. ValueOf(x.var, args, b) \in Texts
  BY <1>1 DEF ValueOf
<1>3. \A t \in Texts : x.text \o t \in Texts
  BY <1>1, ConcatProperties DEF Texts
<1>. QED
  BY <1>1, <1>2, <1>3, TextFacts DEF Substitute

LEMMA LowerType == ASSUME NEW name \in Texts PROVE Lower(name) \in Texts
<1>1. \A c \in DOMAIN LowerCase : LowerCase[c] \in Tokens
  BY ResolverAssumption, Zenon
<1>2. \A i \in 1 .. Len(name) :
        (IF name[i] \in DOMAIN LowerCase THEN LowerCase[name[i]] ELSE name[i])
          \in Tokens
  BY <1>1 DEF Texts
<1>. QED
  BY <1>2 DEF Lower, Texts

LEMMA ParseLineType ==
    ASSUME NEW line \in Lines, NEW b \in [Vars -> Texts], NEW p \in Parses
    PROVE  ParseLine(line, b, p) \in Parses
<1>1. CASE line.op = "FROM"
  <2>1. line.platform \in Forms /\ line.ref \in Forms /\ line.as \in Texts
    BY <1>1 DEF Lines
  <2>2. p.args \in [Vars -> Texts] /\ p.aliases \subseteq Texts
        /\ p.images \in Seq(Images)
    BY DEF Parses
  <2>. DEFINE platform == Substitute(line.platform, p.args, b)
              raw == Substitute(line.ref, p.args, b)
              image == ResolvedImage(raw, platform, Lower(raw) \in p.aliases)
  <2>3. platform \in Texts /\ raw \in Texts
    BY <2>1, <2>2, SubstituteType
  <2>4. image \in Images
    <3>. HIDE DEF platform, raw
    <3>1. (Lower(raw) \in p.aliases) \in BOOLEAN
      OBVIOUS
    <3>. QED
      BY <2>3, <3>1, ImageType, Zenon
  <2>5. Append(p.images, image) \in Seq(Images)
    <3>. HIDE DEF image
    <3>. QED
      BY <2>2, <2>4, AppendProperties
  <2>6. p.aliases \cup ({Lower(line.as)} \ {<<>>}) \subseteq Texts
    BY <2>1, <2>2, LowerType
  <2>7. ParseLine(line, b, p) = ParseFrom(line, b, p)
    BY <1>1 DEF ParseLine
  <2>8. ParseFrom(line, b, p) =
          IF NoValue \in {platform, raw} THEN [p EXCEPT !.error = TRUE]
          ELSE IF Scratch(raw) THEN [p EXCEPT !.from = TRUE]
          ELSE [p EXCEPT !.from = TRUE, !.images = Append(@, image),
                         !.aliases = @ \cup ({Lower(line.as)} \ {<<>>})]
    BY DEF ParseFrom
  <2>. HIDE DEF platform, raw, image
  <2>9. [p EXCEPT !.from = TRUE, !.images = Append(@, image),
                  !.aliases = @ \cup ({Lower(line.as)} \ {<<>>})] \in Parses
    BY <2>5, <2>6 DEF Parses
  <2>10. [p EXCEPT !.from = TRUE] \in Parses /\ [p EXCEPT !.error = TRUE] \in Parses
    BY DEF Parses
  <2>. QED
    BY <2>7, <2>8, <2>9, <2>10
<1>2. CASE line.op # "FROM"
  <2>1. line.var \in Vars /\ line.default \in Texts
    BY <1>2 DEF Lines
  <2>2. ParseArg(line, b, p) \in Parses
    BY <2>1 DEF ParseArg, Parses
  <2>. QED
    BY <1>2, <2>2 DEF ParseLine
<1>. QED
  BY <1>1, <1>2

LEMMA RequestFacts ==
    ASSUME NEW s \in Scenarios
    PROVE  /\ s.input \in Requests
           /\ ~s.input.compose => /\ Len(s.input.services) = 1
                                  /\ s.input.services[1].kind = "build"
           /\ s.blobs \subseteq Blobs
           /\ s.cache \in [Keys -> Manifests \cup NoManifest]
           /\ s.aged \subseteq {k \in Keys : s.cache[k] # NotCached}
  BY ResolverAssumption, Zenon

LEMMA LayerFacts ==
    /\ MaxChanges \in Nat /\ Manifests \cap NoManifest = {}
    /\ \A m \in Manifests : Layers[m] \in Seq(Blobs)
<1>1. Layers \in [Manifests -> Seq(Blobs)] /\ MaxChanges \in Nat
      /\ Manifests \cap NoManifest = {}
  BY ResolverAssumption, Zenon
<1>. QED
  BY <1>1

LEMMA EmptyTypes == Empty \in Results /\ NoParse \in Parses /\ NoService \in Services
<1>1. Empty \in Results
  BY DEF Empty, Results
<1>2. NoParse \in Parses
  BY TextFacts DEF NoParse, Parses
<1>3. NoService \in Services
  BY TextFacts DEF NoService, Services
<1>. QED
  BY <1>1, <1>2, <1>3

LEMMA TypeInit == Init => TypeOK
<1>. SUFFICES ASSUME Init PROVE TypeOK
  OBVIOUS
<1>1. PICK s \in Scenarios : input = s.input /\ blobs = s.blobs
                             /\ cache = s.cache /\ aged = s.aged
  BY Zenon DEF Init
<1>2. input \in Requests /\ blobs \subseteq Blobs
      /\ cache \in [Keys -> Manifests \cup NoManifest]
      /\ aged \subseteq {k \in Keys : cache[k] # NotCached}
  BY <1>1, RequestFacts, Zenon
<1>3. an \in Analyses
  <2>1. input.services \in Seq(Services)
    BY <1>2 DEF Requests
  <2>2. an = Start(input)
    BY DEF Init
  <2>. QED
    BY <2>1, <2>2, EmptyTypes DEF Start, Analyses
<1>4. changes \in 0 .. MaxChanges /\ touched \subseteq Blobs
  BY LayerFacts DEF Init
<1>5. held \subseteq Keys \X (Manifests \cup NoManifest)
  BY <1>2 DEF Init
<1>. QED
  BY <1>2, <1>3, <1>4, <1>5 DEF TypeOK

\* The fields of the analysis and of its results.
LEMMA AnTypes ==
    ASSUME TypeOK
    PROVE  /\ an \in Analyses /\ input \in Requests
           /\ an.services \in Seq(Services) /\ an.service \in Services
           /\ an.done \in Nat /\ an.parse \in Parses /\ an.images \in Seq(Images)
           /\ an.manifest \in Manifests \cup {NotCached}
           /\ an.missing \in Seq(Blobs) /\ an.out \in Results
           /\ an.result \in Results /\ an.seen \subseteq Blobs
           /\ an.allSeen \subseteq Blobs /\ an.refs \subseteq Texts
  BY DEF TypeOK, Analyses

LEMMA ServiceType ==
    ASSUME NEW s \in Services
    PROVE  /\ s.kind \in {"image", "build", "none"} /\ s.ref \in Texts
           /\ s.file \in Seq(Lines)
  BY DEF Services

LEMMA ResultType ==
    ASSUME NEW r \in Results
    PROVE  /\ r.images \in Seq(Images) /\ r.present \subseteq Blobs
           /\ r.missing \in Seq(Blobs) /\ r.warnings \subseteq Warnings
           /\ r.stale \subseteq Keys
  BY DEF Results

LEMMA HeadType ==
    ASSUME NEW S, NEW s \in Seq(S), s # <<>>
    PROVE  Head(s) \in S /\ Tail(s) \in Seq(S)
  BY HeadTailProperties

LEMMA SkipServiceType == TypeOK /\ SkipService => an' \in Analyses
<1>. SUFFICES ASSUME TypeOK, SkipService PROVE an' \in Analyses
  OBVIOUS
<1>1. Tail(an.services) \in Seq(Services)
  BY AnTypes, HeadType DEF SkipService
<1>2. an' = [an EXCEPT !.services = Tail(@)]
  BY DEF SkipService
<1>. QED
  BY <1>1, <1>2, AnTypes DEF Analyses

LEMMA ResolveImageRefType == TypeOK /\ ResolveImageRef => an' \in Analyses
<1>. SUFFICES ASSUME TypeOK, ResolveImageRef PROVE an' \in Analyses
  OBVIOUS
<1>. DEFINE s == Head(an.services)
            image == ResolvedImage(s.ref, <<>>, FALSE)
<1>1. s \in Services /\ Tail(an.services) \in Seq(Services)
  BY AnTypes, HeadType DEF ResolveImageRef
<1>2. s.ref \in Texts
  BY <1>1, ServiceType
<1>3. image \in Images
  <2>. HIDE DEF s
  <2>. QED
    BY <1>2, TextFacts, ImageType
<1>4. an' = [an EXCEPT !.pc = "image", !.services = Tail(@), !.service = s,
               !.refs = @ \cup {s.ref}, !.images = <<image>>,
               !.out = [an.result EXCEPT !.images = Append(@, image)],
               !.seen = an.allSeen]
  BY DEF ResolveImageRef
<1>. HIDE DEF s, image
<1>5. [an.result EXCEPT !.images = Append(@, image)] \in Results
  BY <1>3, AnTypes, AppendProperties DEF Results
<1>6. <<image>> \in Seq(Images)
  BY <1>3
<1>. QED
  BY <1>1, <1>2, <1>4, <1>5, <1>6, AnTypes DEF Analyses

LEMMA ResolveDockerfileType == TypeOK /\ ResolveDockerfile => an' \in Analyses
<1>. SUFFICES ASSUME TypeOK, ResolveDockerfile PROVE an' \in Analyses
  OBVIOUS
<1>. DEFINE s == Head(an.services)
<1>1. s \in Services /\ Tail(an.services) \in Seq(Services)
  BY AnTypes, HeadType DEF ResolveDockerfile
<1>2. an' = [an EXCEPT !.pc = "parse", !.services = Tail(@), !.service = s,
               !.done = 0, !.parse = NoParse]
  BY DEF ResolveDockerfile
<1>. HIDE DEF s
<1>. QED
  BY <1>1, <1>2, EmptyTypes, AnTypes DEF Analyses

LEMMA ParseDockerfileType == TypeOK /\ ParseDockerfile => an' \in Analyses
<1>. SUFFICES ASSUME TypeOK, ParseDockerfile PROVE an' \in Analyses
  OBVIOUS
<1>. DEFINE p == ParseLine(an.service.file[an.done + 1], input.args, an.parse)
<1>1. an.service.file[an.done + 1] \in Lines
  BY AnTypes, ServiceType DEF ParseDockerfile
<1>2. input.args \in [Vars -> Texts]
  BY AnTypes DEF Requests
<1>3. p \in Parses
  BY <1>1, <1>2, AnTypes, ParseLineType
<1>4. \/ an' = [an EXCEPT !.done = @ + 1, !.parse = p]
      \/ an' = [an EXCEPT !.pc = "service", !.parse = NoParse,
                  !.result.warnings = @ \cup {<<"service", an.service>>}]
      \/ an' = [an EXCEPT !.pc = "failed"]
  BY DEF ParseDockerfile
<1>. HIDE DEF p
<1>5. <<"service", an.service>> \in Warnings
  BY AnTypes DEF Warnings
<1>6. [an.result EXCEPT !.warnings = @ \cup {<<"service", an.service>>}] \in Results
  BY <1>5, AnTypes DEF Results
<1>7. CASE an' = [an EXCEPT !.done = @ + 1, !.parse = p]
  <2>. DEFINE n == an.done + 1
  <2>1. n \in Nat /\ an' = [an EXCEPT !.done = n, !.parse = p]
    BY <1>7, AnTypes
  <2>. HIDE DEF n
  <2>. QED
    BY <1>3, <2>1, AnTypes DEF Analyses
<1>8. CASE an' = [an EXCEPT !.pc = "service", !.parse = NoParse,
                    !.result.warnings = @ \cup {<<"service", an.service>>}]
  <2>1. an' = [an EXCEPT !.pc = "service", !.parse = NoParse,
                 !.result = [an.result EXCEPT
                   !.warnings = @ \cup {<<"service", an.service>>}]]
    BY <1>8, AnTypes DEF Analyses
  <2>. QED
    BY <1>6, <2>1, EmptyTypes, AnTypes DEF Analyses
<1>9. CASE an' = [an EXCEPT !.pc = "failed"]
  BY <1>9, AnTypes DEF Analyses
<1>. QED
  BY <1>4, <1>7, <1>8, <1>9

LEMMA ParsedType == TypeOK /\ Parsed => an' \in Analyses
<1>. SUFFICES ASSUME TypeOK, Parsed PROVE an' \in Analyses
  OBVIOUS
<1>1. an.parse.images \in Seq(Images)
  BY AnTypes DEF Parses
<1>2. [Empty EXCEPT !.images = an.parse.images] \in Results
  BY <1>1, EmptyTypes DEF Results
<1>. QED
  BY <1>1, <1>2, EmptyTypes, AnTypes DEF Parsed, Analyses

LEMMA NextImageType ==
    ASSUME TypeOK, an.images # <<>>, NEW out \in Results
    PROVE  NextImage(out) \in Analyses
<1>1. Tail(an.images) \in Seq(Images)
  BY AnTypes, HeadType
<1>. QED
  BY <1>1, AnTypes DEF NextImage, Analyses

\* Manifest m was cached under key k for an image.
For(image, k, m) ==
    IF image.digest # <<>> THEN <<SourceOf[m]>> = image.digest ELSE k = Key(image)

\* What the manifest cache answers is a manifest it holds under a key.
LEMMA LookupType ==
    ASSUME TypeOK, NEW image, NEW m \in Lookup(image)
    PROVE  /\ m \in Manifests
           /\ \E k \in Keys : m = cache[k] /\ For(image, k, m)
<1>1. cache \in [Keys -> Manifests \cup NoManifest]
  BY DEF TypeOK
<1>2. CASE image.digest # <<>>
  <2>1. m \in {cache[k] : k \in Keys} \ NoManifest /\ <<SourceOf[m]>> = image.digest
    BY <1>2 DEF Lookup, LookupByDigest
  <2>. QED
    BY <1>1, <1>2, <2>1 DEF For
<1>3. CASE image.digest = <<>>
  <2>1. m \in {cache[k] : k \in {Key(image)} \cap Keys} \ NoManifest
    BY <1>3 DEF Lookup
  <2>. QED
    BY <1>1, <1>3, <2>1 DEF For
<1>. QED
  BY <1>2, <1>3

LEMMA FindManifestType == TypeOK /\ FindManifest => an' \in Analyses
<1>. SUFFICES ASSUME TypeOK, FindManifest PROVE an' \in Analyses
  OBVIOUS
<1>1. an.images # <<>> /\ Image \in Images
  BY AnTypes, HeadType DEF FindManifest, Image
<1>2. Latest(Image) \subseteq Warnings /\ <<"uncached", Image>> \in Warnings
  BY <1>1 DEF Latest, Warnings
<1>3. /\ [an.out EXCEPT !.warnings =
            @ \cup Latest(Image) \cup {<<"uncached", Image>>}] \in Results
      /\ [an.out EXCEPT !.warnings = @ \cup Latest(Image)] \in Results
  BY <1>2, AnTypes DEF Results
<1>4. CASE an' = NextImage(an.out)
  BY <1>1, <1>4, AnTypes, NextImageType
<1>5. CASE an' = NextImage([an.out EXCEPT !.warnings =
                              @ \cup Latest(Image) \cup {<<"uncached", Image>>}])
  BY <1>1, <1>3, <1>5, NextImageType
<1>6. CASE \E m \in Lookup(Image) :
             an' = [an EXCEPT !.pc = "stale", !.manifest = m,
                      !.out.warnings = @ \cup Latest(Image)]
  <2>1. PICK m \in Lookup(Image) :
               an' = [an EXCEPT !.pc = "stale", !.manifest = m,
                        !.out.warnings = @ \cup Latest(Image)]
    BY <1>6
  <2>2. m \in Manifests
    BY LookupType
  <2>3. an' = [an EXCEPT !.pc = "stale", !.manifest = m,
                 !.out = [an.out EXCEPT !.warnings = @ \cup Latest(Image)]]
    BY <2>1, AnTypes DEF Analyses
  <2>. QED
    BY <1>3, <2>2, <2>3, AnTypes DEF Analyses
<1>. QED
  BY <1>4, <1>5, <1>6, Zenon DEF FindManifest

LEMMA CheckStaleType ==
    TypeOK /\ an.images # <<>> /\ CheckStale => an' \in Analyses
<1>. SUFFICES ASSUME TypeOK, an.images # <<>>, CheckStale PROVE an' \in Analyses
  OBVIOUS
<1>. DEFINE new == Stale(Image)
            out == [an.out EXCEPT
                      !.stale = @ \cup new,
                      !.warnings = @ \cup {<<"stale", k>> : k \in new}]
<1>1. new \subseteq Keys
  BY DEF Stale, TypeOK
<1>2. {<<"stale", k>> : k \in new} \subseteq Warnings
  <2>. HIDE DEF new
  <2>. QED
    BY <1>1 DEF Warnings
<1>3. out \in Results
  <2>. HIDE DEF new
  <2>. QED
    BY <1>1, <1>2, AnTypes DEF Results
<1>4. an' = [an EXCEPT !.pc = "look", !.done = 0, !.missing = <<>>, !.out = out]
  <2>1. an' = [an EXCEPT !.pc = "look", !.done = 0, !.missing = <<>>,
                 !.out.stale = @ \cup new,
                 !.out.warnings = @ \cup {<<"stale", k>> : k \in new}]
    BY DEF CheckStale
  <2>. HIDE DEF new
  <2>. QED
    BY <2>1, AnTypes DEF Analyses, Results
<1>. HIDE DEF out
<1>5. <<>> \in Seq(Blobs)
  OBVIOUS
<1>. QED
  BY <1>3, <1>4, <1>5, AnTypes DEF Analyses

LEMMA LookType ==
    TypeOK /\ an.manifest \in Manifests /\ Look => an' \in Analyses
<1>. SUFFICES ASSUME TypeOK, an.manifest \in Manifests, Look
              PROVE  an' \in Analyses
  OBVIOUS
<1>. DEFINE d == Layers[an.manifest][an.done + 1]
<1>1. d \in Blobs
  BY AnTypes, LayerFacts DEF Look
<1>2. Append(an.missing, d) \in Seq(Blobs)
  BY <1>1, AnTypes, AppendProperties
<1>. DEFINE n == an.done + 1
            r == IF d \in an.seen \cup blobs THEN an.missing
                 ELSE Append(an.missing, d)
<1>3. an' = [an EXCEPT !.done = n, !.missing = r]
  BY DEF Look
<1>4. n \in Nat /\ r \in Seq(Blobs)
  BY <1>2, AnTypes
<1>. HIDE DEF n, r
<1>. QED
  BY <1>3, <1>4, AnTypes DEF Analyses

LEMMA LookedType ==
    TypeOK /\ an.manifest \in Manifests /\ an.images # <<>> /\ Looked
      => an' \in Analyses
<1>. SUFFICES ASSUME TypeOK, an.manifest \in Manifests, an.images # <<>>, Looked
              PROVE  an' \in Analyses
  OBVIOUS
<1>. DEFINE new == ToSet(Layers[an.manifest]) \ an.seen
            out == [an.out EXCEPT !.present = @ \cup (new \ ToSet(an.missing)),
                                  !.missing = @ \o an.missing]
<1>1. new \subseteq Blobs
  BY DEF Blobs
<1>2. an.out.missing \o an.missing \in Seq(Blobs)
  BY AnTypes, ResultType, ConcatProperties
<1>3. out \in Results
  <2>. HIDE DEF new
  <2>. QED
    BY <1>1, <1>2, AnTypes DEF Results
<1>4. an' = [NextImage(out) EXCEPT !.seen = @ \cup new]
  BY DEF Looked
<1>. HIDE DEF out, new
<1>5. NextImage(out) \in Analyses
  BY <1>3, NextImageType
<1>. QED
  BY <1>1, <1>4, <1>5 DEF Analyses

LEMMA EndTypes ==
    TypeOK /\ (EndService \/ EndDockerfile \/ MergeMissing \/ Merged \/ EndAnalysis)
      => an' \in Analyses
<1>. SUFFICES ASSUME TypeOK,
                     EndService \/ EndDockerfile \/ MergeMissing \/ Merged
                       \/ EndAnalysis
              PROVE  an' \in Analyses
  OBVIOUS
<1>1. CASE EndService
  BY <1>1, AnTypes DEF EndService, Analyses
<1>2. CASE EndDockerfile
  <2>1. an.result.images \o an.out.images \in Seq(Images)
    BY AnTypes, ResultType, ConcatProperties
  <2>2. Merge(an.result, an.out) \in Results
    BY <2>1, AnTypes DEF Merge, Results
  <2>. QED
    BY <1>2, <2>2, AnTypes DEF EndDockerfile, Analyses
<1>3. CASE MergeMissing
  <2>. DEFINE d == an.out.missing[an.done + 1]
  <2>1. d \in Blobs
    BY <1>3, AnTypes, ResultType DEF MergeMissing
  <2>2. Append(an.result.missing, d) \in Seq(Blobs)
    BY <2>1, AnTypes, ResultType, AppendProperties
  <2>3. an' = MergeOne(d)
    BY <1>3 DEF MergeMissing
  <2>. HIDE DEF d
  <2>. DEFINE n == an.done + 1
              all == IF d \in an.allSeen THEN an.result.missing
                     ELSE Append(an.result.missing, d)
              r == [an.result EXCEPT !.missing = all]
  <2>4. an' = [an EXCEPT !.done = n, !.result = r, !.allSeen = @ \cup {d}]
    BY <2>3, AnTypes DEF MergeOne, Analyses
  <2>5. n \in Nat /\ all \in Seq(Blobs)
    BY <2>2, AnTypes, ResultType
  <2>6. r \in Results
    <3>. HIDE DEF all
    <3>. QED
      BY <2>5, AnTypes DEF Results
  <2>. HIDE DEF n, r
  <2>. QED
    BY <2>1, <2>4, <2>5, <2>6, AnTypes DEF Analyses
<1>4. CASE Merged
  BY <1>4, AnTypes DEF Merged, Analyses
<1>5. CASE EndAnalysis
  BY <1>5, AnTypes DEF EndAnalysis, Analyses
<1>. QED
  BY <1>1, <1>2, <1>3, <1>4, <1>5

-----------------------------------------------------------------------------
(* What a step does to each field *)

LEMMA SkipServiceStep ==
    ASSUME TypeOK, SkipService
    PROVE  /\ an'.pc = an.pc /\ an'.services = Tail(an.services)
           /\ an'.service = an.service /\ an'.done = an.done
           /\ an'.parse = an.parse /\ an'.images = an.images
           /\ an'.manifest = an.manifest /\ an'.missing = an.missing
           /\ an'.out = an.out /\ an'.result = an.result /\ an'.seen = an.seen
           /\ an'.allSeen = an.allSeen /\ an'.refs = an.refs
           /\ UNCHANGED <<world, input>>
           /\ an.pc = "service"
  BY AnTypes DEF SkipService, Analyses

LEMMA ResolveImageRefStep ==
    ASSUME TypeOK, ResolveImageRef
    PROVE  /\ an'.pc = "image" /\ an'.services = Tail(an.services)
           /\ an'.service = Head(an.services) /\ an'.done = an.done
           /\ an'.parse = an.parse
           /\ an'.images = <<ResolvedImage(Head(an.services).ref, <<>>, FALSE)>>
           /\ an'.manifest = an.manifest /\ an'.missing = an.missing
           /\ an'.out = [an.result EXCEPT !.images = Append(@,
                          ResolvedImage(Head(an.services).ref, <<>>, FALSE))]
           /\ an'.result = an.result /\ an'.seen = an.allSeen
           /\ an'.allSeen = an.allSeen
           /\ an'.refs = an.refs \cup {Head(an.services).ref}
           /\ UNCHANGED <<world, input>>
           /\ an.pc = "service" /\ Head(an.services).kind = "image"
  BY AnTypes DEF ResolveImageRef, Analyses

LEMMA ResolveDockerfileStep ==
    ASSUME TypeOK, ResolveDockerfile
    PROVE  /\ an'.pc = "parse" /\ an'.services = Tail(an.services)
           /\ an'.service = Head(an.services) /\ an'.done = 0
           /\ an'.parse = NoParse /\ an'.images = an.images
           /\ an'.manifest = an.manifest /\ an'.missing = an.missing
           /\ an'.out = an.out /\ an'.result = an.result /\ an'.seen = an.seen
           /\ an'.allSeen = an.allSeen /\ an'.refs = an.refs
           /\ UNCHANGED <<world, input>>
           /\ an.pc = "service" /\ Head(an.services).kind = "build"
  BY AnTypes DEF ResolveDockerfile, Analyses

LEMMA ParsedStep ==
    ASSUME TypeOK, Parsed
    PROVE  /\ an'.pc = "image" /\ an'.services = an.services
           /\ an'.service = an.service /\ an'.done = an.done
           /\ an'.parse = NoParse /\ an'.images = an.parse.images
           /\ an'.manifest = an.manifest /\ an'.missing = an.missing
           /\ an'.out = [Empty EXCEPT !.images = an.parse.images]
           /\ an'.result = an.result /\ an'.seen = {}
           /\ an'.allSeen = an.allSeen /\ an'.refs = an.refs
           /\ UNCHANGED <<world, input>>
           /\ an.pc = "parse" /\ an.done = Len(an.service.file)
  BY AnTypes DEF Parsed, Analyses

LEMMA CheckStaleStep ==
    ASSUME TypeOK, CheckStale
    PROVE  /\ an'.pc = "look" /\ an'.services = an.services
           /\ an'.service = an.service /\ an'.done = 0 /\ an'.parse = an.parse
           /\ an'.images = an.images /\ an'.manifest = an.manifest
           /\ an'.missing = <<>>
           /\ an'.out = [an.out EXCEPT !.stale = @ \cup Stale(Image),
                        !.warnings = @ \cup {<<"stale", k>> : k \in Stale(Image)}]
           /\ an'.result = an.result /\ an'.seen = an.seen
           /\ an'.allSeen = an.allSeen /\ an'.refs = an.refs
           /\ UNCHANGED <<world, input>>
           /\ an.pc = "stale"
<1>1. /\ an' = [an EXCEPT !.pc = "look", !.done = 0, !.missing = <<>>,
                 !.out.stale = @ \cup Stale(Image),
                 !.out.warnings = @ \cup {<<"stale", k>> : k \in Stale(Image)}]
      /\ an.pc = "stale" /\ UNCHANGED <<world, input>>
  BY DEF CheckStale
<1>2. an.out \in Results
  BY AnTypes
<1>. QED
  BY <1>1, <1>2, AnTypes DEF Analyses, Results

\* A lookup that raises ends the request.
LEMMA LookupRaisesStep ==
    ASSUME TypeOK, LookupRaises
    PROVE  /\ an' \in Analyses /\ an'.pc = "failed" /\ an.pc \in {"image", "stale"}
           /\ an'.result = an.result /\ an'.allSeen = an.allSeen
           /\ UNCHANGED <<world, input>>
<1>1. /\ an' = [an EXCEPT !.pc = "failed"] /\ an.pc \in {"image", "stale"}
      /\ UNCHANGED <<world, input>>
  BY DEF LookupRaises
<1>. QED
  BY <1>1, AnTypes DEF Analyses

LEMMA LookStep ==
    ASSUME TypeOK, Look
    PROVE  /\ an'.pc = an.pc /\ an'.services = an.services
           /\ an'.service = an.service /\ an'.done = an.done + 1
           /\ an'.parse = an.parse /\ an'.images = an.images
           /\ an'.manifest = an.manifest
           /\ an'.missing = IF Layers[an.manifest][an.done + 1] \in an.seen \cup blobs
                            THEN an.missing
                            ELSE Append(an.missing, Layers[an.manifest][an.done + 1])
           /\ an'.out = an.out /\ an'.result = an.result /\ an'.seen = an.seen
           /\ an'.allSeen = an.allSeen /\ an'.refs = an.refs
           /\ UNCHANGED <<world, input>>
           /\ an.pc = "look" /\ an.done < Len(Layers[an.manifest])
  BY AnTypes DEF Look, Analyses

LEMMA LookedStep ==
    ASSUME TypeOK, Looked
    PROVE  /\ an'.pc = "image" /\ an'.services = an.services
           /\ an'.service = an.service /\ an'.done = an.done
           /\ an'.parse = an.parse /\ an'.images = Tail(an.images)
           /\ an'.manifest = NotCached /\ an'.missing = an.missing
           /\ an'.out = [an.out EXCEPT !.present = @ \cup ((ToSet(Layers[an.manifest]) \ an.seen)
                                                 \ ToSet(an.missing)),
                        !.missing = @ \o an.missing]
           /\ an'.result = an.result
           /\ an'.seen = an.seen \cup (ToSet(Layers[an.manifest]) \ an.seen)
           /\ an'.allSeen = an.allSeen /\ an'.refs = an.refs
           /\ UNCHANGED <<world, input>>
           /\ an.pc = "look" /\ an.done = Len(Layers[an.manifest])
  BY AnTypes DEF Looked, NextImage, Analyses

LEMMA EndServiceStep ==
    ASSUME TypeOK, EndService
    PROVE  /\ an'.pc = "service" /\ an'.services = an.services
           /\ an'.service = an.service /\ an'.done = an.done
           /\ an'.parse = an.parse /\ an'.images = an.images
           /\ an'.manifest = an.manifest /\ an'.missing = an.missing
           /\ an'.out = an.out /\ an'.result = an.out /\ an'.seen = an.seen
           /\ an'.allSeen = an.seen /\ an'.refs = an.refs
           /\ UNCHANGED <<world, input>>
           /\ an.pc = "image" /\ an.images = <<>>
  BY AnTypes DEF EndService, Analyses

LEMMA EndDockerfileStep ==
    ASSUME TypeOK, EndDockerfile
    PROVE  /\ an'.pc = "merge" /\ an'.services = an.services
           /\ an'.service = an.service /\ an'.done = 0 /\ an'.parse = an.parse
           /\ an'.images = an.images /\ an'.manifest = an.manifest
           /\ an'.missing = an.missing /\ an'.out = an.out
           /\ an'.result = Merge(an.result, an.out) /\ an'.seen = an.seen
           /\ an'.allSeen = an.allSeen /\ an'.refs = an.refs
           /\ UNCHANGED <<world, input>>
           /\ an.pc = "image" /\ an.images = <<>> /\ input.compose
  BY AnTypes DEF EndDockerfile, Analyses

LEMMA MergeMissingStep ==
    ASSUME TypeOK, MergeMissing, NEW d, d = an.out.missing[an.done + 1]
    PROVE  /\ an'.pc = an.pc /\ an'.services = an.services
           /\ an'.service = an.service /\ an'.done = an.done + 1
           /\ an'.parse = an.parse /\ an'.images = an.images
           /\ an'.manifest = an.manifest /\ an'.missing = an.missing
           /\ an'.out = an.out
           /\ an'.result = [an.result EXCEPT !.missing =
                           IF d \in an.allSeen THEN @ ELSE Append(@, d)]
           /\ an'.seen = an.seen /\ an'.allSeen = an.allSeen \cup {d}
           /\ an'.refs = an.refs
           /\ UNCHANGED <<world, input>>
           /\ an.pc = "merge" /\ an.done < Len(an.out.missing)
<1>1. /\ an' = [an EXCEPT !.done = @ + 1,
                 !.result.missing = IF d \in an.allSeen THEN @ ELSE Append(@, d),
                 !.allSeen = @ \cup {d}]
      /\ an.pc = "merge" /\ an.done < Len(an.out.missing)
      /\ UNCHANGED <<world, input>>
  BY DEF MergeMissing, MergeOne
<1>. QED
  BY <1>1, AnTypes DEF Analyses

LEMMA MergedStep ==
    ASSUME TypeOK, Merged
    PROVE  /\ an'.pc = "service" /\ an'.services = an.services
           /\ an'.service = an.service /\ an'.done = an.done
           /\ an'.parse = an.parse /\ an'.images = an.images
           /\ an'.manifest = an.manifest /\ an'.missing = an.missing
           /\ an'.out = an.out /\ an'.result = an.result /\ an'.seen = an.seen
           /\ an'.allSeen = an.allSeen /\ an'.refs = an.refs
           /\ UNCHANGED <<world, input>>
           /\ an.pc = "merge" /\ an.done = Len(an.out.missing)
  BY AnTypes DEF Merged, Analyses

LEMMA EndAnalysisStep ==
    ASSUME TypeOK, EndAnalysis
    PROVE  /\ an'.pc = "done" /\ an'.services = an.services
           /\ an'.service = an.service /\ an'.done = an.done
           /\ an'.parse = an.parse /\ an'.images = an.images
           /\ an'.manifest = an.manifest /\ an'.missing = an.missing
           /\ an'.out = an.out /\ an'.result = an.result /\ an'.seen = an.seen
           /\ an'.allSeen = an.allSeen /\ an'.refs = an.refs
           /\ UNCHANGED <<world, input>>
           /\ an.pc = "service" /\ an.services = <<>>
  BY AnTypes DEF EndAnalysis, Analyses

LEMMA NextImageStep ==
    ASSUME TypeOK, NEW out, an' = NextImage(out)
    PROVE  /\ an'.pc = "image" /\ an'.services = an.services
           /\ an'.service = an.service /\ an'.done = an.done
           /\ an'.parse = an.parse /\ an'.images = Tail(an.images)
           /\ an'.manifest = NotCached /\ an'.missing = an.missing
           /\ an'.out = out /\ an'.result = an.result /\ an'.seen = an.seen
           /\ an'.allSeen = an.allSeen /\ an'.refs = an.refs
  BY AnTypes DEF NextImage, Analyses

\* A line parsed, a warning, or the end of the request.
LEMMA ParseDockerfileStep ==
    ASSUME TypeOK, ParseDockerfile, NEW p,
           p = ParseLine(an.service.file[an.done + 1], input.args, an.parse)
    PROVE  /\ an.pc = "parse" /\ an.done < Len(an.service.file)
           /\ UNCHANGED <<world, input>>
           /\ an'.services = an.services /\ an'.service = an.service
           /\ an'.images = an.images /\ an'.allSeen = an.allSeen
           /\ \/ /\ ~p.error /\ an'.pc = "parse" /\ an'.done = an.done + 1
                 /\ an'.parse = p /\ an'.result = an.result
              \/ /\ input.compose /\ an'.pc = "service"
                 /\ an'.result = [an.result EXCEPT !.warnings =
                                    @ \cup {<<"service", an.service>>}]
              \/ ~input.compose /\ an'.pc = "failed" /\ an'.result = an.result
<1>1. /\ an.pc = "parse" /\ an.done < Len(an.service.file)
      /\ UNCHANGED <<world, input>>
      /\ \/ /\ ~p.error
            /\ an' = [an EXCEPT !.done = @ + 1, !.parse = p]
         \/ /\ input.compose
            /\ an' = [an EXCEPT !.pc = "service", !.parse = NoParse,
                       !.result.warnings = @ \cup {<<"service", an.service>>}]
         \/ /\ ~input.compose
            /\ an' = [an EXCEPT !.pc = "failed"]
  BY DEF ParseDockerfile
<1>2. CASE ~p.error /\ an' = [an EXCEPT !.done = @ + 1, !.parse = p]
  BY <1>1, <1>2, AnTypes DEF Analyses
<1>3. CASE input.compose
           /\ an' = [an EXCEPT !.pc = "service", !.parse = NoParse,
                       !.result.warnings = @ \cup {<<"service", an.service>>}]
  BY <1>1, <1>3, AnTypes DEF Analyses
<1>4. CASE ~input.compose /\ an' = [an EXCEPT !.pc = "failed"]
  BY <1>1, <1>4, AnTypes DEF Analyses
<1>. QED
  BY <1>1, <1>2, <1>3, <1>4

\* An image that is internal or not cached is passed over; of another the
\* manifest is found.
LEMMA FindManifestStep ==
    ASSUME TypeOK, FindManifest
    PROVE  /\ an.pc = "image" /\ an.images # <<>> /\ UNCHANGED <<world, input>>
           /\ an'.services = an.services /\ an'.service = an.service
           /\ an'.result = an.result /\ an'.allSeen = an.allSeen
           /\ an'.seen = an.seen
           /\ \/ /\ an'.pc = "image" /\ an'.images = Tail(an.images)
                 /\ \/ Image.internal /\ an'.out = an.out
                    \/ an'.out = [an.out EXCEPT !.warnings =
                          @ \cup Latest(Image) \cup {<<"uncached", Image>>}]
              \/ /\ an'.pc = "stale" /\ an'.images = an.images
                 /\ an'.manifest \in Lookup(Image)
                 /\ an'.out = [an.out EXCEPT !.warnings = @ \cup Latest(Image)]
<1>1. an.pc = "image" /\ an.images # <<>> /\ UNCHANGED <<world, input>>
  BY DEF FindManifest
<1>2. CASE Image.internal /\ an' = NextImage(an.out)
  BY <1>1, <1>2, NextImageStep
<1>3. CASE an' = NextImage([an.out EXCEPT !.warnings =
                              @ \cup Latest(Image) \cup {<<"uncached", Image>>}])
  BY <1>1, <1>3, NextImageStep
<1>4. CASE \E m \in Lookup(Image) :
             an' = [an EXCEPT !.pc = "stale", !.manifest = m,
                      !.out.warnings = @ \cup Latest(Image)]
  BY <1>1, <1>4, AnTypes DEF Analyses
<1>. QED
  BY <1>2, <1>3, <1>4, Zenon DEF FindManifest

-----------------------------------------------------------------------------
(* The invariant *)

Working == an.pc \in {"image", "stale", "look"}

\* Which service is in hand, and how far the loops have come.
Control ==
    /\ ~input.compose => /\ Len(input.services) = 1
                         /\ input.services[1].kind = "build"
    /\ an.pc = "parse" => /\ an.service.kind = "build"
                          /\ an.done <= Len(an.service.file)
    /\ an.pc = "merge" => /\ an.images = <<>>
                          /\ an.done <= Len(an.out.missing)
    /\ an.pc \in {"stale", "look"} => /\ an.images # <<>>
                                      /\ an.manifest \in Manifests
    /\ an.pc = "look" => an.done <= Len(Layers[an.manifest])

\* What merging will have brought into the result.
Merging == IF an.pc = "merge" THEN ToSet(an.out.missing) ELSE {}

\* Found and Covered, given what has been cached and what is over the TTL.
FoundIn(image, h) ==
    IF image.digest # <<>>
      THEN {m \in {x[2] : x \in h} \ NoManifest : <<SourceOf[m]>> = image.digest}
      ELSE {x[2] : x \in {y \in h : y[1] = Key(image)}} \ NoManifest
Warned(image, warnings, old) ==
    image.tag # <<>> /\ Key(image) \in old
      => <<"stale", Key(image)>> \in warnings
CoveredIn(image, warnings, digests, h, old) ==
    \/ <<"uncached", image>> \in warnings
    \/ /\ \E m \in FoundIn(image, h) : ToSet(Layers[m]) \subseteq digests
       /\ Warned(image, warnings, old)
AllCovered(r, left, digests, h, old) ==
    \A image \in ToSet(r.images) :
      \/ image.internal \/ image \in left
      \/ CoveredIn(image, r.warnings, digests, h, old)

\* The result covers the images of the services that are done, and that of the
\* service in hand its images, but those that are still to be done.
HeldInv == \A k \in Keys : <<k, cache[k]>> \in held
ResultInv ==
    /\ AllCovered(an.result, {}, Digests(an.result) \cup Merging, held, aged)
    /\ an.allSeen \subseteq Digests(an.result)
MergeInv ==
    an.pc = "merge" => \A i \in 1 .. an.done : an.out.missing[i] \in an.allSeen
OutInv ==
    Working => /\ an.seen \subseteq Digests(an.out)
               /\ AllCovered(an.out, ToSet(an.images), Digests(an.out), held, aged)
ManifestInv ==
    /\ an.pc \in {"stale", "look"} => an.manifest \in FoundIn(Image, held)
    /\ an.pc = "look" => Warned(Image, an.out.warnings, aged)
CoverInv == HeldInv /\ ResultInv /\ MergeInv /\ OutInv /\ ManifestInv

\* A result is true of the store, but for what other threads touched.
Honest(r, stored, changed) ==
    /\ \A d \in ToSet(r.missing) : d \notin stored \/ d \in changed
    /\ \A d \in r.present : d \in stored \/ d \in changed

\* Nothing is missing more often than a manifest lists it.
Listed(r) ==
    \A d \in Blobs : \E m \in Manifests :
      Times(d, r.missing) <= Times(d, Layers[m])

\* How often a digest is among the first n of a manifest.
Before(d, m, n) == Cardinality({i \in 1 .. n : Layers[m][i] = d})

ResultTruth ==
    /\ Honest(an.result, blobs, touched) /\ Listed(an.result)
    /\ ToSet(an.result.missing) \subseteq an.allSeen
OutTruth ==
    Working \/ an.pc = "merge" =>
      /\ Honest(an.out, blobs, touched) /\ Listed(an.out)
      /\ ToSet(an.out.missing) \subseteq an.seen
LookTruth ==
    an.pc = "look" =>
      /\ ToSet(an.missing) \cap an.seen = {}
      /\ \A d \in ToSet(an.missing) : d \notin blobs \/ d \in touched
      /\ \A i \in 1 .. an.done :
           Layers[an.manifest][i] \in an.seen \cup ToSet(an.missing)
                                        \cup blobs \cup touched
      /\ \A d \in Blobs :
           Times(d, an.missing) <= Before(d, an.manifest, an.done)
TruthInv == ResultTruth /\ OutTruth /\ LookTruth

\* A Dockerfile of which n lines are parsed: its stages, their bases and
\* platforms as the parser reads them, and those that have a name for it.
Stages(file, n) == {i \in Froms(file) : i <= n}
Base(file, i, args) == Substitute(file[i].ref, args, input.args)
Platform(file, i, args) == Substitute(file[i].platform, args, input.args)
Kept(file, n, args) == {i \in Stages(file, n) : ~Scratch(Base(file, i, args))}
Aliases(file, n, args) ==
    {Lower(file[i].as) : i \in {j \in Kept(file, n, args) : file[j].as # <<>>}}
Named(file, i, args) ==
    ResolvedImage(Base(file, i, args), Platform(file, i, args),
                  Lower(Base(file, i, args)) \in Aliases(file, i - 1, args))

\* The last default among the first n lines, or the build argument.
Argument(file, n, v, value) ==
    LET decl == {i \in Declares(file, v) : i <= n} IN
    IF decl = {} THEN value = NoValue
    ELSE IF input.args[v] # NoValue THEN value = input.args[v]
    ELSE \E i \in decl : (\A j \in decl : j <= i) /\ value = file[i].default

ParserInv(file, n, p) ==
    /\ ~p.error
    /\ p.from <=> Stages(file, n) # {}
    /\ \A v \in Vars : Argument(file, n, v, p.args[v])
    /\ p.aliases = Aliases(file, n, p.args)
    /\ ToSet(p.images) = {Named(file, i, p.args) : i \in Kept(file, n, p.args)}

\* A request that is one Dockerfile: it is parsed once, and the images of its
\* result are those that docker build pulls.
ParseInv == an.pc = "parse" => ParserInv(an.service.file, an.done, an.parse)
OneFile ==
    LET file == input.services[1].file IN
    /\ an.pc = "parse" => an.services = <<>> /\ an.service = input.services[1]
    /\ Working => an.services = <<>> /\ AsBuilt(an.out.images, file)
    /\ an.pc = "service" => \/ an.services = input.services
                            \/ an.services = <<>> /\ AsBuilt(an.result.images, file)
    /\ an.pc = "done" => AsBuilt(an.result.images, file)
    /\ an.pc # "merge"
BuiltInv == ParseInv /\ (~input.compose => OneFile)

-----------------------------------------------------------------------------
(* Types and control *)

LEMMA ControlInit == Init => Control
<1>. SUFFICES ASSUME Init PROVE Control
  OBVIOUS
<1>1. \E s \in Scenarios : input = s.input
  BY Zenon DEF Init
<1>2. ~input.compose => Len(input.services) = 1 /\ input.services[1].kind = "build"
  BY <1>1, RequestFacts, Zenon
<1>3. an.pc = "service"
  BY DEF Init, Start
<1>. QED
  BY <1>2, <1>3 DEF Control

\* The analysis leaves the store, the cache and the request alone.
LEMMA AnalysisKeeps == Analysis => UNCHANGED <<world, input>>
  BY DEF Analysis, SkipService, ResolveImageRef, ResolveDockerfile,
         ParseDockerfile, Parsed, FindManifest, LookupRaises, CheckStale, Look,
         Looked, EndService, EndDockerfile, MergeMissing, Merged, EndAnalysis

LEMMA AnalysisType == TypeOK /\ Control /\ Analysis => an' \in Analyses
<1>. SUFFICES ASSUME TypeOK, Control, Analysis PROVE an' \in Analyses
  OBVIOUS
<1>1. CASE CheckStale
  BY <1>1, CheckStaleType DEF CheckStale, Control
<1>2. CASE Look
  BY <1>2, LookType DEF Look, Control
<1>3. CASE Looked
  BY <1>3, LookedType DEF Looked, Control
<1>. QED
  BY <1>1, <1>2, <1>3, SkipServiceType, ResolveImageRefType,
     ResolveDockerfileType, ParseDockerfileType, ParsedType, FindManifestType,
     LookupRaisesStep, EndTypes, Zenon
     DEF Analysis

LEMMA TypeNext == TypeOK /\ Control /\ [Next]_vars => TypeOK'
<1>. SUFFICES ASSUME TypeOK, Control, [Next]_vars PROVE TypeOK'
  OBVIOUS
<1>1. CASE Analysis
  <2>1. an' \in Analyses
    BY <1>1, AnalysisType
  <2>. QED
    BY <1>1, <2>1, AnalysisKeeps DEF TypeOK, world
<1>2. CASE \E d \in Blobs : Change(d)
  <2>1. PICK d \in Blobs : Change(d)
    BY <1>2
  <2>2. changes' \in 0 .. MaxChanges
    BY <2>1, LayerFacts DEF Change, TypeOK
  <2>. QED
    BY <2>1, <2>2 DEF Change, TypeOK
<1>3. CASE \E k \in Keys, m \in Manifests \cup {Torn} : Recache(k, m)
  <2>1. PICK k \in Keys, m \in Manifests \cup {Torn} : Recache(k, m)
    BY <1>3
  <2>2. changes' \in 0 .. MaxChanges
    BY <2>1, LayerFacts DEF Recache, TypeOK
  <2>3. cache' \in [Keys -> Manifests \cup NoManifest]
        /\ \A x \in Keys : x # k => cache'[x] = cache[x]
    BY <2>1 DEF Recache, TypeOK, NoManifest
  <2>4. aged' \subseteq {x \in Keys : cache'[x] # NotCached}
    BY <2>1, <2>3 DEF Recache, TypeOK
  <2>5. held' \subseteq Keys \X (Manifests \cup NoManifest)
    BY <2>1 DEF Recache, TypeOK, NoManifest
  <2>. QED
    BY <2>1, <2>2, <2>3, <2>4, <2>5 DEF Recache, TypeOK
<1>4. CASE UNCHANGED vars
  BY <1>4 DEF vars, TypeOK
<1>. QED
  BY <1>1, <1>2, <1>3, <1>4 DEF Next, Answered

\* The other threads leave the analysis and the request alone.
LEMMA OthersKeep ==
    ASSUME [Next]_vars, ~Analysis
    PROVE  an' = an /\ input' = input
  BY DEF Next, Answered, Change, Recache, vars

LEMMA ControlNext == TypeOK /\ Control /\ [Next]_vars => Control'
<1>. SUFFICES ASSUME TypeOK, Control, [Next]_vars PROVE Control'
  OBVIOUS
<1>0. CASE ~Analysis
  BY <1>0, OthersKeep DEF Control
<1>. SUFFICES ASSUME Analysis PROVE Control'
  BY <1>0
<1>1. input' = input
  BY AnalysisKeeps
<1>2. CASE SkipService
  BY <1>1, <1>2, SkipServiceStep DEF Control
<1>3. CASE ResolveImageRef
  BY <1>1, <1>3, ResolveImageRefStep DEF Control
<1>4. CASE ResolveDockerfile
  <2>1. Head(an.services) \in Services
    BY <1>4, AnTypes, HeadType DEF ResolveDockerfile
  <2>2. Head(an.services).file \in Seq(Lines)
    BY <2>1, ServiceType
  <2>3. 0 <= Len(Head(an.services).file)
    BY <2>2
  <2>. QED
    BY <1>1, <1>4, <2>3, ResolveDockerfileStep DEF Control
<1>5. CASE ParseDockerfile
  <2>1. Len(an.service.file) \in Nat /\ an.done \in Nat
    BY AnTypes, ServiceType
  <2>. QED
    BY <1>1, <1>5, <2>1, ParseDockerfileStep DEF Control
<1>6. CASE Parsed
  BY <1>1, <1>6, ParsedStep DEF Control
<1>7. CASE FindManifest
  <2>1. an'.pc = "stale" => an'.images # <<>> /\ an'.manifest \in Manifests
    BY <1>7, FindManifestStep, LookupType
  <2>. QED
    BY <1>1, <1>7, <2>1, FindManifestStep DEF Control
<1>8. CASE CheckStale
  <2>1. an.images # <<>> /\ an.manifest \in Manifests
    BY <1>8, CheckStaleStep DEF Control
  <2>2. 0 <= Len(Layers[an.manifest])
    BY <2>1, LayerFacts
  <2>. QED
    BY <1>1, <1>8, <2>1, <2>2, CheckStaleStep DEF Control
<1>9. CASE Look
  <2>1. an.images # <<>> /\ an.manifest \in Manifests /\ an.done \in Nat
    BY <1>9, LookStep, AnTypes DEF Control
  <2>2. Len(Layers[an.manifest]) \in Nat
    BY <2>1, LayerFacts
  <2>. QED
    BY <1>1, <1>9, <2>1, <2>2, LookStep DEF Control
<1>10. CASE Looked
  BY <1>1, <1>10, LookedStep DEF Control
<1>11. CASE EndService
  BY <1>1, <1>11, EndServiceStep DEF Control
<1>12. CASE EndDockerfile
  <2>1. 0 <= Len(an.out.missing)
    BY AnTypes, ResultType
  <2>. QED
    BY <1>1, <1>12, <2>1, EndDockerfileStep DEF Control
<1>13. CASE MergeMissing
  <2>1. Len(an.out.missing) \in Nat /\ an.done \in Nat
    BY AnTypes, ResultType
  <2>2. PICK d : d = an.out.missing[an.done + 1]
    OBVIOUS
  <2>3. /\ an'.pc = "merge" /\ an'.done = an.done + 1 /\ an'.out = an.out
        /\ an'.images = an.images /\ an.done < Len(an.out.missing)
        /\ an.pc = "merge"
    BY <1>13, <2>2, MergeMissingStep
  <2>. QED
    BY <1>1, <2>1, <2>3 DEF Control
<1>14. CASE Merged
  BY <1>1, <1>14, MergedStep DEF Control
<1>15. CASE EndAnalysis
  BY <1>1, <1>15, EndAnalysisStep DEF Control
<1>16. CASE LookupRaises
  BY <1>1, <1>16, LookupRaisesStep DEF Control
<1>. QED
  BY <1>2, <1>3, <1>4, <1>5, <1>6, <1>7, <1>8, <1>9, <1>10, <1>11, <1>12, <1>13,
     <1>14, <1>15, <1>16 DEF Analysis

\* Types: every list, set and counter of the analysis stays what it is meant to
\* be for every request; resolve_compose and resolve_dockerfile.
THEOREM ResolverTypes == Spec => [](TypeOK /\ Control)
<1>1. Init => TypeOK /\ Control
  BY TypeInit, ControlInit
<1>2. TypeOK /\ Control /\ [Next]_vars => (TypeOK /\ Control)'
  BY TypeNext, ControlNext
<1>. QED
  BY <1>1, <1>2, PTL DEF Spec

-----------------------------------------------------------------------------
(* Nothing is overlooked *)

LEMMA ElementsOf ==
    ASSUME NEW S, NEW s \in Seq(S)
    PROVE  /\ \A e \in S : ToSet(Append(s, e)) = ToSet(s) \cup {e}
           /\ \A t \in Seq(S) : ToSet(s \o t) = ToSet(s) \cup ToSet(t)
           /\ s # <<>> => ToSet(s) = {Head(s)} \cup ToSet(Tail(s))
           /\ \A e \in S : ToSet(<<e>>) = {e}
           /\ ToSet(<<>>) = {}
           /\ ToSet(s) \subseteq S
<1>1. ASSUME NEW e \in S PROVE ToSet(Append(s, e)) = ToSet(s) \cup {e}
  <2>. DEFINE r == Append(s, e)
  <2>1. /\ r \in Seq(S) /\ Len(r) = Len(s) + 1 /\ r[Len(s) + 1] = e
        /\ \A i \in 1 .. Len(s) : r[i] = s[i]
    BY AppendProperties
  <2>2. Len(s) \in Nat /\ DOMAIN s = 1 .. Len(s) /\ DOMAIN r = 1 .. Len(s) + 1
    BY <2>1
  <2>. HIDE DEF r
  <2>. QED
    BY <2>1, <2>2 DEF ToSet
<1>2. ASSUME NEW t \in Seq(S) PROVE ToSet(s \o t) = ToSet(s) \cup ToSet(t)
  <2>. DEFINE r == s \o t
  <2>1. /\ r \in Seq(S) /\ Len(r) = Len(s) + Len(t)
        /\ \A i \in 1 .. Len(s) + Len(t) :
             r[i] = IF i <= Len(s) THEN s[i] ELSE t[i - Len(s)]
    BY ConcatProperties
  <2>2. /\ Len(s) \in Nat /\ DOMAIN s = 1 .. Len(s)
        /\ Len(t) \in Nat /\ DOMAIN t = 1 .. Len(t)
        /\ DOMAIN r = 1 .. Len(s) + Len(t)
    BY <2>1
  <2>. HIDE DEF r
  <2>3. \A i \in 1 .. Len(s) : r[i] = s[i]
    BY <2>1, <2>2
  <2>4. \A i \in 1 .. Len(t) : i + Len(s) \in DOMAIN r /\ r[i + Len(s)] = t[i]
    BY <2>1, <2>2
  <2>5. ToSet(s) \cup ToSet(t) \subseteq ToSet(r)
    BY <2>2, <2>3, <2>4 DEF ToSet
  <2>6. ToSet(r) \subseteq ToSet(s) \cup ToSet(t)
    <3>. SUFFICES ASSUME NEW i \in DOMAIN r PROVE r[i] \in ToSet(s) \cup ToSet(t)
      BY DEF ToSet
    <3>1. CASE i <= Len(s)
      BY <2>1, <2>2, <3>1 DEF ToSet
    <3>2. CASE ~(i <= Len(s))
      <4>1. i - Len(s) \in 1 .. Len(t) /\ r[i] = t[i - Len(s)]
        BY <2>1, <2>2, <3>2
      <4>. QED
        BY <2>2, <4>1 DEF ToSet
    <3>. QED
      BY <3>1, <3>2
  <2>. QED
    BY <2>5, <2>6 DEF r
<1>3. ASSUME s # <<>> PROVE ToSet(s) = {Head(s)} \cup ToSet(Tail(s))
  <2>. DEFINE r == Tail(s)
  <2>1. /\ r \in Seq(S) /\ Len(r) = Len(s) - 1
        /\ \A i \in 1 .. Len(r) : r[i] = s[i + 1]
    BY <1>3, HeadTailProperties
  <2>2. /\ Len(s) \in Nat \ {0} /\ DOMAIN s = 1 .. Len(s)
        /\ DOMAIN r = 1 .. Len(s) - 1 /\ Head(s) = s[1]
    BY <1>3, <2>1
  <2>. HIDE DEF r
  <2>3. \A i \in 2 .. Len(s) : i - 1 \in DOMAIN r /\ r[i - 1] = s[i]
    BY <2>1, <2>2
  <2>4. ToSet(s) \subseteq {Head(s)} \cup ToSet(r)
    BY <2>2, <2>3 DEF ToSet
  <2>5. {Head(s)} \cup ToSet(r) \subseteq ToSet(s)
    BY <2>1, <2>2 DEF ToSet
  <2>. QED
    BY <2>4, <2>5 DEF r
<1>4. ASSUME NEW e \in S PROVE ToSet(<<e>>) = {e}
  BY DEF ToSet
<1>5. ToSet(<<>>) = {} /\ ToSet(s) \subseteq S
  BY DEF ToSet
<1>. QED
  BY <1>1, <1>2, <1>3, <1>4, <1>5

LEMMA CoverGrows ==
    ASSUME NEW image, NEW w, NEW ds, NEW h, NEW old, NEW w2, NEW ds2, NEW h2,
           NEW old2, w \subseteq w2, ds \subseteq ds2, h \subseteq h2,
           old2 \subseteq old, CoveredIn(image, w, ds, h, old)
    PROVE  CoveredIn(image, w2, ds2, h2, old2)
<1>1. FoundIn(image, h) \subseteq FoundIn(image, h2)
  BY DEF FoundIn
<1>2. Warned(image, w, old) => Warned(image, w2, old2)
  BY DEF Warned
<1>. QED
  BY <1>1, <1>2 DEF CoveredIn

LEMMA AllCoverGrows ==
    ASSUME NEW r, NEW left, NEW ds, NEW h, NEW old,
           NEW r2, NEW left2, NEW ds2, NEW h2, NEW old2,
           ToSet(r2.images) \subseteq ToSet(r.images),
           r.warnings \subseteq r2.warnings, left \subseteq left2,
           ds \subseteq ds2, h \subseteq h2, old2 \subseteq old,
           AllCovered(r, left, ds, h, old)
    PROVE  AllCovered(r2, left2, ds2, h2, old2)
<1>. SUFFICES ASSUME NEW image \in ToSet(r2.images), ~image.internal,
                     image \notin left2
              PROVE  CoveredIn(image, r2.warnings, ds2, h2, old2)
  BY DEF AllCovered
<1>1. CoveredIn(image, r.warnings, ds, h, old)
  BY DEF AllCovered
<1>. QED
  BY <1>1, CoverGrows

LEMMA CoverInit == Init => CoverInv
<1>. SUFFICES ASSUME Init PROVE CoverInv
  OBVIOUS
<1>1. /\ an.pc = "service" /\ an.result = Empty /\ an.allSeen = {}
      /\ held = {<<k, cache[k]>> : k \in Keys}
  BY DEF Init, Start
<1>2. ToSet(Empty.images) = {}
  BY DEF Empty, ToSet
<1>3. ResultInv
  BY <1>1, <1>2 DEF ResultInv, AllCovered
<1>4. HeldInv
  BY <1>1 DEF HeldInv
<1>. QED
  BY <1>1, <1>3, <1>4 DEF CoverInv, MergeInv, OutInv, ManifestInv, Working

\* While other threads import, delete and cache, more manifests have been held
\* and fewer are over the TTL.
LEMMA CoverOthers ==
    TypeOK /\ CoverInv /\ [Next]_vars /\ ~Analysis => CoverInv'
<1>. SUFFICES ASSUME TypeOK, CoverInv, [Next]_vars, ~Analysis PROVE CoverInv'
  OBVIOUS
<1>1. an' = an
  BY OthersKeep
<1>2. held \subseteq held' /\ aged' \subseteq aged /\ HeldInv'
  <2>1. CASE \E d \in Blobs : Change(d)
    BY <2>1 DEF Change, CoverInv, HeldInv
  <2>2. CASE \E k \in Keys, m \in Manifests \cup {Torn} : Recache(k, m)
    <3>1. PICK k \in Keys, m \in Manifests \cup {Torn} : Recache(k, m)
      BY <2>2
    <3>2. \A x \in Keys : cache'[x] = IF x = k THEN m ELSE cache[x]
      BY <3>1 DEF Recache, TypeOK
    <3>. QED
      BY <3>1, <3>2 DEF Recache, CoverInv, HeldInv
  <2>3. CASE UNCHANGED vars
    BY <2>3 DEF vars, CoverInv, HeldInv
  <2>. QED
    BY <2>1, <2>2, <2>3 DEF Next, Answered
<1>3. ResultInv'
  <2>. DEFINE ds == Digests(an.result) \cup Merging
  <2>1. AllCovered(an.result, {}, ds, held, aged) /\ an.allSeen \subseteq Digests(an.result)
    BY DEF CoverInv, ResultInv
  <2>2. AllCovered(an.result, {}, ds, held', aged')
    <3>. HIDE DEF ds
    <3>. QED
      BY <1>2, <2>1, AllCoverGrows
  <2>3. ds = (Digests(an.result) \cup Merging)'
    BY <1>1 DEF Merging
  <2>. QED
    BY <1>1, <2>1, <2>2, <2>3 DEF ResultInv, Merging
<1>4. OutInv'
  <2>. SUFFICES ASSUME Working PROVE OutInv'
    BY <1>1 DEF OutInv, Working
  <2>1. /\ AllCovered(an.out, ToSet(an.images), Digests(an.out), held, aged)
        /\ an.seen \subseteq Digests(an.out)
    BY DEF CoverInv, OutInv
  <2>2. AllCovered(an.out, ToSet(an.images), Digests(an.out), held', aged')
    BY <1>2, <2>1, AllCoverGrows
  <2>. QED
    BY <1>1, <2>1, <2>2 DEF OutInv
<1>5. ManifestInv'
  <2>1. FoundIn(Image, held) \subseteq FoundIn(Image, held') /\ Image' = Image
    BY <1>1, <1>2 DEF FoundIn, Image
  <2>2. Warned(Image, an.out.warnings, aged) => Warned(Image, an.out.warnings, aged')
    BY <1>2 DEF Warned
  <2>. QED
    BY <1>1, <2>1, <2>2 DEF CoverInv, ManifestInv
<1>. QED
  BY <1>1, <1>2, <1>3, <1>4, <1>5 DEF CoverInv, MergeInv

\* The steps of a service before its images are looked at.
LEMMA CoverStart ==
    ASSUME TypeOK, CoverInv,
           SkipService \/ ResolveImageRef \/ ResolveDockerfile
             \/ ParseDockerfile \/ Parsed
    PROVE  CoverInv'
<1>1. held' = held /\ aged' = aged /\ cache' = cache
  BY SkipServiceStep, ResolveImageRefStep, ResolveDockerfileStep,
     ParseDockerfileStep, ParsedStep DEF world
<1>2. HeldInv'
  BY <1>1 DEF CoverInv, HeldInv
<1>3. an.pc \in {"service", "parse"} => Merging = {}
  BY DEF Merging
<1>4. CASE SkipService
  BY <1>1, <1>2, <1>4, SkipServiceStep
     DEF CoverInv, ResultInv, MergeInv, OutInv, ManifestInv, Merging, Working
<1>5. CASE ResolveImageRef
  <2>. DEFINE image == ResolvedImage(Head(an.services).ref, <<>>, FALSE)
  <2>1. Head(an.services) \in Services
    BY <1>5, AnTypes, HeadType DEF ResolveImageRef
  <2>2. image \in Images
    BY <2>1, ServiceType, TextFacts, ImageType
  <2>3. /\ an'.out = [an.result EXCEPT !.images = Append(@, image)]
        /\ an'.images = <<image>> /\ an'.seen = an.allSeen /\ an'.pc = "image"
        /\ an'.result = an.result /\ an'.allSeen = an.allSeen /\ an.pc = "service"
    BY <1>5, ResolveImageRefStep
  <2>. HIDE DEF image
  <2>4. /\ an'.out.images = Append(an.result.images, image)
        /\ an'.out.warnings = an.result.warnings
        /\ Digests(an'.out) = Digests(an.result)
    BY <2>3, AnTypes DEF Results, Digests
  <2>5. /\ ToSet(an'.out.images) = ToSet(an.result.images) \cup {image}
        /\ ToSet(an'.images) = {image}
    BY <2>2, <2>3, <2>4, AnTypes, ResultType, ElementsOf
  <2>6. AllCovered(an'.out, {image}, Digests(an'.out), held, aged)
    BY <1>3, <2>3, <2>4, <2>5 DEF CoverInv, ResultInv, AllCovered
  <2>. QED
    BY <1>1, <1>2, <2>3, <2>4, <2>5, <2>6
       DEF CoverInv, ResultInv, MergeInv, OutInv, ManifestInv, Merging, Working
<1>6. CASE ResolveDockerfile
  BY <1>1, <1>2, <1>6, ResolveDockerfileStep
     DEF CoverInv, ResultInv, MergeInv, OutInv, ManifestInv, Merging, Working
<1>7. CASE ParseDockerfile
  <2>1. PICK p : p = ParseLine(an.service.file[an.done + 1], input.args, an.parse)
    OBVIOUS
  <2>2. /\ an.pc = "parse" /\ an'.pc \in {"parse", "service", "failed"}
        /\ an'.allSeen = an.allSeen
        /\ \/ an'.result = an.result
           \/ an'.result = [an.result EXCEPT !.warnings =
                              @ \cup {<<"service", an.service>>}]
    BY <1>7, <2>1, ParseDockerfileStep
  <2>3. /\ an'.result.images = an.result.images
        /\ an.result.warnings \subseteq an'.result.warnings
        /\ Digests(an'.result) = Digests(an.result)
    BY <2>2, AnTypes DEF Results, Digests
  <2>4. Merging' = {}
    BY <2>2 DEF Merging
  <2>5. AllCovered(an.result, {}, Digests(an.result) \cup {}, held, aged)
    BY <1>3, <2>2 DEF CoverInv, ResultInv
  <2>6. AllCovered(an'.result, {}, Digests(an'.result) \cup {}, held, aged)
    BY <2>3, <2>5, AllCoverGrows
  <2>. QED
    BY <1>1, <1>2, <2>2, <2>3, <2>4, <2>6
       DEF CoverInv, ResultInv, MergeInv, OutInv, ManifestInv, Working
<1>8. CASE Parsed
  <2>1. /\ an'.pc = "image" /\ an'.seen = {} /\ an'.images = an.parse.images
        /\ an'.out = [Empty EXCEPT !.images = an.parse.images]
        /\ an'.result = an.result /\ an'.allSeen = an.allSeen /\ an.pc = "parse"
    BY <1>8, ParsedStep
  <2>2. an'.out.images = an'.images
    BY <2>1 DEF Empty
  <2>3. OutInv'
    BY <2>1, <2>2 DEF OutInv, AllCovered
  <2>. QED
    BY <1>1, <1>2, <2>1, <2>3
       DEF CoverInv, ResultInv, MergeInv, ManifestInv, Merging
<1>. QED
  BY <1>4, <1>5, <1>6, <1>7, <1>8

\* One image after the other.
LEMMA CoverWork ==
    ASSUME TypeOK, Control, CoverInv, FindManifest \/ CheckStale \/ Look \/ Looked
    PROVE  CoverInv'
<1>1. held' = held /\ aged' = aged /\ cache' = cache
      /\ an'.result = an.result /\ an'.allSeen = an.allSeen
      /\ an.pc # "merge" /\ an'.pc # "merge" /\ Working
  BY FindManifestStep, CheckStaleStep, LookStep, LookedStep DEF world, Working
<1>2. HeldInv' /\ ResultInv' /\ MergeInv'
  BY <1>1 DEF CoverInv, HeldInv, ResultInv, MergeInv, Merging
<1>3. an.seen \subseteq Digests(an.out)
      /\ AllCovered(an.out, ToSet(an.images), Digests(an.out), held, aged)
  BY <1>1 DEF CoverInv, OutInv
<1>4. an.images # <<>>
  BY FindManifestStep, CheckStaleStep, LookStep, LookedStep DEF Control
<1>5. ToSet(an.images) = {Image} \cup ToSet(Tail(an.images))
  BY <1>4, AnTypes, ElementsOf DEF Image
<1>6. CASE FindManifest
  <2>0. an'.seen = an.seen
    BY <1>6, FindManifestStep
  <2>1. CASE an'.pc = "image" /\ an'.images = Tail(an.images)
             /\ Image.internal /\ an'.out = an.out
    <3>1. AllCovered(an.out, ToSet(Tail(an.images)), Digests(an.out), held, aged)
      BY <1>3, <1>5, <2>1 DEF AllCovered
    <3>2. OutInv'
      BY <1>1, <1>3, <2>0, <2>1, <3>1 DEF OutInv
    <3>. QED
      BY <1>2, <2>1, <3>2 DEF CoverInv, ManifestInv
  <2>2. CASE an'.pc = "image" /\ an'.images = Tail(an.images)
             /\ an'.out = [an.out EXCEPT !.warnings =
                  @ \cup Latest(Image) \cup {<<"uncached", Image>>}]
    <3>1. /\ an'.out.images = an.out.images
          /\ an.out.warnings \subseteq an'.out.warnings
          /\ <<"uncached", Image>> \in an'.out.warnings
          /\ Digests(an'.out) = Digests(an.out)
      BY <2>2, AnTypes DEF Results, Digests
    <3>2. AllCovered(an'.out, ToSet(an.images), Digests(an'.out), held, aged)
      BY <1>3, <3>1, AllCoverGrows
    <3>3. CoveredIn(Image, an'.out.warnings, Digests(an'.out), held, aged)
      BY <3>1 DEF CoveredIn
    <3>4. AllCovered(an'.out, ToSet(Tail(an.images)), Digests(an'.out), held, aged)
      BY <1>5, <3>2, <3>3 DEF AllCovered
    <3>5. OutInv'
      BY <1>1, <1>3, <2>0, <2>2, <3>1, <3>4 DEF OutInv
    <3>. QED
      BY <1>2, <2>2, <3>5 DEF CoverInv, ManifestInv
  <2>3. CASE an'.pc = "stale" /\ an'.images = an.images
             /\ an'.manifest \in Lookup(Image)
             /\ an'.out = [an.out EXCEPT !.warnings = @ \cup Latest(Image)]
    <3>1. /\ an'.out.images = an.out.images
          /\ an.out.warnings \subseteq an'.out.warnings
          /\ Digests(an'.out) = Digests(an.out)
      BY <2>3, AnTypes DEF Results, Digests
    <3>2. AllCovered(an'.out, ToSet(an.images), Digests(an'.out), held, aged)
      BY <1>3, <3>1, AllCoverGrows
    <3>3. OutInv'
      BY <1>1, <1>3, <2>0, <2>3, <3>1, <3>2 DEF OutInv
    <3>4. an'.manifest \in FoundIn(Image, held)
      <4>1. PICK k \in Keys : an'.manifest = cache[k] /\ For(Image, k, an'.manifest)
        BY <2>3, LookupType
      <4>2. an'.manifest \in Manifests
        BY <2>3, LookupType
      <4>3. <<k, an'.manifest>> \in held /\ an'.manifest \notin NoManifest
        BY <4>1, <4>2, LayerFacts DEF CoverInv, HeldInv
      <4>. QED
        BY <4>1, <4>3 DEF FoundIn, For
    <3>5. ManifestInv'
      BY <1>1, <2>3, <3>4 DEF ManifestInv, Image
    <3>. QED
      BY <1>2, <3>3, <3>5 DEF CoverInv
  <2>. QED
    BY <1>6, <2>1, <2>2, <2>3, FindManifestStep
<1>7. CASE CheckStale
  <2>1. /\ an'.pc = "look" /\ an'.images = an.images /\ an'.manifest = an.manifest
        /\ an'.seen = an.seen /\ an.pc = "stale"
        /\ an'.out = [an.out EXCEPT !.stale = @ \cup Stale(Image),
                        !.warnings = @ \cup {<<"stale", k>> : k \in Stale(Image)}]
    BY <1>7, CheckStaleStep
  <2>2. /\ an'.out.images = an.out.images
        /\ an'.out.warnings = an.out.warnings
                                \cup {<<"stale", k>> : k \in Stale(Image)}
        /\ Digests(an'.out) = Digests(an.out)
    BY <2>1, AnTypes DEF Results, Digests
  <2>3. an.out.warnings \subseteq an'.out.warnings
    BY <2>2
  <2>4. AllCovered(an'.out, ToSet(an.images), Digests(an'.out), held, aged)
    BY <1>3, <2>2, <2>3, AllCoverGrows
  <2>5. OutInv'
    BY <1>1, <1>3, <2>1, <2>2, <2>4 DEF OutInv
  <2>6. Warned(Image, an'.out.warnings, aged)
    BY <2>2 DEF Warned, Stale
  <2>7. ManifestInv'
    BY <1>1, <2>1, <2>6 DEF ManifestInv, CoverInv, Image
  <2>. QED
    BY <1>2, <2>5, <2>7 DEF CoverInv
<1>8. CASE Look
  <2>1. /\ an'.pc = an.pc /\ an'.images = an.images /\ an'.manifest = an.manifest
        /\ an'.seen = an.seen /\ an'.out = an.out
    BY <1>8, LookStep
  <2>2. OutInv' /\ ManifestInv'
    BY <1>1, <1>3, <2>1 DEF OutInv, ManifestInv, CoverInv, Image
  <2>. QED
    BY <1>2, <2>2 DEF CoverInv
<1>9. CASE Looked
  <2>. DEFINE all == ToSet(Layers[an.manifest])
              new == all \ an.seen
  <2>1. /\ an'.pc = "image" /\ an'.images = Tail(an.images) /\ an.pc = "look"
        /\ an'.seen = an.seen \cup new
        /\ an'.out = [an.out EXCEPT !.present = @ \cup (new \ ToSet(an.missing)),
                                    !.missing = @ \o an.missing]
    BY <1>9, LookedStep
  <2>. HIDE DEF all
  <2>2. /\ an'.out.images = an.out.images
        /\ an'.out.warnings = an.out.warnings
        /\ an'.out.present = an.out.present \cup (new \ ToSet(an.missing))
        /\ an'.out.missing = an.out.missing \o an.missing
    BY <2>1, AnTypes DEF Results
  <2>3. ToSet(an'.out.missing) = ToSet(an.out.missing) \cup ToSet(an.missing)
    BY <2>2, AnTypes, ResultType, ElementsOf
  <2>4. Digests(an.out) \cup new \subseteq Digests(an'.out)
    BY <2>2, <2>3 DEF Digests
  <2>5. AllCovered(an'.out, ToSet(an.images), Digests(an'.out), held, aged)
    BY <1>3, <2>2, <2>4, AllCoverGrows
  <2>6. all \subseteq Digests(an'.out)
    BY <1>3, <2>4
  <2>7. CoveredIn(Image, an'.out.warnings, Digests(an'.out), held, aged)
    BY <2>1, <2>2, <2>6 DEF CoveredIn, CoverInv, ManifestInv, all
  <2>8. AllCovered(an'.out, ToSet(Tail(an.images)), Digests(an'.out), held, aged)
    BY <1>5, <2>5, <2>7 DEF AllCovered
  <2>9. OutInv'
    BY <1>1, <1>3, <2>1, <2>4, <2>8 DEF OutInv
  <2>. QED
    BY <1>2, <2>1, <2>9 DEF CoverInv, ManifestInv
<1>. QED
  BY <1>6, <1>7, <1>8, <1>9

\* A result goes into that of all services.
LEMMA CoverEnd ==
    ASSUME TypeOK, Control, CoverInv,
           EndService \/ EndDockerfile \/ MergeMissing \/ Merged \/ EndAnalysis
    PROVE  CoverInv'
<1>1. held' = held /\ aged' = aged /\ cache' = cache
  BY EndServiceStep, EndDockerfileStep, MergedStep, EndAnalysisStep
     DEF world, MergeMissing
<1>2. HeldInv'
  BY <1>1 DEF CoverInv, HeldInv
<1>3. an.pc = "image" /\ an.images = <<>> =>
        /\ an.seen \subseteq Digests(an.out)
        /\ AllCovered(an.out, {}, Digests(an.out), held, aged)
  <2>1. ToSet(<<>>) = {}
    BY DEF ToSet
  <2>. QED
    BY <2>1 DEF CoverInv, OutInv, Working
<1>4. CASE EndService
  <2>1. /\ an'.pc = "service" /\ an'.result = an.out /\ an'.allSeen = an.seen
        /\ an.pc = "image" /\ an.images = <<>>
    BY <1>4, EndServiceStep
  <2>2. Merging' = {} /\ Digests(an.out) \cup {} = Digests(an.out)
    BY <2>1 DEF Merging
  <2>3. ResultInv'
    BY <1>1, <1>3, <2>1, <2>2 DEF ResultInv
  <2>. QED
    BY <1>2, <2>1, <2>3 DEF CoverInv, MergeInv, OutInv, ManifestInv, Working
<1>5. CASE EndDockerfile
  <2>1. /\ an'.pc = "merge" /\ an'.result = Merge(an.result, an.out)
        /\ an'.done = 0 /\ an'.allSeen = an.allSeen /\ an'.out = an.out
        /\ an.pc = "image" /\ an.images = <<>>
    BY <1>5, EndDockerfileStep
  <2>2. /\ an'.result.images = an.result.images \o an.out.images
        /\ an'.result.warnings = an.result.warnings \cup an.out.warnings
        /\ an'.result.present = an.result.present \cup an.out.present
        /\ an'.result.missing = an.result.missing
    BY <2>1, AnTypes DEF Results, Merge
  <2>3. ToSet(an'.result.images) = ToSet(an.result.images) \cup ToSet(an.out.images)
    BY <2>2, AnTypes, ResultType, ElementsOf
  <2>. DEFINE ds == Digests(an'.result) \cup ToSet(an.out.missing)
  <2>4. /\ Digests(an.result) \cup {} \subseteq ds /\ Digests(an.out) \subseteq ds
        /\ Digests(an.result) \subseteq Digests(an'.result)
    BY <2>2 DEF Digests
  <2>5. Merging = {} /\ Merging' = ToSet(an.out.missing)
    BY <2>1 DEF Merging
  <2>6. AllCovered(an.result, {}, Digests(an.result) \cup {}, held, aged)
        /\ an.allSeen \subseteq Digests(an.result)
    BY <2>5 DEF CoverInv, ResultInv
  <2>. HIDE DEF ds
  <2>7. ASSUME NEW image \in ToSet(an'.result.images), ~image.internal
        PROVE  CoveredIn(image, an'.result.warnings, ds, held, aged)
    <3>1. CASE image \in ToSet(an.result.images)
      <4>1. CoveredIn(image, an.result.warnings, Digests(an.result) \cup {},
                      held, aged)
        BY <2>6, <2>7, <3>1 DEF AllCovered
      <4>. QED
        BY <2>2, <2>4, <4>1, CoverGrows
    <3>2. CASE image \in ToSet(an.out.images)
      <4>1. CoveredIn(image, an.out.warnings, Digests(an.out), held, aged)
        BY <1>3, <2>1, <2>7, <3>2 DEF AllCovered
      <4>. QED
        BY <2>2, <2>4, <4>1, CoverGrows
    <3>. QED
      BY <2>3, <3>1, <3>2
  <2>8. AllCovered(an'.result, {}, ds, held, aged)
    BY <2>7 DEF AllCovered
  <2>9. ResultInv'
    BY <1>1, <2>1, <2>4, <2>5, <2>6, <2>8 DEF ResultInv, ds
  <2>. QED
    BY <1>2, <2>1, <2>9 DEF CoverInv, MergeInv, OutInv, ManifestInv, Working
<1>6. CASE MergeMissing
  <2>1. PICK d : d = an.out.missing[an.done + 1]
    OBVIOUS
  <2>2. /\ an'.pc = "merge" /\ an'.done = an.done + 1 /\ an'.out = an.out
        /\ an'.allSeen = an.allSeen \cup {d}
        /\ an'.result = [an.result EXCEPT !.missing =
                           IF d \in an.allSeen THEN @ ELSE Append(@, d)]
        /\ an.pc = "merge" /\ an.done < Len(an.out.missing)
    BY <1>6, <2>1, MergeMissingStep
  <2>3. d \in Blobs /\ an.done \in Nat
    BY <2>1, <2>2, AnTypes, ResultType
  <2>4. /\ an'.result.images = an.result.images
        /\ an'.result.warnings = an.result.warnings
        /\ an'.result.present = an.result.present
        /\ an'.result.missing = IF d \in an.allSeen THEN an.result.missing
                                ELSE Append(an.result.missing, d)
    BY <2>2, AnTypes DEF Results
  <2>5. ToSet(Append(an.result.missing, d)) = ToSet(an.result.missing) \cup {d}
    BY <2>3, AnTypes, ResultType, ElementsOf
  <2>6. /\ Digests(an.result) \subseteq Digests(an'.result)
        /\ d \notin an.allSeen => d \in Digests(an'.result)
    BY <2>4, <2>5 DEF Digests
  <2>7. Merging' = Merging
    BY <2>2 DEF Merging
  <2>8. /\ AllCovered(an.result, {}, Digests(an.result) \cup Merging, held, aged)
        /\ an.allSeen \subseteq Digests(an.result)
    BY DEF CoverInv, ResultInv
  <2>9. AllCovered(an'.result, {}, Digests(an'.result) \cup Merging, held, aged)
    <3>1. Digests(an.result) \cup Merging \subseteq Digests(an'.result) \cup Merging
      BY <2>6
    <3>. QED
      BY <2>4, <2>8, <3>1, AllCoverGrows
  <2>10. ResultInv'
    BY <1>1, <2>2, <2>6, <2>7, <2>8, <2>9 DEF ResultInv
  <2>11. MergeInv'
    BY <2>1, <2>2, <2>3 DEF CoverInv, MergeInv
  <2>. QED
    BY <1>2, <2>2, <2>10, <2>11 DEF CoverInv, OutInv, ManifestInv, Working
<1>7. CASE Merged
  <2>1. /\ an'.pc = "service" /\ an'.result = an.result
        /\ an'.allSeen = an.allSeen
        /\ an.pc = "merge" /\ an.done = Len(an.out.missing)
    BY <1>7, MergedStep
  <2>2. Merging \subseteq Digests(an.result)
    <3>1. \A i \in 1 .. Len(an.out.missing) : an.out.missing[i] \in an.allSeen
      BY <2>1 DEF CoverInv, MergeInv
    <3>2. DOMAIN an.out.missing = 1 .. Len(an.out.missing)
      BY AnTypes, ResultType
    <3>3. ToSet(an.out.missing) \subseteq an.allSeen
      BY <3>1, <3>2 DEF ToSet
    <3>. QED
      BY <2>1, <3>3 DEF Merging, CoverInv, ResultInv
  <2>3. Digests(an.result) \cup Merging = Digests(an.result) \cup {}
        /\ Merging' = {}
    BY <2>1, <2>2 DEF Merging
  <2>4. ResultInv'
    BY <1>1, <2>1, <2>3 DEF CoverInv, ResultInv
  <2>. QED
    BY <1>2, <2>1, <2>4 DEF CoverInv, MergeInv, OutInv, ManifestInv, Working
<1>8. CASE EndAnalysis
  BY <1>1, <1>2, <1>8, EndAnalysisStep
     DEF CoverInv, ResultInv, MergeInv, OutInv, ManifestInv, Merging, Working
<1>. QED
  BY <1>4, <1>5, <1>6, <1>7, <1>8

LEMMA CoverFailed == TypeOK /\ CoverInv /\ LookupRaises => CoverInv'
<1>. SUFFICES ASSUME TypeOK, CoverInv, LookupRaises PROVE CoverInv'
  OBVIOUS
<1>1. /\ an'.pc = "failed" /\ an.pc # "merge" /\ an'.result = an.result
      /\ an'.allSeen = an.allSeen
      /\ held' = held /\ aged' = aged /\ cache' = cache
  BY LookupRaisesStep DEF world
<1>2. HeldInv' /\ ResultInv'
  BY <1>1 DEF CoverInv, HeldInv, ResultInv, Merging
<1>. QED
  BY <1>1, <1>2 DEF CoverInv, MergeInv, OutInv, ManifestInv, Working

LEMMA CoverNext == TypeOK /\ Control /\ CoverInv /\ [Next]_vars => CoverInv'
  BY CoverOthers, CoverStart, CoverWork, CoverFailed, CoverEnd DEF Analysis

\* Nothing is overlooked: when resolve_compose or resolve_dockerfile returns,
\* every image has a warning, or all digests of a manifest that was cached for
\* it are in the result, whatever its services share and other threads do.
THEOREM ResolvesAll == Spec => []NothingOverlooked
<1>1. CoverInv => NothingOverlooked
  <2>. SUFFICES ASSUME CoverInv, Done, NEW image \in External
                PROVE  Covered(image, an.result.warnings, Digests(an.result))
    BY DEF NothingOverlooked
  <2>1. Digests(an.result) \cup Merging = Digests(an.result)
    BY DEF Done, Merging
  <2>2. CoveredIn(image, an.result.warnings, Digests(an.result), held, aged)
    BY <2>1 DEF CoverInv, ResultInv, AllCovered, External
  <2>. QED
    BY <2>2 DEF CoveredIn, FoundIn, Warned, Covered, Found
<1>2. TypeOK /\ Control /\ CoverInv /\ [Next]_vars => CoverInv'
  BY CoverNext
<1>. QED
  BY <1>1, <1>2, CoverInit, ResolverTypes, PTL DEF Spec

-----------------------------------------------------------------------------
(* The result is true *)

\* How often a digest is in a list.
LEMMA TimesType ==
    ASSUME NEW S, NEW s \in Seq(S), NEW d
    PROVE  /\ IsFiniteSet({i \in DOMAIN s : s[i] = d})
           /\ Times(d, s) \in Nat
           /\ d \notin ToSet(s) => Times(d, s) = 0
<1>. DEFINE I == {i \in DOMAIN s : s[i] = d}
<1>1. DOMAIN s = 1 .. Len(s) /\ Len(s) \in Nat
  OBVIOUS
<1>2. IsFiniteSet(1 .. Len(s))
  BY <1>1, FS_Interval
<1>3. IsFiniteSet(I)
  BY <1>1, <1>2, FS_Subset
<1>4. Cardinality(I) \in Nat
  BY <1>3, FS_CardinalityType
<1>5. d \notin ToSet(s) => I = {}
  BY DEF ToSet
<1>. QED
  BY <1>3, <1>4, <1>5, FS_EmptySet DEF Times

LEMMA TimesAppend ==
    ASSUME NEW S, NEW s \in Seq(S), NEW e \in S, NEW d
    PROVE  Times(d, Append(s, e)) = IF e = d THEN Times(d, s) + 1 ELSE Times(d, s)
<1>. DEFINE r == Append(s, e)
            I == {i \in DOMAIN s : s[i] = d}
            J == {i \in DOMAIN r : r[i] = d}
<1>1. /\ DOMAIN s = 1 .. Len(s) /\ Len(s) \in Nat
      /\ DOMAIN r = 1 .. Len(s) + 1 /\ r[Len(s) + 1] = e
      /\ \A i \in 1 .. Len(s) : r[i] = s[i]
  BY AppendProperties
<1>2. IsFiniteSet(I) /\ Len(s) + 1 \notin I
  <2>1. IsFiniteSet(I)
    BY TimesType
  <2>2. Len(s) + 1 \notin I
    BY <1>1
  <2>. QED
    BY <2>1, <2>2
<1>3. Times(d, s) = Cardinality(I) /\ Times(d, r) = Cardinality(J)
  BY DEF Times
<1>. HIDE DEF r
<1>4. CASE e = d
  <2>1. J = I \cup {Len(s) + 1}
    BY <1>1, <1>4
  <2>2. Cardinality(I \cup {Len(s) + 1}) = Cardinality(I) + 1
    BY <1>2, FS_AddElement
  <2>. QED
    BY <1>3, <1>4, <2>1, <2>2 DEF r
<1>5. CASE e # d
  <2>1. J = I
    BY <1>1, <1>5
  <2>. QED
    BY <1>3, <1>5, <2>1 DEF r
<1>. QED
  BY <1>4, <1>5

LEMMA TimesConcat ==
    ASSUME NEW S, NEW s \in Seq(S), NEW t \in Seq(S), NEW d
    PROVE  /\ d \notin ToSet(t) => Times(d, s \o t) = Times(d, s)
           /\ d \notin ToSet(s) => Times(d, s \o t) <= Times(d, t)
<1>. DEFINE r == s \o t
            I == {i \in DOMAIN s : s[i] = d}
            J == {i \in DOMAIN t : t[i] = d}
            K == {i \in DOMAIN r : r[i] = d}
<1>1. /\ Len(s) \in Nat /\ DOMAIN s = 1 .. Len(s)
      /\ Len(t) \in Nat /\ DOMAIN t = 1 .. Len(t)
      /\ DOMAIN r = 1 .. Len(s) + Len(t)
      /\ \A i \in 1 .. Len(s) + Len(t) :
           r[i] = IF i <= Len(s) THEN s[i] ELSE t[i - Len(s)]
  BY ConcatProperties
<1>2. /\ Times(d, s) = Cardinality(I) /\ Times(d, t) = Cardinality(J)
      /\ Times(d, r) = Cardinality(K)
  BY DEF Times
<1>. HIDE DEF r
<1>3. ASSUME d \notin ToSet(t) PROVE Times(d, r) = Times(d, s)
  <2>1. \A i \in DOMAIN t : t[i] # d
    BY <1>3 DEF ToSet
  <2>2. \A i \in I : i \in DOMAIN r /\ r[i] = s[i]
    BY <1>1
  <2>3. \A i \in K : i \in DOMAIN s /\ r[i] = s[i]
    <3>. SUFFICES ASSUME NEW i \in K PROVE i <= Len(s)
      BY <1>1
    <3>1. ~(i <= Len(s)) => i - Len(s) \in DOMAIN t /\ r[i] = t[i - Len(s)]
      BY <1>1
    <3>. QED
      BY <2>1, <3>1
  <2>4. K = I
    BY <2>2, <2>3
  <2>. QED
    BY <1>2, <2>4
<1>4. ASSUME d \notin ToSet(s) PROVE Times(d, r) <= Times(d, t)
  <2>1. \A i \in DOMAIN s : s[i] # d
    BY <1>4 DEF ToSet
  <2>2. \A i \in K : i \in Int /\ i - Len(s) \in J
    BY <1>1, <2>1
  <2>. DEFINE f == [i \in K |-> i - Len(s)]
  <2>3. f \in [K -> J]
    BY <2>2
  <2>4. \A i, j \in K : f[i] = f[j] => i = j
    BY <1>1, <2>2
  <2>5. f \in Injection(K, J)
    BY <2>3, <2>4 DEF Injection, IsInjective
  <2>6. IsFiniteSet(J)
    BY TimesType
  <2>. HIDE DEF f
  <2>7. Cardinality(K) <= Cardinality(J)
    BY <2>5, <2>6, FS_Injection
  <2>. QED
    BY <1>2, <2>7
<1>. QED
  BY <1>3, <1>4 DEF r

\* Looking for one more digest of a manifest.
LEMMA BeforeNext ==
    ASSUME NEW m \in Manifests, NEW n \in Nat, NEW d
    PROVE  /\ Before(d, m, n) \in Nat
           /\ Before(d, m, n + 1) = IF Layers[m][n + 1] = d THEN Before(d, m, n) + 1
                                    ELSE Before(d, m, n)
<1>. DEFINE I == {i \in 1 .. n : Layers[m][i] = d}
            J == {i \in 1 .. n + 1 : Layers[m][i] = d}
<1>1. IsFiniteSet(I)
  <2>1. IsFiniteSet(1 .. n)
    BY FS_Interval
  <2>. QED
    BY <2>1, FS_Subset
<1>2. Cardinality(I) \in Nat
  BY <1>1, FS_CardinalityType
<1>3. J = IF Layers[m][n + 1] = d THEN I \cup {n + 1} ELSE I
  OBVIOUS
<1>4. Cardinality(I \cup {n + 1}) = Cardinality(I) + 1
  BY <1>1, FS_AddElement
<1>. QED
  BY <1>2, <1>3, <1>4 DEF Before

LEMMA TruthInit == Init => TruthInv
<1>. SUFFICES ASSUME Init PROVE TruthInv
  OBVIOUS
<1>1. an.pc = "service" /\ an.result = Empty /\ an.allSeen = {}
  BY DEF Init, Start
<1>2. Empty.present = {} /\ ToSet(Empty.missing) = {} /\ Empty.missing \in Seq(Blobs)
  BY DEF Empty, ToSet
<1>3. Listed(Empty)
  <2>. SUFFICES ASSUME NEW d \in Blobs
                PROVE  \E m \in Manifests : Times(d, Empty.missing) <= Times(d, Layers[m])
    BY DEF Listed
  <2>1. PICK m \in Manifests : d \in ToSet(Layers[m])
    BY DEF Blobs
  <2>2. Times(d, Empty.missing) = 0
    BY <1>2, TimesType
  <2>3. Times(d, Layers[m]) \in Nat
    BY LayerFacts, TimesType
  <2>. QED
    BY <2>2, <2>3
<1>. QED
  BY <1>1, <1>2, <1>3
     DEF TruthInv, ResultTruth, OutTruth, LookTruth, Honest, Working

LEMMA TruthOthers == TypeOK /\ TruthInv /\ [Next]_vars /\ ~Analysis => TruthInv'
<1>. SUFFICES ASSUME TypeOK, TruthInv, [Next]_vars, ~Analysis PROVE TruthInv'
  OBVIOUS
<1>1. an' = an
  BY OthersKeep
<1>2. /\ touched \subseteq touched'
      /\ \A d : d \in touched' \/ (d \in blobs' <=> d \in blobs)
  BY DEF Next, Answered, Change, Recache, vars
<1>3. \A r : Honest(r, blobs, touched) => Honest(r, blobs', touched')
  BY <1>2 DEF Honest
<1>4. ResultTruth' /\ OutTruth'
  BY <1>1, <1>3 DEF TruthInv, ResultTruth, OutTruth, Working
<1>5. LookTruth'
  BY <1>1, <1>2 DEF TruthInv, LookTruth
<1>. QED
  BY <1>4, <1>5 DEF TruthInv

\* A digest that is in no list before, once in one.
LEMMA ListedOnce ==
    ASSUME NEW s \in Seq(Blobs), NEW d \in Blobs, d \notin ToSet(s)
    PROVE  \E m \in Manifests : Times(d, Append(s, d)) <= Times(d, Layers[m])
<1>1. PICK m \in Manifests : d \in ToSet(Layers[m])
  BY DEF Blobs
<1>2. Times(d, Append(s, d)) = 1
  <2>1. Times(d, s) = 0
    BY TimesType
  <2>2. Times(d, Append(s, d)) = Times(d, s) + 1
    BY TimesAppend
  <2>. QED
    BY <2>1, <2>2
<1>3. Layers[m] \in Seq(Blobs)
  BY LayerFacts
<1>. DEFINE I == {i \in DOMAIN Layers[m] : Layers[m][i] = d}
<1>4. IsFiniteSet(I) /\ Times(d, Layers[m]) \in Nat
  BY <1>3, TimesType
<1>5. I # {}
  BY <1>1 DEF ToSet
<1>6. Times(d, Layers[m]) # 0
  BY <1>4, <1>5, FS_EmptySet DEF Times
<1>. QED
  BY <1>2, <1>4, <1>6

LEMMA TruthStart ==
    ASSUME TypeOK, TruthInv,
           SkipService \/ ResolveImageRef \/ ResolveDockerfile
             \/ ParseDockerfile \/ Parsed
    PROVE  TruthInv'
<1>1. blobs' = blobs /\ touched' = touched
  BY SkipServiceStep, ResolveImageRefStep, ResolveDockerfileStep,
     ParseDockerfileStep, ParsedStep DEF world
<1>2. CASE SkipService
  BY <1>1, <1>2, SkipServiceStep
     DEF TruthInv, ResultTruth, OutTruth, LookTruth, Working
<1>3. CASE ResolveImageRef
  <2>1. /\ an'.pc = "image" /\ an'.seen = an.allSeen /\ an'.allSeen = an.allSeen
        /\ an'.result = an.result
        /\ an'.out.missing = an.result.missing
        /\ an'.out.present = an.result.present
    BY <1>3, ResolveImageRefStep, AnTypes DEF Results
  <2>. QED
    BY <1>1, <2>1 DEF TruthInv, ResultTruth, OutTruth, LookTruth, Honest, Listed
<1>4. CASE ResolveDockerfile
  BY <1>1, <1>4, ResolveDockerfileStep
     DEF TruthInv, ResultTruth, OutTruth, LookTruth, Working
<1>5. CASE ParseDockerfile
  <2>1. PICK p : p = ParseLine(an.service.file[an.done + 1], input.args, an.parse)
    OBVIOUS
  <2>2. /\ an'.pc \in {"parse", "service", "failed"} /\ an'.allSeen = an.allSeen
        /\ \/ an'.result = an.result
           \/ an'.result = [an.result EXCEPT !.warnings =
                              @ \cup {<<"service", an.service>>}]
    BY <1>5, <2>1, ParseDockerfileStep
  <2>3. /\ an'.result.missing = an.result.missing
        /\ an'.result.present = an.result.present
    BY <2>2, AnTypes DEF Results
  <2>. QED
    BY <1>1, <2>2, <2>3
       DEF TruthInv, ResultTruth, OutTruth, LookTruth, Honest, Listed, Working
<1>6. CASE Parsed
  <2>1. /\ an'.pc = "image" /\ an'.seen = {} /\ an'.allSeen = an.allSeen
        /\ an'.result = an.result
        /\ an'.out = [Empty EXCEPT !.images = an.parse.images]
    BY <1>6, ParsedStep
  <2>2. an'.out.missing = <<>> /\ an'.out.present = {} /\ ToSet(<<>>) = {}
    BY <2>1 DEF Empty, ToSet
  <2>3. Listed(an'.out)
    <3>. SUFFICES ASSUME NEW d \in Blobs
                  PROVE  \E m \in Manifests : Times(d, <<>>) <= Times(d, Layers[m])
      BY <2>2 DEF Listed
    <3>1. PICK m \in Manifests : d \in ToSet(Layers[m])
      BY DEF Blobs
    <3>2. <<>> \in Seq(Blobs)
      OBVIOUS
    <3>3. Times(d, <<>>) = 0
      BY <2>2, <3>2, TimesType
    <3>4. Times(d, Layers[m]) \in Nat
      BY LayerFacts, TimesType
    <3>. QED
      BY <3>3, <3>4
  <2>. QED
    BY <1>1, <2>1, <2>2, <2>3
       DEF TruthInv, ResultTruth, OutTruth, LookTruth, Honest
<1>. QED
  BY <1>2, <1>3, <1>4, <1>5, <1>6

LEMMA TruthWork ==
    ASSUME TypeOK, Control, TruthInv, FindManifest \/ CheckStale \/ Look \/ Looked
    PROVE  TruthInv'
<1>1. /\ blobs' = blobs /\ touched' = touched
      /\ an'.result = an.result /\ an'.allSeen = an.allSeen
      /\ an.pc # "merge" /\ an'.pc # "merge" /\ Working
  BY FindManifestStep, CheckStaleStep, LookStep, LookedStep DEF world, Working
<1>2. ResultTruth'
  BY <1>1 DEF TruthInv, ResultTruth
<1>3. /\ Honest(an.out, blobs, touched) /\ Listed(an.out)
      /\ ToSet(an.out.missing) \subseteq an.seen
  BY <1>1 DEF TruthInv, OutTruth
<1>4. CASE FindManifest
  <2>1. /\ an'.out.missing = an.out.missing /\ an'.out.present = an.out.present
        /\ an'.seen = an.seen /\ an'.pc # "look"
    BY <1>4, FindManifestStep, AnTypes DEF Results
  <2>. QED
    BY <1>1, <1>2, <1>3, <2>1
       DEF TruthInv, OutTruth, LookTruth, Honest, Listed
<1>5. CASE CheckStale
  <2>1. /\ an'.out = [an.out EXCEPT !.stale = @ \cup Stale(Image),
                        !.warnings = @ \cup {<<"stale", k>> : k \in Stale(Image)}]
        /\ an'.seen = an.seen /\ an'.missing = <<>> /\ an'.done = 0
        /\ an'.manifest = an.manifest /\ an.pc = "stale"
    BY <1>5, CheckStaleStep
  <2>2. an'.out.missing = an.out.missing /\ an'.out.present = an.out.present
    BY <2>1, AnTypes DEF Results
  <2>3. OutTruth'
    BY <1>1, <1>3, <2>1, <2>2 DEF OutTruth, Honest, Listed
  <2>4. ASSUME NEW d \in Blobs
        PROVE  Times(d, <<>>) <= Before(d, an.manifest, 0)
    <3>1. an.manifest \in Manifests
      BY <2>1 DEF Control
    <3>2. Before(d, an.manifest, 0) \in Nat
      BY <3>1, BeforeNext
    <3>3. <<>> \in Seq(Blobs) /\ d \notin ToSet(<<>>)
      BY DEF ToSet
    <3>4. Times(d, <<>>) = 0
      BY <3>3, TimesType
    <3>. QED
      BY <3>2, <3>4
  <2>5. LookTruth'
    <3>1. ToSet(<<>>) = {} /\ 1 .. 0 = {}
      BY DEF ToSet
    <3>. QED
      BY <2>1, <2>4, <3>1 DEF LookTruth
  <2>. QED
    BY <1>2, <2>3, <2>5 DEF TruthInv
<1>6. CASE Look
  <2>. DEFINE d == Layers[an.manifest][an.done + 1]
  <2>1. /\ an'.out = an.out /\ an'.seen = an.seen /\ an'.manifest = an.manifest
        /\ an'.done = an.done + 1 /\ an.pc = "look" /\ an'.pc = "look"
        /\ an'.missing = IF d \in an.seen \cup blobs THEN an.missing
                         ELSE Append(an.missing, d)
        /\ an.done < Len(Layers[an.manifest])
    BY <1>6, LookStep
  <2>2. /\ an.manifest \in Manifests /\ an.done \in Nat
        /\ Layers[an.manifest] \in Seq(Blobs) /\ an.missing \in Seq(Blobs)
    BY <2>1, AnTypes, LayerFacts DEF Control
  <2>3. d \in Blobs
    BY <2>1, <2>2
  <2>4. ToSet(Append(an.missing, d)) = ToSet(an.missing) \cup {d}
    BY <2>2, <2>3, ElementsOf
  <2>5. OutTruth'
    BY <1>1, <1>3, <2>1 DEF OutTruth
  <2>6. /\ ToSet(an.missing) \cap an.seen = {}
        /\ \A x \in ToSet(an.missing) : x \notin blobs \/ x \in touched
        /\ \A i \in 1 .. an.done :
             Layers[an.manifest][i] \in an.seen \cup ToSet(an.missing)
                                          \cup blobs \cup touched
        /\ \A x \in Blobs :
             Times(x, an.missing) <= Before(x, an.manifest, an.done)
    BY <2>1 DEF TruthInv, LookTruth
  <2>7. ASSUME NEW x \in Blobs
        PROVE  Times(x, an'.missing) <= Before(x, an.manifest, an.done + 1)
    <3>1. /\ Before(x, an.manifest, an.done) \in Nat
          /\ Before(x, an.manifest, an.done + 1) =
               IF d = x THEN Before(x, an.manifest, an.done) + 1
               ELSE Before(x, an.manifest, an.done)
      BY <2>2, BeforeNext
    <3>2. Times(x, Append(an.missing, d)) =
            IF d = x THEN Times(x, an.missing) + 1 ELSE Times(x, an.missing)
      BY <2>2, <2>3, TimesAppend
    <3>3. Times(x, an.missing) \in Nat
      BY <2>2, TimesType
    <3>. HIDE DEF d
    <3>. QED
      BY <2>1, <2>6, <3>1, <3>2, <3>3
  <2>8. ASSUME NEW i \in 1 .. an.done + 1
        PROVE  Layers[an.manifest][i] \in an.seen \cup ToSet(an'.missing)
                                            \cup blobs \cup touched
    <3>1. CASE i = an.done + 1
      BY <2>1, <2>4, <3>1
    <3>2. CASE i # an.done + 1
      <4>1. i \in 1 .. an.done
        BY <2>2, <3>2
      <4>. QED
        BY <2>1, <2>4, <2>6, <4>1
    <3>. QED
      BY <3>1, <3>2
  <2>. HIDE DEF d
  <2>9. /\ ToSet(an'.missing) \cap an.seen = {}
        /\ \A x \in ToSet(an'.missing) : x \notin blobs \/ x \in touched
    BY <2>1, <2>4, <2>6
  <2>10. LookTruth'
    BY <1>1, <2>1, <2>7, <2>8, <2>9 DEF LookTruth
  <2>. QED
    BY <1>2, <2>5, <2>10 DEF TruthInv
<1>7. CASE Looked
  <2>. DEFINE all == ToSet(Layers[an.manifest])
              new == all \ an.seen
  <2>1. /\ an'.pc = "image" /\ an.pc = "look"
        /\ an.done = Len(Layers[an.manifest])
        /\ an'.seen = an.seen \cup new
        /\ an'.out = [an.out EXCEPT !.present = @ \cup (new \ ToSet(an.missing)),
                                    !.missing = @ \o an.missing]
    BY <1>7, LookedStep
  <2>2. /\ an'.out.present = an.out.present \cup (new \ ToSet(an.missing))
        /\ an'.out.missing = an.out.missing \o an.missing
    <3>. HIDE DEF all, new
    <3>. QED
      BY <2>1, AnTypes DEF Results
  <2>3. /\ an.manifest \in Manifests /\ Layers[an.manifest] \in Seq(Blobs)
        /\ an.missing \in Seq(Blobs) /\ an.out.missing \in Seq(Blobs)
    BY <2>1, AnTypes, ResultType, LayerFacts DEF Control
  <2>4. ToSet(an'.out.missing) = ToSet(an.out.missing) \cup ToSet(an.missing)
    BY <2>2, <2>3, ElementsOf
  <2>5. /\ ToSet(an.missing) \cap an.seen = {}
        /\ \A x \in ToSet(an.missing) : x \notin blobs \/ x \in touched
        /\ \A i \in 1 .. an.done :
             Layers[an.manifest][i] \in an.seen \cup ToSet(an.missing)
                                          \cup blobs \cup touched
        /\ \A x \in Blobs :
             Times(x, an.missing) <= Before(x, an.manifest, an.done)
    BY <2>1 DEF TruthInv, LookTruth
  <2>6. DOMAIN Layers[an.manifest] = 1 .. an.done
    BY <2>1, <2>3
  <2>7. \A x \in new \ ToSet(an.missing) : x \in blobs \/ x \in touched
    BY <2>5, <2>6 DEF ToSet
  <2>8. ToSet(an.missing) \subseteq all
    <3>. SUFFICES ASSUME NEW x \in ToSet(an.missing), x \notin all PROVE FALSE
      OBVIOUS
    <3>1. x \in Blobs
      BY <2>3, ElementsOf
    <3>. DEFINE I == {i \in DOMAIN an.missing : an.missing[i] = x}
    <3>2. IsFiniteSet(I) /\ I # {} /\ Times(x, an.missing) \in Nat
      <4>1. I # {}
        BY DEF ToSet
      <4>. QED
        BY <2>3, <4>1, TimesType
    <3>3. Times(x, an.missing) # 0
      BY <3>2, FS_EmptySet DEF Times
    <3>4. {i \in 1 .. an.done : Layers[an.manifest][i] = x} = {}
      BY <2>6 DEF ToSet
    <3>5. Before(x, an.manifest, an.done) = 0
      BY <3>4, FS_EmptySet DEF Before
    <3>. QED
      BY <2>5, <3>1, <3>2, <3>3, <3>5
  <2>9. Honest(an'.out, blobs, touched)
    BY <1>3, <2>2, <2>4, <2>5, <2>7 DEF Honest
  <2>10. ToSet(an'.out.missing) \subseteq an'.seen
    BY <1>3, <2>1, <2>4, <2>8
  <2>11. Listed(an'.out)
    <3>. SUFFICES ASSUME NEW x \in Blobs
                  PROVE  \E m \in Manifests :
                           Times(x, an'.out.missing) <= Times(x, Layers[m])
      BY DEF Listed
    <3>1. CASE x \in an.seen
      <4>1. x \notin ToSet(an.missing)
        BY <2>5, <3>1
      <4>2. Times(x, an'.out.missing) = Times(x, an.out.missing)
        BY <2>2, <2>3, <4>1, TimesConcat
      <4>. QED
        BY <1>3, <4>2 DEF Listed
    <3>2. CASE x \notin an.seen
      <4>1. x \notin ToSet(an.out.missing)
        BY <1>3, <3>2
      <4>2. Times(x, an'.out.missing) <= Times(x, an.missing)
        BY <2>2, <2>3, <4>1, TimesConcat
      <4>3. Times(x, an.missing) <= Before(x, an.manifest, an.done)
        BY <2>5
      <4>4. Before(x, an.manifest, an.done) = Times(x, Layers[an.manifest])
        BY <2>6 DEF Before, Times
      <4>5. an'.out.missing \in Seq(Blobs)
        BY <2>2, <2>3, ConcatProperties
      <4>6. /\ Times(x, an'.out.missing) \in Nat /\ Times(x, an.missing) \in Nat
            /\ Times(x, Layers[an.manifest]) \in Nat
        BY <2>3, <4>5, TimesType
      <4>. QED
        BY <2>3, <4>2, <4>3, <4>4, <4>6
    <3>. QED
      BY <3>1, <3>2
  <2>12. OutTruth'
    BY <1>1, <2>9, <2>10, <2>11 DEF OutTruth
  <2>. QED
    BY <1>2, <2>1, <2>12 DEF TruthInv, LookTruth
<1>. QED
  BY <1>4, <1>5, <1>6, <1>7

LEMMA TruthEnd ==
    ASSUME TypeOK, Control, TruthInv,
           EndService \/ EndDockerfile \/ MergeMissing \/ Merged \/ EndAnalysis
    PROVE  TruthInv'
<1>1. /\ blobs' = blobs /\ touched' = touched
      /\ an'.pc \notin {"image", "stale", "look"}
  BY EndServiceStep, EndDockerfileStep, MergeMissingStep, MergedStep,
     EndAnalysisStep DEF world
<1>2. LookTruth'
  BY <1>1 DEF LookTruth
<1>3. CASE EndService
  BY <1>1, <1>2, <1>3, EndServiceStep
     DEF TruthInv, ResultTruth, OutTruth, Working
<1>4. CASE EndDockerfile
  <2>1. /\ an'.pc = "merge" /\ an'.out = an.out /\ an'.seen = an.seen
        /\ an'.result = Merge(an.result, an.out) /\ an'.allSeen = an.allSeen
        /\ an.pc = "image"
    BY <1>4, EndDockerfileStep
  <2>2. /\ an'.result.missing = an.result.missing
        /\ an'.result.present = an.result.present \cup an.out.present
    BY <2>1, AnTypes DEF Results, Merge
  <2>3. Honest(an.out, blobs, touched) /\ OutTruth'
    BY <1>1, <2>1 DEF TruthInv, OutTruth, Working
  <2>4. ResultTruth'
    BY <1>1, <2>1, <2>2, <2>3 DEF TruthInv, ResultTruth, Honest, Listed
  <2>. QED
    BY <1>2, <2>3, <2>4 DEF TruthInv
<1>5. CASE MergeMissing
  <2>1. PICK d : d = an.out.missing[an.done + 1]
    OBVIOUS
  <2>2. /\ an'.pc = "merge" /\ an'.out = an.out /\ an'.seen = an.seen
        /\ an'.allSeen = an.allSeen \cup {d}
        /\ an'.result = [an.result EXCEPT !.missing =
                           IF d \in an.allSeen THEN @ ELSE Append(@, d)]
        /\ an.pc = "merge" /\ an.done < Len(an.out.missing)
    BY <1>5, <2>1, MergeMissingStep
  <2>3. /\ an.done \in Nat /\ an.out.missing \in Seq(Blobs)
        /\ an.result.missing \in Seq(Blobs)
    BY AnTypes, ResultType
  <2>4. d \in Blobs /\ d \in ToSet(an.out.missing)
    BY <2>1, <2>2, <2>3 DEF ToSet
  <2>5. OutTruth' /\ (d \notin blobs \/ d \in touched)
    BY <1>1, <2>2, <2>4 DEF TruthInv, OutTruth, Honest
  <2>6. /\ an'.result.present = an.result.present
        /\ an'.result.missing = IF d \in an.allSeen THEN an.result.missing
                                ELSE Append(an.result.missing, d)
    BY <2>2, AnTypes DEF Results
  <2>7. /\ Honest(an.result, blobs, touched) /\ Listed(an.result)
        /\ ToSet(an.result.missing) \subseteq an.allSeen
    BY DEF TruthInv, ResultTruth
  <2>8. ToSet(Append(an.result.missing, d)) = ToSet(an.result.missing) \cup {d}
    BY <2>3, <2>4, ElementsOf
  <2>9. Listed(an'.result)
    <3>1. CASE d \in an.allSeen
      BY <2>6, <2>7, <3>1 DEF Listed
    <3>2. CASE d \notin an.allSeen
      <4>. SUFFICES ASSUME NEW x \in Blobs
                    PROVE  \E m \in Manifests :
                             Times(x, Append(an.result.missing, d))
                               <= Times(x, Layers[m])
        BY <2>6, <3>2 DEF Listed
      <4>1. CASE x = d
        <5>1. d \notin ToSet(an.result.missing)
          BY <2>7, <3>2
        <5>. QED
          BY <2>3, <2>4, <4>1, <5>1, ListedOnce
      <4>2. CASE x # d
        <5>1. Times(x, Append(an.result.missing, d)) = Times(x, an.result.missing)
          BY <2>3, <2>4, <4>2, TimesAppend
        <5>. QED
          BY <2>7, <5>1 DEF Listed
      <4>. QED
        BY <4>1, <4>2
    <3>. QED
      BY <3>1, <3>2
  <2>10. Honest(an'.result, blobs, touched)
    BY <2>5, <2>6, <2>7, <2>8 DEF Honest
  <2>11. ToSet(an'.result.missing) \subseteq an'.allSeen
    BY <2>2, <2>6, <2>7, <2>8
  <2>. QED
    BY <1>1, <1>2, <2>5, <2>9, <2>10, <2>11 DEF TruthInv, ResultTruth
<1>6. CASE Merged
  BY <1>1, <1>2, <1>6, MergedStep DEF TruthInv, ResultTruth, OutTruth, Working
<1>7. CASE EndAnalysis
  BY <1>1, <1>2, <1>7, EndAnalysisStep
     DEF TruthInv, ResultTruth, OutTruth, Working
<1>. QED
  BY <1>3, <1>4, <1>5, <1>6, <1>7

LEMMA TruthFailed == TypeOK /\ TruthInv /\ LookupRaises => TruthInv'
<1>. SUFFICES ASSUME TypeOK, TruthInv, LookupRaises PROVE TruthInv'
  OBVIOUS
<1>1. /\ an'.pc = "failed" /\ an'.result = an.result /\ an'.allSeen = an.allSeen
      /\ blobs' = blobs /\ touched' = touched
  BY LookupRaisesStep DEF world
<1>. QED
  BY <1>1 DEF TruthInv, ResultTruth, OutTruth, LookTruth, Working

LEMMA TruthNext == TypeOK /\ Control /\ TruthInv /\ [Next]_vars => TruthInv'
  BY TruthOthers, TruthStart, TruthWork, TruthFailed, TruthEnd DEF Analysis

\* What resolve_compose and resolve_dockerfile return is true of the store: a
\* digest is in missing_blobs or present_blobs rightly unless another thread
\* touched it, and the merging of services lists none more often than a
\* manifest does.
THEOREM ResultTrue == Spec => []MissingTruthful
<1>1. TruthInv => MissingTruthful
  BY DEF TruthInv, ResultTruth, Honest, Listed, MissingTruthful
<1>2. TypeOK /\ Control /\ TruthInv /\ [Next]_vars => TruthInv'
  BY TruthNext
<1>. QED
  BY <1>1, <1>2, TruthInit, ResolverTypes, PTL DEF Spec

-----------------------------------------------------------------------------
(* The images that docker build pulls *)

LEMMA LineType ==
    ASSUME NEW line \in Lines
    PROVE  /\ line.op = "FROM" => /\ line.platform \in Forms /\ line.ref \in Forms
                                 /\ line.as \in Texts
           /\ line.op # "FROM" => line.var \in Vars /\ line.default \in Texts
  BY DEF Lines

\* Only an empty text is empty in lower case.
LEMMA LowerEmpty == ASSUME NEW name \in Texts PROVE Lower(name) = <<>> <=> name = <<>>
<1>1. DOMAIN Lower(name) = DOMAIN name
  BY DEF Lower
<1>2. Lower(name) \in Texts
  BY LowerType
<1>3. name = <<>> <=> DOMAIN name = {}
  BY DEF Texts
<1>4. Lower(name) = <<>> <=> DOMAIN Lower(name) = {}
  BY <1>2 DEF Texts
<1>. QED
  BY <1>1, <1>3, <1>4

\* A line more: which stages and declarations there are.
LEMMA MoreLines ==
    ASSUME NEW file \in Seq(Lines), NEW n \in Nat, n < Len(file)
    PROVE  /\ n + 1 \in DOMAIN file /\ file[n + 1] \in Lines
           /\ Stages(file, n + 1) =
                IF file[n + 1].op = "FROM" THEN Stages(file, n) \cup {n + 1}
                ELSE Stages(file, n)
           /\ \A v : {i \in Declares(file, v) : i <= n + 1} =
                IF /\ file[n + 1].op # "FROM" /\ Stages(file, n) = {}
                   /\ file[n + 1].var = v
                THEN {i \in Declares(file, v) : i <= n} \cup {n + 1}
                ELSE {i \in Declares(file, v) : i <= n}
<1>1. /\ DOMAIN file = 1 .. Len(file) /\ Len(file) \in Nat
      /\ n + 1 \in DOMAIN file /\ file[n + 1] \in Lines
  OBVIOUS
<1>2. \A i \in DOMAIN file : i <= n + 1 <=> i <= n \/ i = n + 1
  BY <1>1
<1>3. Stages(file, n + 1) =
        IF file[n + 1].op = "FROM" THEN Stages(file, n) \cup {n + 1}
        ELSE Stages(file, n)
  BY <1>1, <1>2 DEF Stages, Froms
<1>4. n + 1 \in Preamble(file) <=>
        file[n + 1].op # "FROM" /\ Stages(file, n) = {}
  <2>1. \A j \in DOMAIN file : n + 1 < j <=> ~(j <= n) /\ j # n + 1
    BY <1>1
  <2>. QED
    BY <1>1, <2>1 DEF Preamble, Stages, Froms
<1>5. ASSUME NEW v
      PROVE  {i \in Declares(file, v) : i <= n + 1} =
               IF n + 1 \in Preamble(file) /\ file[n + 1].var = v
               THEN {i \in Declares(file, v) : i <= n} \cup {n + 1}
               ELSE {i \in Declares(file, v) : i <= n}
  <2>1. Declares(file, v) \subseteq DOMAIN file
    BY DEF Declares, Preamble
  <2>2. n + 1 \in Declares(file, v) <=>
          n + 1 \in Preamble(file) /\ file[n + 1].var = v
    BY DEF Declares
  <2>3. \A i \in Declares(file, v) : i <= n + 1 <=> i <= n \/ i = n + 1
    BY <1>2, <2>1
  <2>4. n + 1 <= n + 1
    OBVIOUS
  <2>. HIDE DEF Declares
  <2>. QED
    BY <2>2, <2>3, <2>4
<1>. QED
  BY <1>1, <1>3, <1>4, <1>5, Zenon

\* The loop of parse_dockerfile: what it has after n lines.
LEMMA ParserFrom ==
    ASSUME NEW file \in Seq(Lines), NEW n \in Nat, n < Len(file),
           NEW p \in Parses, input \in Requests, ParserInv(file, n, p),
           file[n + 1].op = "FROM", NEW q,
           q = ParseFrom(file[n + 1], input.args, p), ~q.error
    PROVE  ParserInv(file, n + 1, q)
<1>. DEFINE line == file[n + 1]
            platform == Platform(file, n + 1, p.args)
            raw == Base(file, n + 1, p.args)
            image == ResolvedImage(raw, platform, Lower(raw) \in p.aliases)
<1>1. /\ n + 1 \in DOMAIN file /\ line \in Lines
      /\ line.platform \in Forms /\ line.ref \in Forms /\ line.as \in Texts
  BY MoreLines, LineType
<1>2. /\ p.args \in [Vars -> Texts] /\ input.args \in [Vars -> Texts]
      /\ p.images \in Seq(Images)
  BY DEF Parses, Requests
<1>3. Stages(file, n + 1) = Stages(file, n) \cup {n + 1}
  BY MoreLines
<1>4. \A v : {i \in Declares(file, v) : i <= n + 1}
             = {i \in Declares(file, v) : i <= n}
  BY MoreLines
<1>5. \A v \in Vars : Argument(file, n + 1, v, p.args[v])
  BY <1>4 DEF ParserInv, Argument
<1>6. raw \in Texts /\ platform \in Texts
  BY <1>1, <1>2, SubstituteType DEF Base, Platform
<1>7. image \in Images
  <2>. HIDE DEF raw, platform
  <2>1. (Lower(raw) \in p.aliases) \in BOOLEAN
    OBVIOUS
  <2>. QED
    BY <1>6, <2>1, ImageType, Zenon
<1>8. q = IF NoValue \in {platform, raw} THEN [p EXCEPT !.error = TRUE]
          ELSE IF Scratch(raw) THEN [p EXCEPT !.from = TRUE]
          ELSE [p EXCEPT !.from = TRUE, !.images = Append(@, image),
                         !.aliases = @ \cup ({Lower(line.as)} \ {<<>>})]
  BY DEF ParseFrom, Base, Platform
<1>9. Kept(file, n + 1, p.args) =
        IF Scratch(raw) THEN Kept(file, n, p.args)
        ELSE Kept(file, n, p.args) \cup {n + 1}
  BY <1>3 DEF Kept
<1>10. image = Named(file, n + 1, p.args)
  <2>1. p.aliases = Aliases(file, n, p.args)
    BY DEF ParserInv
  <2>2. n + 1 - 1 = n
    OBVIOUS
  <2>. QED
    BY <2>1, <2>2 DEF Named
<1>11. ~(NoValue \in {platform, raw})
  <2>. HIDE DEF raw, platform, image
  <2>1. NoValue \in {platform, raw} => q.error
    BY <1>8 DEF Parses
  <2>. QED
    BY <2>1
<1>12. ~p.error /\ p.aliases = Aliases(file, n, p.args)
       /\ ToSet(p.images) = {Named(file, i, p.args) : i \in Kept(file, n, p.args)}
  BY DEF ParserInv
<1>. HIDE DEF raw, platform, image
<1>13. CASE Scratch(raw)
  <2>1. /\ q.from = TRUE /\ q.args = p.args /\ q.aliases = p.aliases
        /\ q.images = p.images /\ q.error = p.error
    BY <1>8, <1>11, <1>13 DEF Parses
  <2>2. Aliases(file, n + 1, p.args) = Aliases(file, n, p.args)
    BY <1>9, <1>13 DEF Aliases
  <2>. QED
    BY <1>3, <1>5, <1>9, <1>12, <1>13, <2>1, <2>2, Zenon DEF ParserInv
<1>14. CASE ~Scratch(raw)
  <2>1. /\ q.from = TRUE /\ q.args = p.args /\ q.error = p.error
        /\ q.aliases = p.aliases \cup ({Lower(line.as)} \ {<<>>})
        /\ q.images = Append(p.images, image)
    BY <1>8, <1>11, <1>14 DEF Parses
  <2>2. ToSet(q.images) = ToSet(p.images) \cup {image}
    BY <1>2, <1>7, <2>1, ElementsOf
  <2>3. Kept(file, n + 1, p.args) = Kept(file, n, p.args) \cup {n + 1}
    BY <1>9, <1>14
  <2>4. ToSet(q.images) =
          {Named(file, i, p.args) : i \in Kept(file, n + 1, p.args)}
    BY <1>10, <1>12, <2>2, <2>3
  <2>5. Lower(line.as) = <<>> <=> line.as = <<>>
    BY <1>1, LowerEmpty
  <2>6. Aliases(file, n + 1, p.args) = q.aliases
    <3>1. Aliases(file, n + 1, p.args) =
            Aliases(file, n, p.args)
              \cup (IF line.as # <<>> THEN {Lower(line.as)} ELSE {})
      BY <2>3 DEF Aliases
    <3>. QED
      BY <1>12, <2>1, <2>5, <3>1
  <2>. QED
    BY <1>3, <1>5, <1>12, <2>1, <2>4, <2>6, Zenon DEF ParserInv
<1>. QED
  BY <1>13, <1>14

LEMMA ParserArg ==
    ASSUME NEW file \in Seq(Lines), NEW n \in Nat, n < Len(file),
           NEW p \in Parses, input \in Requests, ParserInv(file, n, p),
           file[n + 1].op # "FROM", NEW q,
           q = IF p.from THEN p ELSE ParseArg(file[n + 1], input.args, p)
    PROVE  ParserInv(file, n + 1, q)
<1>. DEFINE line == file[n + 1]
<1>1. /\ n + 1 \in DOMAIN file /\ line \in Lines
      /\ line.var \in Vars /\ line.default \in Texts
  BY MoreLines, LineType
<1>2. p.args \in [Vars -> Texts] /\ input.args \in [Vars -> Texts]
  BY DEF Parses, Requests
<1>3. Stages(file, n + 1) = Stages(file, n)
  BY MoreLines
<1>4. \A args : /\ Kept(file, n + 1, args) = Kept(file, n, args)
                /\ Aliases(file, n + 1, args) = Aliases(file, n, args)
  BY <1>3 DEF Kept, Aliases
<1>5. /\ ~p.error
      /\ p.from <=> Stages(file, n) # {}
      /\ \A v \in Vars : Argument(file, n, v, p.args[v])
      /\ p.aliases = Aliases(file, n, p.args)
      /\ ToSet(p.images) = {Named(file, i, p.args) : i \in Kept(file, n, p.args)}
  BY DEF ParserInv
<1>6. CASE p.from
  <2>1. q = p
    BY <1>6
  <2>2. \A v : {i \in Declares(file, v) : i <= n + 1}
               = {i \in Declares(file, v) : i <= n}
    BY <1>5, <1>6, MoreLines
  <2>3. \A v \in Vars : Argument(file, n + 1, v, p.args[v])
    BY <1>5, <2>2 DEF Argument
  <2>4. /\ q.aliases = Aliases(file, n + 1, q.args)
        /\ ToSet(q.images) =
             {Named(file, i, q.args) : i \in Kept(file, n + 1, q.args)}
    BY <1>4, <1>5, <2>1
  <2>5. ~q.error /\ (q.from <=> Stages(file, n + 1) # {})
    BY <1>3, <1>5, <2>1
  <2>. QED
    BY <2>1, <2>3, <2>4, <2>5 DEF ParserInv
<1>7. CASE ~p.from
  <2>1. q = [p EXCEPT !.args[line.var] =
               IF input.args[line.var] # NoValue THEN input.args[line.var]
               ELSE line.default]
    BY <1>7 DEF ParseArg
  <2>2. /\ q.error = p.error /\ q.from = p.from /\ q.images = p.images
        /\ q.aliases = p.aliases
        /\ q.args = [p.args EXCEPT ![line.var] =
               IF input.args[line.var] # NoValue THEN input.args[line.var]
               ELSE line.default]
    BY <2>1 DEF Parses
  <2>3. Stages(file, n) = {}
    BY <1>5, <1>7
  <2>4. \A args : Kept(file, n, args) = {} /\ Aliases(file, n, args) = {}
    BY <2>3 DEF Kept, Aliases
  <2>5. ASSUME NEW v \in Vars PROVE Argument(file, n + 1, v, q.args[v])
    <3>. DEFINE old == {i \in Declares(file, v) : i <= n}
                decl == {i \in Declares(file, v) : i <= n + 1}
    <3>1. CASE v = line.var
      <4>1. decl = old \cup {n + 1}
        BY <2>3, <3>1, MoreLines
      <4>2. \A j \in decl : j <= n + 1
        OBVIOUS
      <4>3. q.args[v] = IF input.args[v] # NoValue THEN input.args[v]
                        ELSE line.default
        BY <1>1, <1>2, <2>2, <3>1
      <4>. HIDE DEF decl, old
      <4>4. decl # {} /\ \E i \in decl : (\A j \in decl : j <= i)
                                       /\ line.default = file[i].default
        BY <4>1, <4>2
      <4>. QED
        BY <4>3, <4>4 DEF Argument, decl
    <3>2. CASE v # line.var
      <4>1. decl = old
        BY <3>2, MoreLines
      <4>2. q.args[v] = p.args[v]
        BY <1>1, <1>2, <2>2, <3>2
      <4>. QED
        BY <1>5, <4>1, <4>2 DEF Argument
    <3>. QED
      BY <3>1, <3>2
  <2>6. ToSet(q.images) = {Named(file, i, q.args) : i \in Kept(file, n + 1, q.args)}
    BY <1>4, <1>5, <2>2, <2>4
  <2>7. q.aliases = Aliases(file, n + 1, q.args)
    BY <1>4, <1>5, <2>2, <2>4
  <2>. QED
    BY <1>3, <1>5, <2>2, <2>5, <2>6, <2>7, Zenon DEF ParserInv
<1>. QED
  BY <1>6, <1>7

LEMMA ParserStep ==
    ASSUME NEW file \in Seq(Lines), NEW n \in Nat, n < Len(file),
           NEW p \in Parses, input \in Requests, ParserInv(file, n, p), NEW q,
           q = ParseLine(file[n + 1], input.args, p), ~q.error
    PROVE  ParserInv(file, n + 1, q)
  BY ParserFrom, ParserArg DEF ParseLine

LEMMA ParserStart ==
    ASSUME NEW file \in Seq(Lines), input \in Requests
    PROVE  ParserInv(file, 0, NoParse)
<1>1. Stages(file, 0) = {} /\ \A v : {i \in Declares(file, v) : i <= 0} = {}
  BY DEF Stages, Froms, Declares, Preamble
<1>2. /\ \A args : Kept(file, 0, args) = {} /\ Aliases(file, 0, args) = {}
      /\ ToSet(<<>>) = {}
  BY <1>1 DEF Kept, Aliases, ToSet
<1>3. \A v \in Vars : NoArgs[v] = NoValue
  BY DEF NoArgs
<1>4. \A v \in Vars : Argument(file, 0, v, NoArgs[v])
  BY <1>1, <1>3 DEF Argument
<1>5. /\ NoParse.args = NoArgs /\ NoParse.aliases = {} /\ NoParse.images = <<>>
      /\ NoParse.from = FALSE /\ NoParse.error = FALSE
  BY DEF NoParse
<1>. QED
  BY <1>1, <1>2, <1>4, <1>5, Zenon DEF ParserInv

\* When all lines are parsed, the parser's arguments are those in force.
LEMMA ValuesAgree ==
    ASSUME NEW file \in Seq(Lines), input \in Requests,
           NEW args \in [Vars -> Texts], NEW v \in Vars,
           Argument(file, Len(file), v, args[v]),
           input.args[v] # NoValue => Declares(file, v) # {}
    PROVE  ValueOf(v, args, input.args)
             = ValueOf(v, InForce(file, input.args), NoArgs)
<1>. DEFINE decl == Declares(file, v)
            last == CHOOSE i \in decl : \A j \in decl : j <= i
<1>1. decl \subseteq 1 .. Len(file) /\ Len(file) \in Nat
  BY DEF Declares, Preamble
<1>2. {i \in Declares(file, v) : i <= Len(file)} = decl
  BY <1>1
<1>3. InForce(file, input.args)[v] =
        IF decl = {} THEN NoValue
        ELSE IF input.args[v] # NoValue THEN input.args[v]
        ELSE file[last].default
  BY DEF InForce
<1>4. NoArgs[v] = NoValue
  BY DEF NoArgs
<1>5. ValueOf(v, InForce(file, input.args), NoArgs) = InForce(file, input.args)[v]
  BY <1>4 DEF ValueOf
<1>6. IF decl = {} THEN args[v] = NoValue
      ELSE IF input.args[v] # NoValue THEN args[v] = input.args[v]
      ELSE \E i \in decl : (\A j \in decl : j <= i) /\ args[v] = file[i].default
  BY <1>2 DEF Argument
<1>7. ASSUME decl # {}, input.args[v] = NoValue
      PROVE  args[v] = file[last].default
  <2>1. PICK i \in decl : (\A j \in decl : j <= i) /\ args[v] = file[i].default
    BY <1>6, <1>7
  <2>2. last \in decl /\ \A j \in decl : j <= last
    BY <2>1, Zenon
  <2>. HIDE DEF decl, last
  <2>3. last = i
    BY <1>1, <2>1, <2>2
  <2>. QED
    BY <2>1, <2>3
<1>. HIDE DEF decl, last
<1>8. input.args[v] # NoValue => decl # {}
  BY DEF decl
<1>. QED
  BY <1>3, <1>5, <1>6, <1>7, <1>8 DEF ValueOf

\* ... and so are its texts what docker build reads.
LEMMA TextsAgree ==
    ASSUME NEW file \in Seq(Lines), input \in Requests,
           NEW args \in [Vars -> Texts],
           \A v \in Vars : Argument(file, Len(file), v, args[v]),
           NEW x \in Forms,
           input.args[x.var] # NoValue => Declares(file, x.var) # {}
    PROVE  Substitute(x, args, input.args) = Text(x, file, input.args)
<1>1. x.var \in Vars
  BY DEF Forms
<1>2. ValueOf(x.var, args, input.args)
        = ValueOf(x.var, InForce(file, input.args), NoArgs)
  BY <1>1, ValuesAgree
<1>. QED
  BY <1>2, Zenon DEF Substitute, Text

LEMMA FilesAgree ==
    ASSUME NEW file \in Seq(Lines), input \in Requests, NEW p \in Parses,
           ParserInv(file, Len(file), p), Comparable(file, input.args)
    PROVE  \A i \in Froms(file) :
             /\ Base(file, i, p.args) = Text(file[i].ref, file, input.args)
             /\ Platform(file, i, p.args) = Text(file[i].platform, file, input.args)
             /\ Text(file[i].ref, file, input.args) \in Texts
             /\ Text(file[i].platform, file, input.args) \in Texts
<1>. SUFFICES ASSUME NEW i \in Froms(file)
              PROVE  /\ Base(file, i, p.args) = Text(file[i].ref, file, input.args)
                     /\ Platform(file, i, p.args)
                          = Text(file[i].platform, file, input.args)
                     /\ Text(file[i].ref, file, input.args) \in Texts
                     /\ Text(file[i].platform, file, input.args) \in Texts
  BY Zenon
<1>1. file[i] \in Lines /\ file[i].op = "FROM"
  BY DEF Froms
<1>2. file[i].ref \in Forms /\ file[i].platform \in Forms
  BY <1>1, LineType
<1>3. p.args \in [Vars -> Texts] /\ input.args \in [Vars -> Texts]
  BY DEF Parses, Requests
<1>4. \A v \in Vars : Argument(file, Len(file), v, p.args[v])
  BY DEF ParserInv
<1>5. \A v \in {file[i].ref.var, file[i].platform.var} :
        input.args[v] # NoValue => Declares(file, v) # {}
  BY Zenon DEF Comparable
<1>6. Base(file, i, p.args) = Text(file[i].ref, file, input.args)
  BY <1>2, <1>3, <1>4, <1>5, TextsAgree DEF Base
<1>7. Platform(file, i, p.args) = Text(file[i].platform, file, input.args)
  BY <1>2, <1>3, <1>4, <1>5, TextsAgree DEF Platform
<1>8. Base(file, i, p.args) \in Texts /\ Platform(file, i, p.args) \in Texts
  BY <1>2, <1>3, SubstituteType DEF Base, Platform
<1>. QED
  BY <1>6, <1>7, <1>8

\* The first tokens of a text.
LEMMA Fronts ==
    ASSUME NEW s \in Texts
    PROVE  /\ 1 <= Len(s) => SubSeq(s, 1, 1) = <<s[1]>>
           /\ 2 <= Len(s) => SubSeq(s, 1, 2) = <<s[1], s[2]>>
<1>. Len(s) \in Nat /\ \A i \in 1 .. Len(s) : s[i] \in Tokens
  BY DEF Texts
<1>1. ASSUME 1 <= Len(s) PROVE SubSeq(s, 1, 1) = <<s[1]>>
  <2>. DEFINE t == SubSeq(s, 1, 1)
  <2>1. \A i \in 1 .. 1 : s[i] \in Tokens
    BY <1>1
  <2>2. t \in Seq(Tokens) /\ Len(t) = 1 /\ t[1] = s[1]
    BY <2>1, SubSeqProperties
  <2>3. <<s[1]>> \in Seq(Tokens) /\ Len(<<s[1]>>) = 1
    BY <2>1
  <2>. HIDE DEF t
  <2>4. t = <<s[1]>>
    BY <2>2, <2>3, SeqEqual
  <2>. QED
    BY <2>4 DEF t
<1>2. ASSUME 2 <= Len(s) PROVE SubSeq(s, 1, 2) = <<s[1], s[2]>>
  <2>. DEFINE t == SubSeq(s, 1, 2)
  <2>1. \A i \in 1 .. 2 : s[i] \in Tokens
    BY <1>2
  <2>2. t \in Seq(Tokens) /\ Len(t) = 2 /\ t[1] = s[1] /\ t[2] = s[2]
    BY <2>1, SubSeqProperties
  <2>3. <<s[1], s[2]>> \in Seq(Tokens) /\ Len(<<s[1], s[2]>>) = 2
    BY <2>1
  <2>. HIDE DEF t
  <2>4. t = <<s[1], s[2]>>
    BY <2>2, <2>3, SeqEqual
  <2>. QED
    BY <2>4 DEF t
<1>. QED
  BY <1>1, <1>2

\* What _split_name makes of an image's name is its registry and repository.
LEMMA AskedRight ==
    ASSUME NEW raw \in Texts,
           IsPrefix(<<"docker.io", "/">>, raw) => InFull(raw),
           NEW image, image.registry = ParseImageRef(raw).registry,
           image.repository = ParseImageRef(raw).repository
    PROVE  SplitName(AskedAs(image)) = <<image.registry, image.repository>>
<1>1. PICK n \in Nat : Parts(raw, n)
  BY ParseImageRefIs
<1>2. Len(raw) \in Nat /\ n \in 0 .. Len(raw)
  BY <1>1 DEF Texts, Parts
<1>3. PICK name : name = SubSeq(raw, 1, n)
  OBVIOUS
<1>4. /\ name \in Texts /\ Len(name) = n /\ \A i \in 1 .. n : name[i] = raw[i]
  BY <1>2, <1>3, CutType
<1>5. /\ image.registry = Normalize(name)[1]
      /\ image.repository = Normalize(name)[2]
  BY <1>1, <1>3 DEF Parts
<1>6. PICK slash \in 0 .. Len(name) :
        /\ slash = 0 => \A i \in 1 .. Len(name) : name[i] # "/"
        /\ slash > 0 => /\ name[slash] = "/"
                        /\ \A i \in 1 .. slash - 1 : name[i] # "/"
        /\ Normalize(name) = Place(name, slash)
  BY <1>4, NormalizeIs
<1>. DEFINE first == SubSeq(name, 1, slash - 1)
            rest == SubSeq(name, slash + 1, Len(name))
            named == \/ ToSet(first) \cap (Dotted \cup {":"}) # {}
                     \/ first = <<"localhost">>
<1>7. CASE slash = 0
  <2>1. /\ image.registry = <<"docker.io">>
        /\ image.repository = <<"library", "/">> \o name
    BY <1>5, <1>6, <1>7 DEF Place
  <2>2. PICK full : full = <<"library", "/">> \o name
    OBVIOUS
  <2>3. /\ full \in Texts /\ Len(full) = n + 2 /\ full[1] = "library"
        /\ full[2] = "/"
    <3>1. <<"library", "/">> \in Texts
      BY TokenFacts DEF Texts
    <3>. QED
      BY <1>4, <2>2, <3>1, ConcatProperties DEF Texts
  <2>4. PICK k \in 0 .. Len(full) :
          /\ k = 0 => \A i \in 1 .. Len(full) : full[i] # "/"
          /\ k > 0 => full[k] = "/" /\ \A i \in 1 .. k - 1 : full[i] # "/"
          /\ Normalize(full) = Place(full, k)
    BY <2>3, NormalizeIs
  <2>5. k = 2
    BY <2>3, <2>4
  <2>6. SubSeq(full, 1, 1) = <<"library">>
    <3>1. 1 <= Len(full)
      BY <1>4, <2>3
    <3>. QED
      BY <2>3, <3>1, Fronts
  <2>7. ToSet(<<"library">>) = {"library"}
    BY DEF ToSet
  <2>8. Place(full, 2) = <<<<"docker.io">>, full>>
    <3>1. ToSet(SubSeq(full, 1, 2 - 1)) \cap (Dotted \cup {":"}) = {}
      <4>1. 2 - 1 = 1 /\ "library" # ":" /\ "library" \notin Dotted
        BY TokenFacts
      <4>. QED
        BY <2>6, <2>7, <4>1
    <3>2. SubSeq(full, 1, 2 - 1) # <<"localhost">>
      BY <2>6
    <3>. QED
      BY <3>1, <3>2 DEF Place
  <2>9. AskedAs(image) = full
    BY <2>1, <2>2 DEF AskedAs
  <2>. QED
    BY <2>1, <2>2, <2>4, <2>5, <2>8, <2>9 DEF SplitName
<1>8. CASE slash > 0 /\ named
  <2>1. image.registry = first /\ image.repository = rest
    BY <1>5, <1>6, <1>8 DEF Place
  <2>2. /\ first \in Texts /\ Len(first) = slash - 1
        /\ \A i \in 1 .. slash - 1 : first[i] = name[i]
    BY <1>4, <1>8, CutType
  <2>3. /\ rest \in Texts /\ Len(rest) = n - slash
        /\ \A i \in 1 .. n - slash : rest[i] = name[slash + i]
    BY <1>4, <1>8, CutType
  <2>4. /\ Normalize(name) = <<first, rest>> /\ name[slash] = "/"
    BY <1>6, <1>8 DEF Place
  <2>. HIDE DEF first, rest, named
  <2>5. CASE first = <<"docker.io">>
    <3>1. slash = 2 /\ name[1] = "docker.io"
      BY <2>2, <2>5
    <3>2. raw[1] = "docker.io" /\ raw[2] = "/" /\ 2 <= Len(raw)
      BY <1>2, <1>4, <1>6, <2>4, <3>1
    <3>3. SubSeq(raw, 1, 2) = <<"docker.io", "/">>
      BY <3>2, Fronts
    <3>4. IsPrefix(<<"docker.io", "/">>, raw)
      BY <1>2, <3>2, <3>3 DEF IsPrefix
    <3>5. PICK i \in 4 .. Len(raw) :
            /\ raw[i] = "/" /\ raw[3] # "localhost"
            /\ \A j \in 3 .. i - 1 : raw[j] \notin Dotted \cup {":", "@", "/"}
      BY <3>4 DEF InFull
    <3>6. i <= n
      <4>1. \A j \in 1 .. i : j = 1 \/ j = 2 \/ j \in 3 .. i - 1 \/ j = i
        BY <1>2
      <4>2. \A j \in 1 .. i : raw[j] # "@"
        BY <3>2, <3>5, <4>1
      <4>3. i \in 1 .. Len(raw)
        BY <1>2
      <4>. QED
        BY <1>1, <3>5, <4>2, <4>3 DEF Parts
    <3>7. /\ Len(rest) = n - 2 /\ i - 2 \in 1 .. Len(rest)
          /\ \A j \in 1 .. n - 2 : rest[j] = raw[j + 2]
      BY <1>2, <1>4, <2>3, <3>1, <3>6
    <3>8. /\ rest[i - 2] = "/" /\ rest[1] # "localhost"
          /\ \A j \in 1 .. i - 3 : rest[j] \notin Dotted \cup {":", "@", "/"}
      <4>1. i - 2 + 2 = i /\ 1 + 2 = 3
        BY <1>2
      <4>2. \A j \in 1 .. i - 3 : j + 2 \in 3 .. i - 1 /\ j \in 1 .. n - 2
        BY <1>2, <3>6
      <4>3. 1 \in 1 .. n - 2 /\ i - 2 \in 1 .. n - 2
        BY <1>2, <3>6
      <4>. QED
        BY <3>5, <3>7, <4>1, <4>2, <4>3
    <3>9. PICK k \in 0 .. Len(rest) :
            /\ k = 0 => \A j \in 1 .. Len(rest) : rest[j] # "/"
            /\ k > 0 => rest[k] = "/" /\ \A j \in 1 .. k - 1 : rest[j] # "/"
            /\ Normalize(rest) = Place(rest, k)
      BY <2>3, NormalizeIs
    <3>10. k = i - 2
      <4>1. k > 0
        <5>1. k # 0
          BY <3>7, <3>8, <3>9
        <5>2. k \in Nat
          BY <1>2, <3>7
        <5>. QED
          BY <5>1, <5>2
      <4>2. i - 2 \notin 1 .. k - 1 /\ k \notin 1 .. i - 3
        BY <3>8, <3>9, <4>1
      <4>. QED
        BY <1>2, <3>7, <4>1, <4>2
    <3>11. PICK org : org = SubSeq(rest, 1, k - 1)
      OBVIOUS
    <3>12. /\ org \in Texts /\ Len(org) = i - 3 /\ 1 \in 1 .. i - 3
           /\ \A j \in 1 .. i - 3 : org[j] = rest[j]
      BY <1>2, <2>3, <3>7, <3>10, <3>11, CutType
    <3>13. ToSet(org) \cap (Dotted \cup {":"}) = {}
      <4>1. DOMAIN org = 1 .. i - 3
        BY <3>12 DEF Texts
      <4>. QED
        BY <3>8, <3>12, <4>1 DEF ToSet
    <3>14. org # <<"localhost">>
      BY <3>8, <3>12
    <3>15. Normalize(rest) = <<<<"docker.io">>, rest>>
      BY <1>2, <3>9, <3>10, <3>11, <3>13, <3>14 DEF Place
    <3>. QED
      BY <2>1, <2>5, <3>15 DEF AskedAs, SplitName
  <2>6. first \o <<"/">> \o rest = name
    <3>. DEFINE f == first \o <<"/">>
                t == f \o rest
    <3>1. <<"/">> \in Texts
      BY TokenFacts DEF Texts
    <3>2. /\ f \in Texts /\ Len(f) = slash
          /\ \A i \in 1 .. slash : f[i] = name[i]
      BY <2>2, <2>4, <3>1, ConcatProperties DEF Texts
    <3>. HIDE DEF f
    <3>3. /\ t \in Texts /\ Len(t) = n
          /\ \A i \in 1 .. n : t[i] = IF i <= slash THEN f[i] ELSE rest[i - slash]
      <4>1. /\ t \in Texts /\ Len(t) = Len(f) + Len(rest)
            /\ \A i \in 1 .. Len(f) + Len(rest) :
                 t[i] = IF i <= Len(f) THEN f[i] ELSE rest[i - Len(f)]
        BY <2>3, <3>2, ConcatProperties DEF Texts
      <4>2. Len(f) + Len(rest) = n
        BY <1>4, <2>3, <3>2
      <4>. HIDE DEF t
      <4>. QED
        BY <3>2, <4>1, <4>2
    <3>. HIDE DEF t
    <3>4. \A i \in 1 .. n : t[i] = name[i]
      BY <1>4, <2>3, <3>2, <3>3
    <3>5. t = name
      BY <1>4, <3>3, <3>4, SeqEqual DEF Texts
    <3>. QED
      BY <3>5 DEF t, f
  <2>7. CASE first # <<"docker.io">>
    <3>1. AskedAs(image) = name
      BY <2>1, <2>6, <2>7 DEF AskedAs
    <3>. QED
      BY <2>1, <2>4, <3>1 DEF SplitName
  <2>. QED
    BY <2>5, <2>7
<1>9. CASE slash > 0 /\ ~named
  <2>1. Normalize(name) = <<<<"docker.io">>, name>>
    BY <1>6, <1>9 DEF Place
  <2>. QED
    BY <1>5, <2>1 DEF AskedAs, SplitName
<1>. QED
  BY <1>4, <1>7, <1>8, <1>9

\* What parse_dockerfile returns is what docker build pulls.
LEMMA ParsedAsBuilt ==
    ASSUME NEW file \in Seq(Lines), input \in Requests, NEW p \in Parses,
           ParserInv(file, Len(file), p)
    PROVE  AsBuilt(p.images, file)
<1>. SUFFICES ASSUME Comparable(file, input.args)
              PROVE  LET external == {image \in ToSet(p.images) : ~image.internal} IN
                     /\ external = Pulls(file, input.args)
                     /\ \A image \in external :
                          SplitName(AskedAs(image))
                            = <<image.registry, image.repository>>
  BY Zenon DEF AsBuilt
<1>. DEFINE external == {image \in ToSet(p.images) : ~image.internal}
            Ref(i) == Text(file[i].ref, file, input.args)
            Plat(i) == Text(file[i].platform, file, input.args)
            Within(i) == Lower(Ref(i)) \in Aliases(file, i - 1, p.args)
<1>1. \A i \in Froms(file) :
        /\ Base(file, i, p.args) = Ref(i) /\ Platform(file, i, p.args) = Plat(i)
        /\ Ref(i) \in Texts /\ Plat(i) \in Texts
  BY FilesAgree
<1>2. Froms(file) \subseteq 1 .. Len(file) /\ Len(file) \in Nat
  BY DEF Froms
<1>3. Stages(file, Len(file)) = Froms(file)
  BY <1>2 DEF Stages
<1>. HIDE DEF Ref, Plat
<1>4. \A n : Kept(file, n, p.args) =
        {i \in Stages(file, n) : ~Scratch(Ref(i))}
  BY <1>1 DEF Kept, Stages
<1>5. Kept(file, Len(file), p.args) = {i \in Froms(file) : ~Scratch(Ref(i))}
  BY <1>3, <1>4
<1>6. ASSUME NEW i \in Froms(file)
      PROVE  Within(i) <=> Bases(i, file, input.args) # {}
  <2>1. \A j \in Bases(i, file, input.args) : ~Scratch(Ref(j))
    BY Zenon DEF Comparable, Ref
  <2>2. \A j \in Froms(file) : j <= i - 1 <=> j < i
    BY <1>2
  <2>3. Bases(i, file, input.args) =
          {j \in Froms(file) : /\ j < i /\ file[j].as # <<>>
                               /\ Lower(file[j].as) = Lower(Ref(i))}
    BY DEF Bases, Ref
  <2>4. Aliases(file, i - 1, p.args) =
          {Lower(file[j].as) : j \in {k \in Froms(file) :
             k <= i - 1 /\ ~Scratch(Ref(k)) /\ file[k].as # <<>>}}
    <3>1. {j \in Kept(file, i - 1, p.args) : file[j].as # <<>>} =
            {k \in Froms(file) :
               k <= i - 1 /\ ~Scratch(Ref(k)) /\ file[k].as # <<>>}
      BY <1>4 DEF Stages
    <3>. QED
      BY <3>1 DEF Aliases
  <2>. QED
    BY <2>1, <2>2, <2>3, <2>4
<1>7. \A i \in Froms(file) :
        Named(file, i, p.args) = ResolvedImage(Ref(i), Plat(i), Within(i))
  BY <1>1 DEF Named
<1>. HIDE DEF Within
<1>8. ToSet(p.images) = {ResolvedImage(Ref(i), Plat(i), Within(i)) :
                           i \in {j \in Froms(file) : ~Scratch(Ref(j))}}
  <2>1. ToSet(p.images) =
          {Named(file, i, p.args) : i \in Kept(file, Len(file), p.args)}
    BY Zenon DEF ParserInv
  <2>. QED
    BY <1>5, <1>7, <2>1
<1>9. \A i \in Froms(file) :
        /\ ResolvedImage(Ref(i), Plat(i), Within(i)).internal = Within(i)
        /\ ~Within(i) => Within(i) = FALSE
  <2>. SUFFICES ASSUME NEW i \in Froms(file)
                PROVE  /\ ResolvedImage(Ref(i), Plat(i), Within(i)).internal
                            = Within(i)
                       /\ ~Within(i) => Within(i) = FALSE
    OBVIOUS
  <2>1. Within(i) \in BOOLEAN
    BY DEF Within
  <2>. QED
    BY <1>1, <2>1, ImageType
<1>10. Pulls(file, input.args) =
         {ResolvedImage(Ref(i), Plat(i), FALSE) :
            i \in {j \in Froms(file) : /\ ~Scratch(Ref(j))
                                       /\ Bases(j, file, input.args) = {}}}
  BY Zenon DEF Pulls, Ref, Plat
<1>11. external = Pulls(file, input.args)
  <2>1. ASSUME NEW image \in external PROVE image \in Pulls(file, input.args)
    <3>1. PICK i \in Froms(file) :
            ~Scratch(Ref(i)) /\ image = ResolvedImage(Ref(i), Plat(i), Within(i))
      BY <1>8
    <3>2. ~Within(i) /\ Within(i) = FALSE
      BY <1>9, <3>1
    <3>3. Bases(i, file, input.args) = {}
      BY <1>6, <3>2
    <3>4. image = ResolvedImage(Ref(i), Plat(i), FALSE)
      BY <3>1, <3>2
    <3>. QED
      BY <1>10, <3>1, <3>3, <3>4
  <2>2. ASSUME NEW image \in Pulls(file, input.args) PROVE image \in external
    <3>1. PICK i \in Froms(file) :
            /\ ~Scratch(Ref(i)) /\ Bases(i, file, input.args) = {}
            /\ image = ResolvedImage(Ref(i), Plat(i), FALSE)
      BY <1>10
    <3>2. ~Within(i) /\ Within(i) = FALSE
      BY <1>6, <1>9, <3>1
    <3>3. image = ResolvedImage(Ref(i), Plat(i), Within(i)) /\ ~image.internal
      BY <1>9, <3>1, <3>2
    <3>. QED
      BY <1>8, <3>1, <3>3
  <2>. QED
    BY <2>1, <2>2
<1>12. ASSUME NEW image \in external
       PROVE  SplitName(AskedAs(image)) = <<image.registry, image.repository>>
  <2>1. PICK i \in Froms(file) :
          image = ResolvedImage(Ref(i), Plat(i), Within(i))
    BY <1>8
  <2>2. IsPrefix(<<"docker.io", "/">>, Ref(i)) => InFull(Ref(i))
    BY Zenon DEF Comparable, Ref
  <2>3. /\ image.registry = ParseImageRef(Ref(i)).registry
        /\ image.repository = ParseImageRef(Ref(i)).repository
    BY <2>1 DEF ResolvedImage
  <2>4. Ref(i) \in Texts
    BY <1>1
  <2>. QED
    BY <2>2, <2>3, <2>4, AskedRight
<1>. QED
  BY <1>11, <1>12, Zenon

LEMMA BuiltInit == Init => BuiltInv
<1>. SUFFICES ASSUME Init PROVE BuiltInv
  OBVIOUS
<1>1. an.pc = "service" /\ an.services = input.services
  BY DEF Init, Start
<1>. QED
  BY <1>1 DEF BuiltInv, ParseInv, OneFile, Working

LEMMA BuiltOthers == BuiltInv /\ [Next]_vars /\ ~Analysis => BuiltInv'
<1>. SUFFICES ASSUME BuiltInv, [Next]_vars, ~Analysis PROVE BuiltInv'
  OBVIOUS
<1>1. an' = an /\ input' = input
  BY OthersKeep
<1>2. \A file, n, p : ParserInv(file, n, p)' <=> ParserInv(file, n, p)
  BY <1>1 DEF ParserInv, Argument, Kept, Aliases, Named, Base, Platform
<1>3. \A images, file : AsBuilt(images, file)' <=> AsBuilt(images, file)
  BY <1>1 DEF AsBuilt
<1>. QED
  BY <1>1, <1>2, <1>3 DEF BuiltInv, ParseInv, OneFile, Working

LEMMA BuiltStart ==
    ASSUME TypeOK, Control, BuiltInv,
           SkipService \/ ResolveImageRef \/ ResolveDockerfile
             \/ ParseDockerfile \/ Parsed
    PROVE  BuiltInv'
<1>1. input' = input
  BY SkipServiceStep, ResolveImageRefStep, ResolveDockerfileStep,
     ParseDockerfileStep, ParsedStep
<1>2. input \in Requests /\ input.services \in Seq(Services)
      /\ an.services \in Seq(Services)
  BY AnTypes DEF TypeOK, Requests
<1>3. ~input.compose /\ an.services = input.services =>
        /\ Head(an.services) = input.services[1]
        /\ Tail(an.services) = <<>>
        /\ Head(an.services).kind = "build" /\ Returned(Head(an.services))
  <2>. SUFFICES ASSUME ~input.compose, an.services = input.services
                PROVE  /\ Head(an.services) = input.services[1]
                       /\ Tail(an.services) = <<>>
                       /\ Head(an.services).kind = "build"
                       /\ Returned(Head(an.services))
    OBVIOUS
  <2>1. Len(an.services) = 1 /\ input.services[1].kind = "build"
    BY DEF Control
  <2>2. Head(an.services) = input.services[1]
    BY <1>2, <2>1
  <2>3. Tail(an.services) = <<>>
    <3>1. Tail(an.services) \in Seq(Services) /\ Len(Tail(an.services)) = 0
      BY <1>2, <2>1, HeadTailProperties
    <3>. QED
      BY <3>1, EmptySeq
  <2>4. Returned(Head(an.services))
    BY DEF Returned
  <2>. QED
    BY <2>1, <2>2, <2>3, <2>4
<1>4. CASE SkipService
  <2>1. /\ an'.pc = "service" /\ an.pc = "service" /\ an.services # <<>>
        /\ Returned(Head(an.services)) => Head(an.services).kind = "image"
    BY <1>4, SkipServiceStep DEF SkipService
  <2>2. input.compose
    BY <1>3, <2>1 DEF BuiltInv, OneFile
  <2>. QED
    BY <1>1, <2>1, <2>2 DEF BuiltInv, ParseInv
<1>5. CASE ResolveImageRef
  <2>1. /\ an'.pc = "image" /\ an.pc = "service" /\ an.services # <<>>
        /\ Head(an.services).kind = "image"
    BY <1>5, ResolveImageRefStep DEF ResolveImageRef
  <2>2. input.compose
    BY <1>3, <2>1 DEF BuiltInv, OneFile
  <2>. QED
    BY <1>1, <2>1, <2>2 DEF BuiltInv, ParseInv
<1>6. CASE ResolveDockerfile
  <2>1. /\ an'.pc = "parse" /\ an'.service = Head(an.services) /\ an'.done = 0
        /\ an'.parse = NoParse /\ an'.services = Tail(an.services)
        /\ an.pc = "service" /\ an.services # <<>>
    BY <1>6, ResolveDockerfileStep DEF ResolveDockerfile
  <2>2. an'.service.file \in Seq(Lines)
    BY <1>2, <2>1, HeadType, ServiceType
  <2>3. PICK file : file = an'.service.file
    OBVIOUS
  <2>4. ParserInv(file, 0, NoParse)
    BY <1>2, <2>2, <2>3, ParserStart
  <2>5. ParseInv'
    BY <1>1, <2>1, <2>3, <2>4
       DEF ParseInv, ParserInv, Argument, Kept, Aliases, Named, Base, Platform
  <2>6. ~input.compose => OneFile'
    BY <1>1, <1>3, <2>1 DEF BuiltInv, OneFile, Working
  <2>. QED
    BY <1>1, <2>5, <2>6 DEF BuiltInv
<1>7. CASE ParseDockerfile
  <2>1. PICK q : q = ParseLine(an.service.file[an.done + 1], input.args, an.parse)
    OBVIOUS
  <2>2. PICK file, n : file = an.service.file /\ n = an.done
    OBVIOUS
  <2>3. /\ an.pc = "parse" /\ an.done < Len(an.service.file)
        /\ an'.services = an.services /\ an'.service = an.service
        /\ \/ /\ ~q.error /\ an'.pc = "parse" /\ an'.done = n + 1 /\ an'.parse = q
           \/ input.compose /\ an'.pc = "service"
           \/ an'.pc = "failed"
    BY <1>7, <2>1, <2>2, ParseDockerfileStep
  <2>4. ~input.compose => OneFile'
    BY <1>1, <2>3 DEF BuiltInv, OneFile, Working
  <2>5. ASSUME ~q.error PROVE ParserInv(file, n + 1, q)
    <3>1. /\ file \in Seq(Lines) /\ n \in Nat /\ n < Len(file)
          /\ an.parse \in Parses
      BY <2>2, <2>3, AnTypes, ServiceType
    <3>2. ParserInv(file, n, an.parse)
      BY <2>2, <2>3 DEF BuiltInv, ParseInv
    <3>3. q = ParseLine(file[n + 1], input.args, an.parse)
      BY <2>1, <2>2
    <3>. QED
      BY <1>2, <2>5, <3>1, <3>2, <3>3, ParserStep
  <2>6. ParseInv'
    <3>. SUFFICES ASSUME an'.pc = "parse"
                  PROVE  ParserInv(an.service.file, an.done, an.parse)'
      BY DEF ParseInv
    <3>1. /\ ~q.error /\ an'.service.file = file /\ an'.done = n + 1
          /\ an'.parse = q
      BY <2>2, <2>3
    <3>2. ParserInv(file, n + 1, q)
      BY <2>5, <3>1
    <3>. QED
      BY <1>1, <3>1, <3>2
         DEF ParserInv, Argument, Kept, Aliases, Named, Base, Platform
  <2>. QED
    BY <1>1, <2>4, <2>6 DEF BuiltInv
<1>8. CASE Parsed
  <2>1. /\ an'.pc = "image" /\ an'.services = an.services
        /\ an'.out = [Empty EXCEPT !.images = an.parse.images]
        /\ an.pc = "parse" /\ an.done = Len(an.service.file)
    BY <1>8, ParsedStep
  <2>2. an'.out.images = an.parse.images
    BY <2>1 DEF Empty
  <2>3. AsBuilt(an.parse.images, an.service.file)
    BY <1>2, <2>1, ParsedAsBuilt, AnTypes, ServiceType DEF BuiltInv, ParseInv
  <2>4. ~input.compose => an.services = <<>> /\ an.service = input.services[1]
    BY <2>1 DEF BuiltInv, OneFile
  <2>5. ~input.compose => OneFile'
    BY <1>1, <2>1, <2>2, <2>3, <2>4 DEF OneFile, AsBuilt, Working
  <2>. QED
    BY <1>1, <2>1, <2>5 DEF BuiltInv, ParseInv
<1>. QED
  BY <1>4, <1>5, <1>6, <1>7, <1>8

LEMMA BuiltWork ==
    ASSUME TypeOK, Control, BuiltInv, FindManifest \/ CheckStale \/ Look \/ Looked
    PROVE  BuiltInv'
<1>1. input' = input /\ Working /\ Working' /\ an'.services = an.services
  BY FindManifestStep, CheckStaleStep, LookStep, LookedStep DEF Working
<1>2. an'.out.images = an.out.images
  <2>1. CASE FindManifest
    BY <2>1, FindManifestStep, AnTypes DEF Results
  <2>2. CASE CheckStale
    BY <2>2, CheckStaleStep, AnTypes DEF Results
  <2>3. CASE Look
    BY <2>3, LookStep
  <2>4. CASE Looked
    BY <2>4, LookedStep, AnTypes DEF Results
  <2>. QED
    BY <2>1, <2>2, <2>3, <2>4
<1>3. an'.pc \in {"image", "stale", "look"}
  BY <1>1 DEF Working
<1>4. ~input.compose => OneFile'
  BY <1>1, <1>2, <1>3 DEF BuiltInv, OneFile, AsBuilt
<1>. QED
  BY <1>1, <1>3, <1>4 DEF BuiltInv, ParseInv

LEMMA BuiltEnd ==
    ASSUME TypeOK, Control, BuiltInv,
           EndService \/ EndDockerfile \/ MergeMissing \/ Merged \/ EndAnalysis
    PROVE  BuiltInv'
<1>1. input' = input /\ an'.pc \in {"service", "merge", "done"}
  BY EndServiceStep, EndDockerfileStep, MergeMissingStep, MergedStep,
     EndAnalysisStep
<1>2. CASE EndService
  <2>1. /\ an'.pc = "service" /\ an'.services = an.services
        /\ an'.result = an.out /\ Working
    BY <1>2, EndServiceStep DEF Working
  <2>2. ~input.compose => OneFile'
    BY <1>1, <2>1 DEF BuiltInv, OneFile, AsBuilt, Working
  <2>. QED
    BY <1>1, <2>1, <2>2 DEF BuiltInv, ParseInv
<1>3. CASE EndDockerfile \/ MergeMissing \/ Merged
  <2>1. input.compose
    BY <1>3, EndDockerfileStep, MergeMissingStep, MergedStep DEF BuiltInv, OneFile
  <2>. QED
    BY <1>1, <2>1 DEF BuiltInv, ParseInv
<1>4. CASE EndAnalysis
  <2>1. /\ an'.pc = "done" /\ an.pc = "service" /\ an.services = <<>>
        /\ an'.result = an.result
    BY <1>4, EndAnalysisStep
  <2>2. ~input.compose => input.services # <<>>
    BY DEF Control, TypeOK, Requests
  <2>3. ~input.compose => OneFile'
    BY <1>1, <2>1, <2>2 DEF BuiltInv, OneFile, AsBuilt, Working
  <2>. QED
    BY <1>1, <2>1, <2>3 DEF BuiltInv, ParseInv
<1>. QED
  BY <1>2, <1>3, <1>4

LEMMA BuiltFailed == TypeOK /\ BuiltInv /\ LookupRaises => BuiltInv'
<1>. SUFFICES ASSUME TypeOK, BuiltInv, LookupRaises PROVE BuiltInv'
  OBVIOUS
<1>1. an'.pc = "failed" /\ input' = input
  BY LookupRaisesStep
<1>. QED
  BY <1>1 DEF BuiltInv, ParseInv, OneFile, Working

LEMMA BuiltNext == TypeOK /\ Control /\ BuiltInv /\ [Next]_vars => BuiltInv'
  BY BuiltOthers, BuiltStart, BuiltWork, BuiltFailed, BuiltEnd DEF Analysis

\* What resolve_dockerfile names is what docker build pulls for the FROM lines
\* of a file, however many stages, aliases and ARGs with constant defaults they
\* combine and whatever declared build arguments are given, and _split_name
\* leads back to each image.  Of the forms Comparable leaves out, undeclared
\* build arguments among them, it says nothing.
THEOREM NamesWhatIsPulled == Spec => []ImagesAsBuilt
<1>1. BuiltInv => ImagesAsBuilt
  BY DEF BuiltInv, OneFile, ImagesAsBuilt, Done
<1>2. TypeOK /\ Control /\ BuiltInv /\ [Next]_vars => BuiltInv'
  BY BuiltNext
<1>. QED
  BY <1>1, <1>2, BuiltInit, ResolverTypes, PTL DEF Spec
=============================================================================
