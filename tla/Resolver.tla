------------------------------ MODULE Resolver ------------------------------
(***************************************************************************)
(* One POST /admin/analyze: a Dockerfile or a Compose file is parsed, and  *)
(* the images it builds on are looked up in the manifest cache and their   *)
(* blobs in the store, while other threads import and delete.              *)
(*                                                                         *)
(* A reference is a sequence of tokens: <<"reg.io", "/", "app", ":", "1">> *)
(* is reg.io/app:1.  Abstractions: a text has at most one variable, at its *)
(* end, and the default of an ARG has none; comments, continuation lines   *)
(* and other instructions, COPY --from among them, are left out; a         *)
(* manifest's age is fresh or over the TTL.  The handler passes no         *)
(* private_registries to the resolver, so no image is private here.        *)
(***************************************************************************)
EXTENDS Integers, Sequences, FiniteSets, SequencesExt

CONSTANTS
    Scenarios,   \* requests, each with what is stored and cached when it comes
    Tokens,      \* what references are made of
    Vars,        \* names of ARGs
    Dotted,      \* tokens that contain a dot
    LowerCase,   \* tokens that have capitals, with their lower-case form
    Keys,        \* <<registry, repository, tag, platform>> that may be cached
    Layers,      \* of each manifest, its config and layers in order
    SourceOf,    \* of each manifest, its source_digest
    Default,     \* default_platform
    MaxChanges   \* bound: blobs and manifests that change meanwhile

Manifests == DOMAIN Layers
Blobs == UNION {ToSet(Layers[m]) : m \in Manifests}
NotCached == "not_cached"
Torn == "torn"      \* a part of a manifest's file, which is no JSON
NoManifest == {NotCached, Torn}

NoValue == <<"no_value">>
NoText == [form |-> "none", text |-> <<>>, var |-> "", word |-> <<>>]
NoArgs == [v \in Vars |-> NoValue]

\* What a Dockerfile, a service and a request are made of.
Texts == Seq(Tokens)
Forms == [form : {"none", "word", "var", ":-", ":+"}, text : Texts, var : Vars,
          word : Texts]
Lines == [op : {"ARG"}, var : Vars, default : Texts]
           \cup [op : {"FROM"}, platform : Forms, ref : Forms, as : Texts]
Services == [kind : {"image", "build", "none"}, ref : Texts, file : Seq(Lines)]
Requests == [compose : BOOLEAN, local : BOOLEAN, services : Seq(Services),
             args : [Vars -> Texts]]

\* A request that is not about Compose has one Dockerfile.
ASSUME ResolverAssumption ==
    /\ {"docker.io", "library", "/", "latest", "no_value"} \subseteq Tokens
    /\ Layers \in [Manifests -> Seq(Blobs)]
    /\ SourceOf \in [Manifests -> STRING]
    /\ Manifests \cap NoManifest = {}
    /\ "library" \notin Dotted
    /\ \A c \in DOMAIN LowerCase : LowerCase[c] \in Tokens
    /\ \A s \in Scenarios :
         /\ s.input \in Requests
         /\ ~s.input.compose => /\ Len(s.input.services) = 1
                                /\ s.input.services[1].kind = "build"
         /\ s.blobs \subseteq Blobs
         /\ s.cache \in [Keys -> Manifests \cup NoManifest]
         /\ s.aged \subseteq {k \in Keys : s.cache[k] # NotCached}
    /\ MaxChanges \in Nat

-----------------------------------------------------------------------------
(* Parsing *)

\* The value of an ARG: a build argument, or its last default before FROM.
ValueOf(v, args, buildArgs) ==
    IF buildArgs[v] # NoValue THEN buildArgs[v] ELSE args[v]

\* _substitute_args: text, text$VAR, text${VAR:-word}, text${VAR:+word}.  An
\* ARG without a value is an error in the second form.
Substitute(x, args, buildArgs) ==
    LET value == ValueOf(x.var, args, buildArgs)
        set == value \notin {NoValue, <<>>} IN
    CASE x.form = "none" -> <<>>
      [] x.form = "word" -> x.text
      [] x.form = "var" -> IF value = NoValue THEN NoValue ELSE x.text \o value
      [] x.form = ":-" -> x.text \o (IF set THEN value ELSE x.word)
      [] x.form = ":+" -> x.text \o (IF set THEN x.word ELSE <<>>)

Lower(name) == [i \in DOMAIN name |-> IF name[i] \in DOMAIN LowerCase
                                        THEN LowerCase[name[i]] ELSE name[i]]

\* find and rfind: where a token is, 0 if it is not there.
FirstAt(text, token) == SelectInSeq(text, LAMBDA c : c = token)
LastAt(text, token) == SelectLastInSeq(text, LAMBDA c : c = token)

\* _normalize_registry.
Normalize(name) ==
    LET slash == FirstAt(name, "/")
        first == SubSeq(name, 1, slash - 1)
    IN  IF slash = 0 THEN <<<<"docker.io">>, <<"library", "/">> \o name>>
        ELSE IF ToSet(first) \cap (Dotted \cup {":"}) # {}
                \/ first = <<"localhost">>
          THEN <<first, SubSeq(name, slash + 1, Len(name))>>
          ELSE <<<<"docker.io">>, name>>

\* _split_name of the handler, for the name in a client's pull.
SplitName(name) == Normalize(name)

\* _parse_image_ref: a digest, else the tag after the last colon that comes
\* after the last slash, else `latest'.
ParseImageRef(raw) ==
    LET at == FirstAt(raw, "@")
        slash == LastAt(raw, "/")
        colon == LastAt(raw, ":")
        Image(name, tag, digest) ==
            [registry |-> Normalize(name)[1], repository |-> Normalize(name)[2],
             tag |-> tag, digest |-> digest]
    IN  CASE at > 0 -> Image(SubSeq(raw, 1, at - 1), <<>>,
                             SubSeq(raw, at + 1, Len(raw)))
          [] at = 0 /\ colon > slash -> Image(SubSeq(raw, 1, colon - 1),
                                SubSeq(raw, colon + 1, Len(raw)), <<>>)
          [] OTHER -> Image(raw, <<"latest">>, <<>>)

ResolvedImage(raw, platform, internal) ==
    LET ref == ParseImageRef(raw) IN
    [registry |-> ref.registry, repository |-> ref.repository, tag |-> ref.tag,
     digest |-> ref.digest, platform |-> platform, internal |-> internal]

Scratch(raw) == Lower(raw) = <<"scratch">>

\* _parse_from: nothing for scratch, not even its alias; a reference to an
\* earlier alias is internal.
ParseFrom(line, buildArgs, p) ==
    LET platform == Substitute(line.platform, p.args, buildArgs)
        raw == Substitute(line.ref, p.args, buildArgs)
    IN  IF NoValue \in {platform, raw} THEN [p EXCEPT !.error = TRUE]
        ELSE IF Scratch(raw) THEN [p EXCEPT !.from = TRUE]
        ELSE [p EXCEPT !.from = TRUE,
                       !.images = Append(@, ResolvedImage(raw, platform,
                                              Lower(raw) \in p.aliases)),
                       !.aliases = @ \cup ({Lower(line.as)} \ {<<>>})]

\* _parse_arg.
ParseArg(line, buildArgs, p) ==
    [p EXCEPT !.args[line.var] =
       IF buildArgs[line.var] # NoValue THEN buildArgs[line.var]
       ELSE line.default]

\* Mutant: an ARG inside a stage counts for the next FROM.
ParseLine_LateArg(line, buildArgs, p) ==
    IF line.op = "FROM" THEN ParseFrom(line, buildArgs, p)
    ELSE ParseArg(line, buildArgs, p)

\* One turn of the loop of parse_dockerfile: an ARG counts only before the
\* first FROM.
ParseLine(line, buildArgs, p) ==
    IF line.op = "FROM" THEN ParseFrom(line, buildArgs, p)
    ELSE IF p.from THEN p
    ELSE ParseArg(line, buildArgs, p)

\* A service of a file the daemon reads is left out when it has neither image
\* nor build ...
ParseCompose(service) == service.kind \in {"image", "build"}

\* ... and in a file that was sent also when it is built.
ParseComposeContent(service) == service.kind = "image"

-----------------------------------------------------------------------------
(* The analysis *)

VARIABLES
    blobs,      \* the store: digests that are there
    cache,      \* the manifest cache: the manifest under each key
    aged,       \* keys whose cached_at is over the TTL
    input,      \* the request
    an,         \* the analysis: how far it has come and its result
    changes,    \* changes by other threads so far
    touched,    \* history: digests they imported or deleted
    held        \* history: <<key, manifest>> that have been cached

vars == <<blobs, cache, aged, input, an, changes, touched, held>>
world == <<blobs, cache, aged, changes, touched, held>>

Empty == [images |-> <<>>, present |-> {}, missing |-> <<>>, warnings |-> {},
          stale |-> {}]

NoService == [kind |-> "none", ref |-> <<>>, file |-> <<>>]
NoParse == [args |-> NoArgs, aliases |-> {}, images |-> <<>>, from |-> FALSE,
            error |-> FALSE]

\* pc; the services to be done and the one in hand; how many lines, digests or
\* missing blobs of the loop at hand are done; the variables of
\* parse_dockerfile; the images to be done, the manifest of the first and what
\* list_missing has found of it; the results of this service and of all;
\* seen_digests of both; seen_image_refs.
Start(in) ==
    [pc |-> "service", services |-> in.services, service |-> NoService,
     done |-> 0, parse |-> NoParse, images |-> <<>>, manifest |-> NotCached,
     missing |-> <<>>, out |-> Empty, result |-> Empty, seen |-> {},
     allSeen |-> {}, refs |-> {}]

Init ==
    /\ \E s \in Scenarios :
         /\ input = s.input
         /\ blobs = s.blobs
         /\ cache = s.cache
         /\ aged = s.aged
    /\ an = Start(input)
    /\ changes = 0
    /\ touched = {}
    /\ held = {<<k, cache[k]>> : k \in Keys}

Images == [registry : Texts, repository : Texts, tag : Texts, digest : Texts,
           platform : Texts, internal : BOOLEAN]
Warnings == ({"latest", "uncached"} \X Images) \cup ({"stale"} \X Keys)
              \cup ({"service"} \X Services)
Results == [images : Seq(Images), present : SUBSET Blobs, missing : Seq(Blobs),
            warnings : SUBSET Warnings, stale : SUBSET Keys]
Parses == [args : [Vars -> Texts], aliases : SUBSET Texts, images : Seq(Images),
           from : BOOLEAN, error : BOOLEAN]
Analyses == [pc : {"service", "parse", "image", "stale", "look", "merge",
                   "done", "failed"},
             services : Seq(Services), service : Services, done : Nat,
             parse : Parses, images : Seq(Images),
             manifest : Manifests \cup {NotCached}, missing : Seq(Blobs),
             out : Results, result : Results, seen : SUBSET Blobs,
             allSeen : SUBSET Blobs, refs : SUBSET Texts]

TypeOK ==
    /\ blobs \subseteq Blobs
    /\ cache \in [Keys -> Manifests \cup NoManifest]
    /\ aged \subseteq {k \in Keys : cache[k] # NotCached}
    /\ input \in Requests
    /\ an \in Analyses
    /\ changes \in 0 .. MaxChanges
    /\ touched \subseteq Blobs
    /\ held \subseteq Keys \X (Manifests \cup NoManifest)

Image == Head(an.images)
Key(image) == <<image.registry, image.repository, image.tag,
                IF image.platform = <<>> THEN Default ELSE image.platform>>

\* _lookup_by_digest: whatever image the manifest belongs to.
LookupByDigest(digest) ==
    {m \in {cache[k] : k \in Keys} \ NoManifest : <<SourceOf[m]>> = digest}

\* ManifestCache.get_manifest: a tag is looked for under its key.
Lookup(image) ==
    IF image.digest # <<>> THEN LookupByDigest(image.digest)
    ELSE {cache[k] : k \in {Key(image)} \cap Keys} \ NoManifest

\* It meets a file that is no JSON: for a digest all files are read, in any
\* order, until one has it.
Raises(image) ==
    \E k \in Keys : cache[k] = Torn /\ (image.digest # <<>> \/ k = Key(image))

\* What the parser of the request returns of its services.
Returned(service) ==
    IF ~input.compose THEN TRUE
    ELSE IF input.local THEN ParseCompose(service)
    ELSE ParseComposeContent(service)

\* A service that was not returned, or whose image an earlier one has.
SkipService ==
    /\ an.pc = "service"
    /\ an.services # <<>>
    /\ LET s == Head(an.services) IN
       Returned(s) => s.kind = "image" /\ s.ref \in an.refs
    /\ an' = [an EXCEPT !.services = Tail(@)]
    /\ UNCHANGED <<world, input>>

\* A service with an image, which goes into the result of the Compose file.
ResolveImageRef ==
    /\ an.pc = "service"
    /\ an.services # <<>>
    /\ LET s == Head(an.services)
           image == ResolvedImage(s.ref, <<>>, FALSE) IN
       /\ Returned(s) /\ s.kind = "image" /\ s.ref \notin an.refs
       /\ an' = [an EXCEPT !.pc = "image", !.services = Tail(@), !.service = s,
                   !.refs = @ \cup {s.ref}, !.images = <<image>>,
                   !.out = [an.result EXCEPT !.images = Append(@, image)],
                   !.seen = an.allSeen]
    /\ UNCHANGED <<world, input>>

\* A Dockerfile, which has a result of its own.
ResolveDockerfile ==
    /\ an.pc = "service"
    /\ an.services # <<>>
    /\ LET s == Head(an.services) IN
       /\ Returned(s) /\ s.kind = "build"
       /\ an' = [an EXCEPT !.pc = "parse", !.services = Tail(@), !.service = s,
                   !.done = 0, !.parse = NoParse]
    /\ UNCHANGED <<world, input>>

\* A line.  A Dockerfile that cannot be parsed is a warning in a Compose file
\* and fails a request of its own.
ParseDockerfile ==
    /\ an.pc = "parse"
    /\ an.done < Len(an.service.file)
    /\ LET p == ParseLine(an.service.file[an.done + 1], input.args, an.parse) IN
       \/ /\ ~p.error
          /\ an' = [an EXCEPT !.done = @ + 1, !.parse = p]
       \/ /\ p.error /\ input.compose
          /\ an' = [an EXCEPT !.pc = "service", !.parse = NoParse,
                      !.result.warnings = @ \cup {<<"service", an.service>>}]
       \/ /\ p.error /\ ~input.compose
          /\ an' = [an EXCEPT !.pc = "failed"]
    /\ UNCHANGED <<world, input>>

Parsed ==
    /\ an.pc = "parse"
    /\ an.done = Len(an.service.file)
    /\ an' = [an EXCEPT !.pc = "image", !.parse = NoParse,
                !.images = an.parse.images,
                !.out = [Empty EXCEPT !.images = an.parse.images],
                !.seen = {}]
    /\ UNCHANGED <<world, input>>

NextImage(out) ==
    [an EXCEPT !.pc = "image", !.images = Tail(@), !.manifest = NotCached,
               !.out = out]

Latest(image) ==
    IF image.tag = <<"latest">> THEN {<<"latest", image>>} ELSE {}

\* _resolve_image_blobs up to the manifest.
FindManifest ==
    /\ an.pc = "image"
    /\ an.images # <<>>
    /\ IF Image.internal
         THEN an' = NextImage(an.out)
         ELSE \/ /\ Lookup(Image) = {} /\ ~Raises(Image)
                 /\ an' = NextImage([an.out EXCEPT !.warnings =
                            @ \cup Latest(Image) \cup {<<"uncached", Image>>}])
              \/ \E m \in Lookup(Image) :
                   an' = [an EXCEPT !.pc = "stale", !.manifest = m,
                            !.out.warnings = @ \cup Latest(Image)]
    /\ UNCHANGED <<world, input>>

\* Mutant: an image pinned by digest has no age and counts as stale.
Stale_Pinned(image) ==
    IF image.tag # <<>> THEN {Key(image)} \cap aged ELSE {Key(image)}

\* ManifestCache.is_stale, asked for tags only.
Stale(image) == IF image.tag # <<>> THEN {Key(image)} \cap aged ELSE {}

\* A lookup raises: the request ends with status 500, a Compose file's too.
LookupRaises ==
    /\ an.pc = "image" \/ (an.pc = "stale" /\ Image.tag # <<>>)
    /\ an.images # <<>>
    /\ ~Image.internal
    /\ Raises(Image)
    /\ an' = [an EXCEPT !.pc = "failed"]
    /\ UNCHANGED <<world, input>>

\* _check_staleness, which reads the manifest of a tag again.
CheckStale ==
    /\ an.pc = "stale"
    /\ Image.tag # <<>> => ~Raises(Image)
    /\ LET new == Stale(Image) IN
       an' = [an EXCEPT !.pc = "look", !.done = 0, !.missing = <<>>,
                !.out.stale = @ \cup new,
                !.out.warnings = @ \cup {<<"stale", k>> : k \in new}]
    /\ UNCHANGED <<world, input>>

\* list_missing, digest by digest, of those that no image before had.
Look ==
    /\ an.pc = "look"
    /\ an.done < Len(Layers[an.manifest])
    /\ LET d == Layers[an.manifest][an.done + 1] IN
       an' = [an EXCEPT !.done = @ + 1,
                !.missing = IF d \in an.seen \cup blobs THEN @
                            ELSE Append(@, d)]
    /\ UNCHANGED <<world, input>>

\* The rest of _resolve_image_blobs, once all digests have been looked for.
Looked ==
    /\ an.pc = "look"
    /\ an.done = Len(Layers[an.manifest])
    /\ LET new == ToSet(Layers[an.manifest]) \ an.seen IN
       an' = [NextImage([an.out EXCEPT
                !.present = @ \cup (new \ ToSet(an.missing)),
                !.missing = @ \o an.missing]) EXCEPT !.seen = @ \cup new]
    /\ UNCHANGED <<world, input>>

\* The image of a service, or a Dockerfile on its own.
EndService ==
    /\ an.pc = "image"
    /\ an.images = <<>>
    /\ an.service.kind = "image" \/ ~input.compose
    /\ an' = [an EXCEPT !.pc = "service", !.result = an.out, !.allSeen = an.seen]
    /\ UNCHANGED <<world, input>>

\* Mutant: only what is missing comes from a service's Dockerfile.
Merge_NoWarnings(r, sub) ==
    [r EXCEPT !.images = @ \o sub.images,
              !.present = @ \cup sub.present]

\* What comes from the result of a Dockerfile, beside what is missing, into
\* that of the Compose file: all but its stale_manifests.
Merge(r, sub) ==
    [r EXCEPT !.images = @ \o sub.images,
              !.present = @ \cup sub.present,
              !.warnings = @ \cup sub.warnings]

EndDockerfile ==
    /\ an.pc = "image"
    /\ an.images = <<>>
    /\ an.service.kind = "build" /\ input.compose
    /\ an' = [an EXCEPT !.pc = "merge", !.done = 0,
                !.result = Merge(an.result, an.out)]
    /\ UNCHANGED <<world, input>>

\* Mutant: a digest that another service lacks is added again.
MergeOne_Again(d) ==
    [an EXCEPT !.done = @ + 1,
               !.result.missing = Append(@, d),
               !.allSeen = @ \cup {d}]

\* What is missing, unless a service before lacks it too.
MergeOne(d) ==
    [an EXCEPT !.done = @ + 1,
               !.result.missing = IF d \in an.allSeen THEN @ ELSE Append(@, d),
               !.allSeen = @ \cup {d}]

MergeMissing ==
    /\ an.pc = "merge"
    /\ an.done < Len(an.out.missing)
    /\ an' = MergeOne(an.out.missing[an.done + 1])
    /\ UNCHANGED <<world, input>>

Merged ==
    /\ an.pc = "merge"
    /\ an.done = Len(an.out.missing)
    /\ an' = [an EXCEPT !.pc = "service"]
    /\ UNCHANGED <<world, input>>

EndAnalysis ==
    /\ an.pc = "service"
    /\ an.services = <<>>
    /\ an' = [an EXCEPT !.pc = "done"]
    /\ UNCHANGED <<world, input>>

\* Another thread imports a blob or deletes one.
Change(d) ==
    /\ an.pc \notin {"done", "failed"}
    /\ changes < MaxChanges
    /\ changes' = changes + 1
    /\ blobs' = IF d \in blobs THEN blobs \ {d} ELSE blobs \cup {d}
    /\ touched' = touched \cup {d}
    /\ UNCHANGED <<cache, aged, input, an, held>>

\* Another thread caches a manifest, or the part of it a short write leaves.
Recache(k, m) ==
    /\ an.pc \notin {"done", "failed"}
    /\ changes < MaxChanges
    /\ changes' = changes + 1
    /\ cache' = [cache EXCEPT ![k] = m]
    /\ aged' = aged \ {k}
    /\ held' = held \cup {<<k, m>>}
    /\ UNCHANGED <<blobs, input, an, touched>>

Analysis ==
    \/ SkipService \/ ResolveImageRef \/ ResolveDockerfile
    \/ ParseDockerfile \/ Parsed
    \/ FindManifest \/ LookupRaises \/ CheckStale \/ Look \/ Looked
    \/ EndService \/ EndDockerfile \/ MergeMissing \/ Merged
    \/ EndAnalysis

Answered == an.pc \in {"done", "failed"} /\ UNCHANGED vars

Next ==
    \/ Analysis
    \/ \E d \in Blobs : Change(d)
    \/ \E k \in Keys, m \in Manifests \cup {Torn} : Recache(k, m)
    \/ Answered

Spec == Init /\ [][Next]_vars

-----------------------------------------------------------------------------
(* What the FROM lines of a file make docker build pull, by the rules of
   Dockerfiles and not by the steps of the parser                           *)

Froms(file) == {i \in DOMAIN file : file[i].op = "FROM"}
Preamble(file) == {i \in DOMAIN file : \A j \in Froms(file) : i < j}
Declares(file, v) == {i \in Preamble(file) : file[i].var = v}

\* The arguments in force in every FROM.
InForce(file, buildArgs) ==
    [v \in Vars |->
       IF Declares(file, v) = {} THEN NoValue
       ELSE IF buildArgs[v] # NoValue THEN buildArgs[v]
       ELSE file[CHOOSE i \in Declares(file, v) :
                   \A j \in Declares(file, v) : j <= i].default]
Text(x, file, buildArgs) == Substitute(x, InForce(file, buildArgs), NoArgs)

\* The stages before stage i that have the name of its base.
Bases(i, file, buildArgs) ==
    {j \in Froms(file) : /\ j < i
                         /\ file[j].as # <<>>
                         /\ Lower(file[j].as)
                              = Lower(Text(file[i].ref, file, buildArgs))}

\* A name that begins with docker.io/ and goes on with an organisation.
InFull(base) ==
    \E i \in 4 .. Len(base) :
      /\ base[i] = "/"
      /\ \A j \in 3 .. i - 1 : base[j] \notin Dotted \cup {":", "@", "/"}
      /\ base[3] # "localhost"

TagBesideDigest(base) ==
    LET name == SubSeq(base, 1, FirstAt(base, "@") - 1) IN
    "@" \in ToSet(base) /\ LastAt(name, ":") > LastAt(name, "/")

\* What the comparison leaves out.  Docker refuses a base that is blank or has
\* no value.  Four forms it accepts, and the parser reads them differently: a
\* build argument the file does not declare, which Docker ignores with a warning
\* and the parser uses; a scratch stage that a later one names; a tag beside a
\* digest; and an image of docker.io/ by its short name, which Docker takes for
\* one of library/.
Comparable(file, buildArgs) ==
    \A i \in Froms(file) :
      LET base == Text(file[i].ref, file, buildArgs) IN
      /\ base \notin {<<>>, NoValue}
      /\ Text(file[i].platform, file, buildArgs) # NoValue
      /\ \A v \in {file[i].ref.var, file[i].platform.var} :
           buildArgs[v] # NoValue => Declares(file, v) # {}
      /\ \A j \in Bases(i, file, buildArgs) :
           ~Scratch(Text(file[j].ref, file, buildArgs))
      /\ ~TagBesideDigest(base)
      /\ IsPrefix(<<"docker.io", "/">>, base) => InFull(base)

Pulls(file, buildArgs) ==
    {ResolvedImage(Text(file[i].ref, file, buildArgs),
                   Text(file[i].platform, file, buildArgs), FALSE) :
       i \in {j \in Froms(file) :
                /\ ~Scratch(Text(file[j].ref, file, buildArgs))
                /\ Bases(j, file, buildArgs) = {}}}

-----------------------------------------------------------------------------
(* Properties *)

Done == an.pc = "done"
External == {image \in ToSet(an.result.images) : ~image.internal}

\* The name under which a client asks this registry for an image.
AskedAs(image) ==
    IF image.registry = <<"docker.io">> THEN image.repository
    ELSE image.registry \o <<"/">> \o image.repository

\* A list of images says what docker build pulls for the FROM lines of a file,
\* each image under the name the handler will look it up by.
AsBuilt(images, file) ==
    Comparable(file, input.args) =>
      LET external == {image \in ToSet(images) : ~image.internal} IN
      /\ external = Pulls(file, input.args)
      /\ \A image \in external :
           SplitName(AskedAs(image)) = <<image.registry, image.repository>>

\* The analysis of a Dockerfile names exactly the images that docker build
\* pulls for its FROM lines, whatever stages, aliases, constant defaults and
\* declared build arguments they combine, and each under the name the handler
\* will look it up by.  Nothing is said of the forms Comparable leaves out, of
\* variables in the default of an ARG and of COPY --from.
ImagesAsBuilt ==
    Done /\ ~input.compose =>
      AsBuilt(an.result.images, input.services[1].file)

\* The manifests that have been cached for an image: with its digest, if it is
\* pinned, else under its key.
Found(image) ==
    IF image.digest # <<>>
      THEN {m \in {h[2] : h \in held} \ NoManifest : <<SourceOf[m]>> = image.digest}
      ELSE {h[2] : h \in {x \in held : x[1] = Key(image)}} \ NoManifest

\* Of an image: a warning that it is not cached, or every digest of a manifest
\* that was, and a warning if it has been over the TTL all the time.
Covered(image, warnings, digests) ==
    \/ <<"uncached", image>> \in warnings
    \/ /\ \E m \in Found(image) : ToSet(Layers[m]) \subseteq digests
       /\ image.tag # <<>> /\ Key(image) \in aged
            => <<"stale", Key(image)>> \in warnings

\* The digests a result accounts for.
Digests(r) == r.present \cup ToSet(r.missing)

\* Nothing is overlooked, in a Dockerfile or in any service: of each image
\* either a warning says that it is not cached, or every digest of a manifest
\* that was cached for it is present or missing in the result, although the
\* digests other images had are not looked for again; and a manifest that is
\* over its TTL all the time is at least warned about.
NothingOverlooked ==
    Done => \A image \in External :
              Covered(image, an.result.warnings, Digests(an.result))

Times(d, s) == Cardinality({i \in DOMAIN s : s[i] = d})

\* The result is true of the store at some moment of the analysis: a digest is
\* missing or present, not both, unless another thread changed it meanwhile,
\* and missing no more often than one manifest lists it.
MissingTruthful ==
    Done => \A d \in Blobs :
      /\ d \in ToSet(an.result.missing) => d \notin blobs \/ d \in touched
      /\ d \in an.result.present => d \in blobs \/ d \in touched
      /\ \E m \in Manifests :
           Times(d, an.result.missing) <= Times(d, Layers[m])
=============================================================================
