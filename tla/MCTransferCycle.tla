-------------------------- MODULE MCTransferCycle --------------------------
(* Two images of a Dockerfile: "app", asked for on two platforms and moved by  *)
(* its publisher, and "lib", asked for by its tag and by a pinned digest.      *)
(* All of them share the layer "base".                                         *)
EXTENDS TransferCycle, TLC

MCPlatforms == {"amd64", "arm64"}
MCTags == {"app", "lib"}
MCDigests == {"base", "new"}
MCLayers == [m \in Manifests |->
    {"base"} \cup (IF m.tag = "app" /\ m.ver = 1 THEN {"new"} ELSE {})]
Ref(t, p, v) == [tag |-> t, plat |-> p, pin |-> v]
MCDockerfiles == {<<Ref("app", "arm64", -1), Ref("app", "amd64", -1),
                    Ref("lib", "amd64", -1), Ref("lib", "amd64", 0)>>}
MCCanonical == {[tag |-> "lib", plat |-> "amd64", ver |-> 0]}
ImporterSymmetry == Permutations(Importers)
=============================================================================
