----------------------------- MODULE MCStores -----------------------------
(***************************************************************************)
(* Instances of the shared stores and of the protocols for TLC.  As in     *)
(* MCTasks, "part" names the component that steps.                         *)
(***************************************************************************)
EXTENDS TCell, DenyAudit, IntentBridge, QueryCache, AnkRun, UdsServer,
        ContextTiers, SemanticFs, MeshRecords, MeshAuth, GpuPool,
        Delegation, PathScope

CONSTANTS t1, t2, t3, t4, admin, reader, k1, k2, empty, text, n1, n2, n3,
          a1, a2, a3, b1, b2, b3

\* A suspicious sequence of two calls; two jitters of the thresholds.
MCSignatures == {<<{1}, {2}>>}
MCThresholds == {<<2, 2, 4>>, <<3, 2, 5>>}

\* Two texts are one after normalisation, a third is similar to them, and
\* the last is no command.
MCNormalize == [t \in Texts |-> IF t = t2 THEN t1 ELSE t]
MCSimilar   == {<<t1, t3>>, <<t3, t1>>}
MCParse     == [t \in Texts |-> IF t = t4 THEN NoCommand ELSE t]

MCCapabilities ==
  [t \in UdsTokens |-> IF t = admin THEN {"admin", "read"} ELSE {"read", "execute"}]

\* One context fits the VRAM, the other does not; one file has no text.
MCSize   == [k \in Contexts |-> IF k = k1 THEN 1 ELSE 2]
MCChunks == [k \in Contents |-> IF k = empty THEN 0 ELSE 2]

\* A node whose clock is ahead, and the order of the node names.
MCSkew   == [n \in MeshNodes |-> IF n = n2 THEN 1 ELSE 0]
MCBefore == [n \in MeshNodes |-> CASE n = n1 -> 1 [] n = n2 -> 2 [] n = n3 -> 3]

\* n1 has no room for agents and hears of the other two.
MCTrust == [n \in MeshNodes |-> 100]
MCRoom  == [n \in MeshNodes |-> IF n = n1 THEN 0 ELSE 1]
MCLinks == {<<n1, n2>>, <<n1, n3>>}

MCOwner      == [b \in Blocks |-> CASE b = b1 -> a1 [] b = b2 -> a2 [] b = b3 -> a3]
MCRequested  == [b \in Blocks |-> IF b = b3 THEN 2 ELSE 1]
MCPriorities == [a \in Agents |-> IF a = a1 THEN 0 ELSE 1]

\* Paths of the names a and b, some with slashes at the end, one that fills a
\* slot, the root, a relative one and one that goes up.
S == "/"
MCDeclared == {<<S, "a", S>>, <<S, "a", "b">>, <<S, "a", "b", S, "a">>, <<S>>,
               <<"a">>, <<S, ".", ".">>, <<S, "a", "b", S, "a", "b">>}
MCKernel == {<<S>> \o x : x \in {<<"a">>, <<"a", "b">>, <<"b">>}}
       \cup {<<S>> \o x \o <<S>> \o y : x, y \in {<<"a">>, <<"a", "b">>}}
       \cup {<<S, "a", "b", S, "a", S, "b">>, <<S, "a", "b", S, "a", "b", S,
               "a">>}

\* The names between the slashes of a path.
Components(path) ==
  LET split == FoldLeft(LAMBDA names, c : IF c = "/" THEN Append(names, <<>>)
                                          ELSE [names EXCEPT ![Len(names)] = Append(@, c)],
                        <<<<>>>>, path)
  IN  SelectSeq(split, LAMBDA name : name # <<>>)

\* At or under a declared path is what it is name by name.
ASSUME AtOrUnderByName ==
  \A declared \in {p \in DeclaredPaths : validate_scope_path(p)}, path \in KernelPaths :
    AtOrUnder(TrimEnd(declared), path) <=> IsPrefix(Components(declared), Components(path))

VARIABLE part     \* the component whose behaviour this is

vars == <<part, tcellVars, denyVars, bridgeVars, cacheVars, ankVars, udsVars,
          tierVars, fsVars, meshVars, authVars, poolVars, delegationVars,
          scopeVars>>
Parts == {"tcell", "deny", "bridge", "cache", "ank_run", "uds", "tiers", "fs", "records", "auth", "pool", "delegation", "scope"}

\* The choices that a component has initially are made only where it steps.
Unvaried ==
  /\ part # "cache" => \A c \in Clients : client[c].text = t1
  /\ part # "ank_run" => options.no_fallback
  /\ part # "uds" => valid_tokens = UdsTokens

Init ==
  /\ part \in Parts
  /\ TCellInit
  /\ DenyInit
  /\ BridgeInit
  /\ CacheInit
  /\ AnkInit
  /\ UdsInit
  /\ TiersInit
  /\ FsInit
  /\ MeshInit
  /\ AuthInit
  /\ PoolInit
  /\ Unvaried
  /\ DelegationInit
  /\ ScopeInit

Next ==
  /\ UNCHANGED part
  /\ \/ part = "tcell" /\ TCellNext
        /\ UNCHANGED <<denyVars, bridgeVars, cacheVars, ankVars, udsVars,
                       tierVars, fsVars, meshVars, authVars, poolVars,
                       delegationVars, scopeVars>>
     \/ part = "deny" /\ DenyNext
        /\ UNCHANGED <<tcellVars, bridgeVars, cacheVars, ankVars, udsVars,
                       tierVars, fsVars, meshVars, authVars, poolVars,
                       delegationVars, scopeVars>>
     \/ part = "bridge" /\ BridgeNext
        /\ UNCHANGED <<tcellVars, denyVars, cacheVars, ankVars, udsVars,
                       tierVars, fsVars, meshVars, authVars, poolVars,
                       delegationVars, scopeVars>>
     \/ part = "cache" /\ CacheNext
        /\ UNCHANGED <<tcellVars, denyVars, bridgeVars, ankVars, udsVars,
                       tierVars, fsVars, meshVars, authVars, poolVars,
                       delegationVars, scopeVars>>
     \/ part = "ank_run" /\ AnkNext
        /\ UNCHANGED <<tcellVars, denyVars, bridgeVars, cacheVars, udsVars,
                       tierVars, fsVars, meshVars, authVars, poolVars,
                       delegationVars, scopeVars>>
     \/ part = "uds" /\ UdsNext
        /\ UNCHANGED <<tcellVars, denyVars, bridgeVars, cacheVars, ankVars,
                       tierVars, fsVars, meshVars, authVars, poolVars,
                       delegationVars, scopeVars>>
     \/ part = "tiers" /\ TiersNext
        /\ UNCHANGED <<tcellVars, denyVars, bridgeVars, cacheVars, ankVars,
                       udsVars, fsVars, meshVars, authVars, poolVars,
                       delegationVars, scopeVars>>
     \/ part = "fs" /\ FsNext
        /\ UNCHANGED <<tcellVars, denyVars, bridgeVars, cacheVars, ankVars,
                       udsVars, tierVars, meshVars, authVars, poolVars,
                       delegationVars, scopeVars>>
     \/ part = "records" /\ MeshNext
        /\ UNCHANGED <<tcellVars, denyVars, bridgeVars, cacheVars, ankVars,
                       udsVars, tierVars, fsVars, authVars, poolVars,
                       delegationVars, scopeVars>>
     \/ part = "auth" /\ AuthNext
        /\ UNCHANGED <<tcellVars, denyVars, bridgeVars, cacheVars, ankVars,
                       udsVars, tierVars, fsVars, meshVars, poolVars,
                       delegationVars, scopeVars>>
     \/ part = "pool" /\ PoolNext
        /\ UNCHANGED <<tcellVars, denyVars, bridgeVars, cacheVars, ankVars,
                       udsVars, tierVars, fsVars, meshVars, authVars,
                       delegationVars, scopeVars>>
     \/ part = "delegation" /\ DelegationNext
        /\ UNCHANGED <<tcellVars, denyVars, bridgeVars, cacheVars, ankVars,
                       udsVars, tierVars, fsVars, meshVars, authVars, poolVars,
                       scopeVars>>
     \/ part = "scope" /\ ScopeNext
        /\ UNCHANGED <<tcellVars, denyVars, bridgeVars, cacheVars, ankVars,
                       udsVars, tierVars, fsVars, meshVars, authVars, poolVars,
                       delegationVars>>

Spec == Init /\ [][Next]_vars

StoresTypeOK ==
  /\ TCellTypeOK /\ DenyTypeOK /\ BridgeTypeOK /\ CacheTypeOK /\ AnkTypeOK /\ UdsTypeOK
  /\ TiersTypeOK /\ FsTypeOK /\ MeshTypeOK /\ MeshAuthTypeOK /\ GpuPoolTypeOK
  /\ DelegationTypeOK /\ ScopeTypeOK
===========================================================================
