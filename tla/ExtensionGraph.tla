---------------------------- MODULE ExtensionGraph ----------------------------
(***************************************************************************)
(* Dependencies between declarative extensions: the graph a publication is *)
(* checked against (assertDependencyGraph, platform/extensions.service.ts) *)
(* and what a school may activate, upgrade, deactivate and uninstall       *)
(* (resolveDependencies, uninstall, extension-installations.service.ts).   *)
(* Both checks read rows that other requests change before the write.      *)
(***************************************************************************)
EXTENDS Integers, FiniteSets, Sequences

CONSTANTS
  Extension,   \* declarative extensions
  Version,     \* version numbers, triples of naturals
  VersionRange, \* version ranges a dependency may name
  Request,     \* API requests and jobs in flight at a time
  Ops,         \* bound: what happens in an instance
  Optional,    \* what a dependency may say of itself: BOOLEAN, or {FALSE}
  Releases,    \* bound: versions published
  None

VARIABLES
  release,   \* release[e][v]: status of version v, its publication time and dependencies
  school,    \* school[e]: the version installed and whether it is enabled
  request,   \* request[q]: a publication or a command between check and write
  raced,     \* history: was something written after what it was checked against changed?
  withdrawn, \* history: was a published version taken back?
  released   \* history: was an extension that others need deactivated or upgraded?

graphVars == <<release, school, request, raced, withdrawn, released>>

(* A triple compares by major, then minor, then patch; a prerelease tag is *)
(* cut off before.                                                         *)
Compare(a, b) ==
  IF a[1] # b[1] THEN a[1] - b[1] ELSE IF a[2] # b[2] THEN a[2] - b[2] ELSE a[3] - b[3]

(* versionMatches: every comparator of the range holds; one that names no  *)
(* operator counts as "<".                                                 *)
VersionMatches(version, range) ==
  \A i \in DOMAIN range :
    LET c == Compare(version, range[i].target)
    IN CASE range[i].op = ">=" -> c >= 0 [] range[i].op = ">" -> c > 0
         [] range[i].op = "<=" -> c <= 0 [] OTHER -> c < 0

Dependency == [on : Extension, range : VersionRange, optional : Optional]
NotReleased == [status |-> "NONE", at |-> 0, deps |-> {}]
IdleRequest == [op |-> "idle", e |-> None, v |-> None, deps |-> {}, stale |-> FALSE]

GraphTypeOK ==
  /\ release \in [Extension -> [Version -> [status : {"NONE", "PUBLISHED", "WITHDRAWN"},
                    at : 0..Releases,
                    deps : {deps \in SUBSET Dependency : Cardinality(deps) <= 1}]]]
  /\ school \in [Extension -> [v : Version \cup {None}, enabled : BOOLEAN]]
  /\ \A q \in Request : request[q].op \in {"idle", "publish", "activate", "upgrade", "uninstall"}

GraphInit ==
  /\ release = [e \in Extension |-> [v \in Version |-> NotReleased]]
  /\ school = [e \in Extension |-> [v |-> None, enabled |-> FALSE]]
  /\ request = [q \in Request |-> IdleRequest]
  /\ raced = FALSE /\ withdrawn = FALSE /\ released = FALSE

-----------------------------------------------------------------------------
Published(e) == {v \in Version : release[e][v].status = "PUBLISHED"}
Latest(e) == CHOOSE v \in Published(e) : \A w \in Published(e) : release[e][w].at <= release[e][v].at

(* The graph of a candidate: it, and the latest publication of the others. *)
Node(e, v, deps) ==
  [x \in {x \in Extension : Published(x) # {}} \cup {e} |->
     IF x = e THEN [v |-> v, deps |-> deps] ELSE [v |-> Latest(x), deps |-> release[x][Latest(x)].deps]]

Needs(node, x) == {d.on : d \in node[x].deps} \cap DOMAIN node

(* What the depth-first search visits from e, in one or more steps: the    *)
(* least set with what e needs that has what its members need.             *)
Reach(node, e) ==
  {x \in DOMAIN node :
     \A visited \in SUBSET DOMAIN node :
       Needs(node, e) \subseteq visited /\ (\A y \in visited : Needs(node, y) \subseteq visited)
         => x \in visited}

(* The search finds a cycle anywhere among what it visits.                 *)
Cyclic(node, e) == \E x \in Reach(node, e) \cup {e} : x \in Reach(node, x)

(* Faulty variant: only dependencies of the candidate on itself count.     *)
SelfCyclic(node, e) == e \in Needs(node, e)

(* assertDependencyGraph.                                                  *)
Publishable(e, v, deps) ==
  LET node == Node(e, v, deps)
  IN /\ \A d \in deps : IF d.on \in DOMAIN node THEN VersionMatches(node[d.on].v, d.range) ELSE d.optional
     /\ ~ Cyclic(node, e)

Begin(q, op, e, v, deps) ==
  /\ request[q] = IdleRequest
  /\ request' = [request EXCEPT ![q] = [op |-> op, e |-> e, v |-> v, deps |-> deps, stale |-> FALSE]]
  /\ UNCHANGED <<release, school, raced, withdrawn, released>>

Written(q) ==
  /\ request' = [x \in Request |-> IF x = q \/ request[x] = IdleRequest THEN IdleRequest
                                   ELSE [request[x] EXCEPT !.stale = TRUE]]
  /\ raced' = (raced \/ request[q].stale)

BeginPublish(q, e, v, deps) ==
  /\ "publish" \in Ops /\ release[e][v].status = "NONE" /\ Publishable(e, v, deps)
  /\ Begin(q, "publish", e, v, deps)
(* publishedAt orders the publications.                                    *)
Now == Cardinality({x \in Extension \X Version : release[x[1]][x[2]].status # "NONE"}) + 1
Publish(q) ==
  /\ request[q].op = "publish" /\ Now <= Releases /\ release[request[q].e][request[q].v].status = "NONE"
  /\ release' = [release EXCEPT ![request[q].e][request[q].v] =
                   [status |-> "PUBLISHED", at |-> Now, deps |-> request[q].deps]]
  /\ Written(q) /\ UNCHANGED <<school, withdrawn, released>>

(* A version is deprecated, blocked or retired: what was published before  *)
(* is the latest again, with the dependencies it has.                      *)
Withdraw(e, v) ==
  /\ release[e][v].status = "PUBLISHED"
  /\ release' = [release EXCEPT ![e][v].status = "WITHDRAWN"]
  /\ withdrawn' = TRUE
  /\ request' = [x \in Request |-> [request[x] EXCEPT !.stale = request[x] # IdleRequest]]
  /\ UNCHANGED <<school, raced, released>>

-----------------------------------------------------------------------------
Enabled(e) == school[e].enabled
Manifest(e, v) == release[e][v].deps

(* resolveDependencies and assertDependencies: each required dependency is *)
(* active in the school in a version of its range.                         *)
Satisfied(e, v) ==
  \A d \in Manifest(e, v) :
    d.optional \/ (d.on # e /\ Enabled(d.on) /\ VersionMatches(school[d.on].v, d.range))

(* Faulty variant: nobody looks for dependents.                            *)
NoDependents(e) == {}
(* uninstall: nothing that is active requires e.                           *)
Dependents(e) == {x \in Extension \ {e} : Enabled(x) /\ \E d \in Manifest(x, school[x].v) : d.on = e /\ ~ d.optional}

Install(e, v) ==
  /\ "school" \in Ops /\ school[e].v = None /\ release[e][v].status = "PUBLISHED" /\ Satisfied(e, v)
  /\ school' = [school EXCEPT ![e].v = v]
  /\ UNCHANGED <<release, request, raced, withdrawn, released>>
BeginActivate(q, e) ==
  /\ school[e].v # None /\ ~ Enabled(e) /\ release[e][school[e].v].status = "PUBLISHED"
  /\ Satisfied(e, school[e].v)
  /\ Begin(q, "activate", e, school[e].v, {})
Activate(q) ==
  /\ request[q].op = "activate" /\ school[request[q].e].v # None
  /\ school' = [school EXCEPT ![request[q].e].enabled = TRUE]
  /\ Written(q) /\ UNCHANGED <<release, withdrawn, released>>

(* activate(false) does not look for dependents; neither does upgrade for  *)
(* the ranges of those that run.                                           *)
Deactivate(e) ==
  /\ Enabled(e)
  /\ school' = [school EXCEPT ![e].enabled = FALSE]
  /\ released' = (released \/ Dependents(e) # {})
  /\ request' = [x \in Request |-> [request[x] EXCEPT !.stale = request[x] # IdleRequest]]
  /\ UNCHANGED <<release, raced, withdrawn>>
BeginUpgrade(q, e, v) ==
  /\ school[e].v \notin {None, v} /\ release[e][v].status = "PUBLISHED" /\ Satisfied(e, v)
  /\ Begin(q, "upgrade", e, v, {})
Upgrade(q) ==
  LET e == request[q].e
  IN /\ request[q].op = "upgrade" /\ school[e].v # None
     /\ school' = [school EXCEPT ![e].v = request[q].v]
     /\ released' = (released \/ Dependents(e) # {})
     /\ Written(q) /\ UNCHANGED <<release, withdrawn>>
BeginUninstall(q, e) ==
  /\ school[e].v # None /\ Dependents(e) = {}
  /\ Begin(q, "uninstall", e, school[e].v, {})
Uninstall(q) ==
  /\ request[q].op = "uninstall"
  /\ school' = [school EXCEPT ![request[q].e] = [v |-> None, enabled |-> FALSE]]
  /\ Written(q) /\ UNCHANGED <<release, withdrawn, released>>

GraphNext ==
  \/ \E q \in Request :
       \/ Publish(q) \/ Activate(q) \/ Upgrade(q) \/ Uninstall(q)
       \/ \E e \in Extension :
            \/ BeginActivate(q, e) \/ BeginUninstall(q, e)
            \/ \E v \in Version :
                 BeginUpgrade(q, e, v)
                   \/ \E deps \in {{}} \cup {{d} : d \in Dependency} : BeginPublish(q, e, v, deps)
  \/ \E e \in Extension : Deactivate(e) \/ \E v \in Version : Install(e, v) \/ Withdraw(e, v)
-----------------------------------------------------------------------------
(* The latest publications never depend on each other in a circle, unless  *)
(* two publications were checked against each other's past or a withdrawal *)
(* brought an older version back.                                          *)
Acyclic ==
  LET latest == [x \in {x \in Extension : Published(x) # {}} |->
                   [v |-> Latest(x), deps |-> release[x][Latest(x)].deps]]
  IN ~ raced /\ ~ withdrawn => \A e \in DOMAIN latest : e \notin Reach(latest, e)

(* What runs in a school has what it requires, unless a check was overrun  *)
(* or a dependency was deactivated or upgraded, which nothing checks.      *)
RequirementsMet == ~ raced /\ ~ released => \A e \in Extension : Enabled(e) => Satisfied(e, school[e].v)
=============================================================================
