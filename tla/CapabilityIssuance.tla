------------------------- MODULE CapabilityIssuance -------------------------
(***************************************************************************)
(* Capabilities (linkrpc, identity/capability.ts,                          *)
(* identity/permissionCoverage.ts and protocol/capability.ts): which calls *)
(* a permission admits, when one permission covers another, when a chain   *)
(* of signed capabilities permits a call, and how an identity issues       *)
(* further capabilities from those it holds.  Issuing is planned, may be   *)
(* shown to a person, and is carried out later; time goes on in between.   *)
(*                                                                         *)
(* Service ids are sequences of segments, members and texts are sequences  *)
(* of characters, so that a prefix is a prefix on every axis; interface    *)
(* ids are matched like service ids and are left out.  A capability holds  *)
(* its ancestors, from its parent to the root, where the code has the      *)
(* content hash of its parent, which fixes them all.  Reasons of refusals  *)
(* are left out.                                                           *)
(***************************************************************************)
EXTENDS Naturals, Sequences, FiniteSets, SequencesExt, FiniteSetsExt

CONSTANTS Symbol,       \* segments of ids and characters of names and texts
          Authority,    \* the principal whose authority is at stake
          Signable,     \* capabilities, without ancestors, that may get signed
          IssueOption,  \* what issuers are asked for
          Scope,        \* permissions whose coverage is compared
          ScopeCall,    \* calls on which they are compared
          CapCall,      \* calls that are made with capabilities
          Free, Unset,
          VerifyDepth,  \* maxDepth of verifyChain
          IssueDepth,   \* the depth issuance allows for what it issues from
          MaxTime,      \* bound on the clock
          MaxDirect,    \* bound on capabilities that are signed without a plan
          MaxPlans      \* bound on plans

Pattern == [kind : {"exact", "prefix"}, id : Seq(Symbol)]

\* A permission; its parameters, if it has any, are matched one by one.
IsPermission(p) ==
    /\ p \in [can : SUBSET {"invoke", "delegate"}, service : Pattern, hash : {p.hash},
              members : SUBSET Pattern, params : {p.params}, bind : {p.bind}]
    /\ p.params # Free => \A k \in DOMAIN p.params :
            p.params[k].kind = "prefix" => p.params[k].text \in Seq(Symbol)

IsCall(call) ==
    /\ call.service \in Seq(Symbol) /\ call.member \in Seq(Symbol)
    /\ \A k \in DOMAIN call.params : call.params[k].kind = "string" => call.params[k].text \in Seq(Symbol)

IsCapability(c) ==
    /\ c \in [issuer : {c.issuer}, audience : {c.audience}, permissions : {c.permissions},
              expires : Nat, genuine : BOOLEAN, ancestors : {c.ancestors}]
    /\ \A p \in c.permissions : IsPermission(p)

\* hasSignedCapabilityShape
ASSUME SignableAssumption == \A c \in Signable : IsCapability(c)

\* prepareCapabilityIssuance refuses a request with a permission that has no members.
ASSUME IssueOptionAssumption ==
    \A o \in IssueOption : o.expires \in Nat /\ \A p \in o.permissions : IsPermission(p) /\ p.members # {}

ASSUME ScopeAssumption == \A p \in Scope : IsPermission(p)

ASSUME CallAssumption == \A call \in ScopeCall \cup CapCall : IsCall(call)

ASSUME DepthAssumption == IssueDepth \in Nat \ {0} /\ VerifyDepth = IssueDepth + 1

VARIABLE issuance

\* No expiry: later than the clock gets.
Never == MaxTime + 1

\* Nothing is signed; or two permissions are compared, of which `compared` is one.
IssuanceInit ==
    \E p \in Scope \cup {Unset} :
        issuance = [now |-> 0, signed |-> {}, direct |-> 0, plans |-> 0, plan |-> Unset, results |-> {}, compared |-> p]

-----------------------------------------------------------------------------
(* Permissions.                                                            *)

patternMatches(value, pattern) ==
    IF pattern.kind = "exact" THEN value = pattern.id ELSE IsPrefix(pattern.id, value)

\* Mutant: an exact pattern is taken for the prefix of the same name.
patternCovers_kind(granted, requested) ==
    IF granted.kind = "exact" THEN granted.id = requested.id ELSE IsPrefix(granted.id, requested.id)

patternCovers(granted, requested) ==
    IF granted.kind = "exact" THEN granted = requested ELSE IsPrefix(granted.id, requested.id)

\* _matchParamValue
valueMatches(matcher, value) ==
    \/ matcher.kind = "any"
    \/ matcher.kind = "prefix" /\ value.kind = "string" /\ IsPrefix(matcher.text, value.text)
    \/ matcher.kind = "subsetOf" /\ value.kind = "list" /\ value.items \subseteq matcher.items
    \/ matcher.kind = "exact" /\ value = matcher.value
    \/ matcher.kind = "enum" /\ value \in matcher.values

matchParams(declared, params) ==
    DOMAIN declared = DOMAIN params /\ \A k \in DOMAIN declared : valueMatches(declared[k], params[k])

\* Mutant: `any` may be asked for where values were named.
paramCovers_any(granted, requested) ==
    \/ granted.kind = "any" \/ requested.kind = "any"
    \/ requested.kind = "exact" /\ valueMatches(granted, requested.value)

paramCovers(granted, requested) ==
    \/ granted.kind = "any"
    \/ requested.kind = "exact" /\ valueMatches(granted, requested.value)
    \/ requested.kind = "enum" /\ \A v \in requested.values : valueMatches(granted, v)
    \/ requested.kind = "prefix" /\ granted.kind = "prefix" /\ IsPrefix(granted.text, requested.text)
    \/ requested.kind = "subsetOf" /\ granted.kind = "subsetOf" /\ requested.items \subseteq granted.items

\* _targetMismatchReason; hash is the pinned version of the interface, Free if there is none.
targetMatches(call, permission) ==
    /\ patternMatches(call.service, permission.service)
    /\ permission.hash \in {Free, call.hash}
    /\ \E m \in permission.members : patternMatches(call.member, m)

\* bind is the payload hash of callBind, Free if there is none.
permissionPermits(call, permission, ability) ==
    /\ ability \in permission.can
    /\ targetMatches(call, permission)
    /\ permission.params = Free \/ matchParams(permission.params, call.params)
    /\ permission.bind \in {Free, call.payload}

\* Mutant: a grant with parameters covers a request that names none.
permissionScopeCovers_open(granted, requested) ==
    /\ patternCovers(granted.service, requested.service)
    /\ granted.hash \in {Free, requested.hash}
    /\ \A m \in requested.members : \E a \in granted.members : patternCovers(a, m)
    /\ granted.bind \in {Free, requested.bind}
    /\ granted.params = Free \/ requested.params = Free \/ DOMAIN granted.params = DOMAIN requested.params

permissionScopeCovers(granted, requested) ==
    /\ patternCovers(granted.service, requested.service)
    /\ granted.hash \in {Free, requested.hash}
    /\ \A m \in requested.members : \E a \in granted.members : patternCovers(a, m)
    /\ granted.bind \in {Free, requested.bind}
    /\ \/ granted.params = Free
       \/ /\ requested.params # Free
          /\ DOMAIN granted.params = DOMAIN requested.params
          /\ \A k \in DOMAIN granted.params : paramCovers(granted.params[k], requested.params[k])

-----------------------------------------------------------------------------
(* Chains.                                                                 *)

chainOf(cap) == <<cap>> \o cap.ancestors

rootIssuer(cap) == Last(chainOf(cap)).issuer

capabilityFreshAt(cap, now) == cap.expires > now

capabilityPermits(call, cap, ability) == \E p \in cap.permissions : permissionPermits(call, p, ability)

\* Mutant: a parent may be anybody's.
verifiedLink_audience(link, audience, now, depth, leaves, parents) ==
    LET chain == chainOf(link)
    IN /\ Len(chain) <= depth /\ link.audience = audience
       /\ \A i \in DOMAIN chain :
            /\ ~(chain[i].expires < now)
            /\ chain[i] \in (IF i = 1 THEN leaves ELSE parents)
            /\ chain[i].genuine

\* Mutant: only the leaf's expiry counts.
verifiedLink_expiry(link, audience, now, depth, leaves, parents) ==
    LET chain == chainOf(link)
    IN /\ Len(chain) <= depth /\ ~(link.expires < now)
       /\ \A i \in DOMAIN chain :
            /\ chain[i].audience = (IF i = 1 THEN audience ELSE chain[i - 1].issuer)
            /\ chain[i] \in (IF i = 1 THEN leaves ELSE parents)
            /\ chain[i].genuine

\* _verifyLink, from the leaf to the root: `leaves` are the capabilities of the bag that pass
\* the check of a leaf, `parents` those that pass the check of a parent.
verifiedLink(link, audience, now, depth, leaves, parents) ==
    LET chain == chainOf(link)
    IN /\ Len(chain) <= depth
       /\ \A i \in DOMAIN chain :
            /\ chain[i].audience = (IF i = 1 THEN audience ELSE chain[i - 1].issuer)
            /\ ~(chain[i].expires < now)
            /\ chain[i] \in (IF i = 1 THEN leaves ELSE parents)
            /\ chain[i].genuine

permitting(call, bag, ability) == {c \in bag : capabilityPermits(call, c, ability)}

\* Mutant: a parent has to grant the call, not its delegation.
verifyChain_invoke(call, bag, accepted, now) ==
    LET leaves == permitting(call, bag, "invoke")
    IN \E leaf \in leaves :
        verifiedLink(leaf, call.signer, now, VerifyDepth, leaves, leaves) /\ rootIssuer(leaf) \in accepted

\* Any presented capability may be the leaf.
verifyChain(call, bag, accepted, now) ==
    LET leaves == permitting(call, bag, "invoke")
        parents == permitting(call, bag, "delegate")
    IN \E leaf \in leaves :
        verifiedLink(leaf, call.signer, now, VerifyDepth, leaves, parents) /\ rootIssuer(leaf) \in accepted

permits(call, bag, accepted, now) == bag # {} /\ verifyChain(call, bag, accepted, now)

-----------------------------------------------------------------------------
(* Issuing.                                                                *)

\* issueCapability checks nothing: a principal may sign anything for anybody from any parent.
\* A capability that is not genuine says that another has signed it.
SignsDirectly(cap, ancestors) ==
    /\ issuance.direct < MaxDirect
    /\ issuance' = [issuance EXCEPT
            !.direct = @ + 1,
            !.signed = @ \cup {[cap EXCEPT !.ancestors = ancestors]}]

\* Mutant: it is enough that one of the members is covered.
delegationCovers_some(link, permission, now) ==
    /\ capabilityFreshAt(link, now)
    /\ \E m \in permission.members, g \in link.permissions :
        "delegate" \in g.can /\ permissionScopeCovers(g, [permission EXCEPT !.members = {m}])

\* _delegationCovers: each member is covered by some grant.
delegationCovers(link, permission, now) ==
    /\ capabilityFreshAt(link, now)
    /\ \A m \in permission.members : \E g \in link.permissions :
        "delegate" \in g.can /\ permissionScopeCovers(g, [permission EXCEPT !.members = {m}])

\* Those of a bag that cover all the permissions.
covering(bag, permissions, now) == {c \in bag : \A p \in permissions : delegationCovers(c, p, now)}

\* Mutant: who has issued a capability is taken for the root of its chain.
delegationRootIds_issuer(issuer, bag, now) ==
    {c.issuer : c \in {d \in bag :
        \E p \in d.permissions : "delegate" \in p.can /\ verifiedLink(d, issuer, now, IssueDepth, bag, bag)}}

\* getDelegationRootIds
delegationRootIds(issuer, bag, now) ==
    LET delegable == {c \in bag : capabilityFreshAt(c, now)
                        /\ \E p \in c.permissions : "delegate" \in p.can /\ p.members # {}}
    IN {rootIssuer(c) : c \in {d \in delegable : verifiedLink(d, issuer, now, IssueDepth, delegable, delegable)}}

\* Capabilities of the bag from which `issuer` may issue `permission`.
candidates(issuer, permission, bag, now) ==
    LET usable == covering(bag, {permission}, now)
    IN {c \in usable : verifiedLink(c, issuer, now, IssueDepth, usable, usable)}

accepts(accepted, root) == accepted = Unset \/ root \in accepted

grantOf(permissions, root, expires, ancestors) ==
    [permissions |-> permissions, root |-> root, expires |-> expires, ancestors |-> ancestors]

\* Mutant: the lifetime that was asked for, whatever the ancestors'.
earliest_asked(expires, chain) == expires

earliest(expires, chain) == Min({expires} \cup {chain[i].expires : i \in DOMAIN chain})

\* The grants for one permission, one for each capability that may come first in the bag.
grantsFor(option, permission) ==
    LET usable == {c \in candidates(option.issuer, permission, issuance.signed, issuance.now) :
                        accepts(option.accepted, rootIssuer(c))}
    IN IF usable # {}
       THEN {grantOf({permission}, rootIssuer(c), earliest(option.expires, chainOf(c)), chainOf(c)) : c \in usable}
       ELSE IF option.accepted = Unset THEN {grantOf({permission}, option.issuer, option.expires, << >>)}
       ELSE {}

\* prepareCapabilityIssuance; it throws if a permission is not covered.
Prepares(option) ==
    /\ issuance.plan = Unset /\ issuance.plans < MaxPlans /\ option.expires > issuance.now
    /\ \E grants \in
            IF option.accepted # Unset /\ option.issuer \in option.accepted
            THEN {{grantOf(option.permissions, option.issuer, option.expires, << >>)}}
            ELSE {Range(f) : f \in
                    {g \in [option.permissions -> UNION {grantsFor(option, p) : p \in option.permissions}] :
                        \A p \in option.permissions : g[p] \in grantsFor(option, p)}} :
        issuance' = [issuance EXCEPT
            !.plans = @ + 1,
            !.plan = [issuer |-> option.issuer, audience |-> option.audience, accepted |-> option.accepted,
                      expires |-> option.expires, step |-> "prepared", grants |-> grants]]

\* Against the capabilities that were selected, not against those held by now.
stillValid(grant, issuer, now) ==
    /\ grant.expires > now
    /\ grant.ancestors # << >> =>
        LET usable == covering(Range(grant.ancestors), grant.permissions, now)
        IN /\ verifiedLink(Head(grant.ancestors), issuer, now, IssueDepth, usable, usable)
           /\ Last(grant.ancestors).issuer = grant.root

\* issue() revalidates the plan; it throws if that fails.
Issues ==
    /\ issuance.plan # Unset /\ issuance.plan.step = "prepared"
    /\ issuance' = IF \A g \in issuance.plan.grants : stillValid(g, issuance.plan.issuer, issuance.now)
                   THEN [issuance EXCEPT !.plan.step = "signing"]
                   ELSE [issuance EXCEPT !.plan = Unset]

leafOf(plan, grant) ==
    [issuer |-> plan.issuer, audience |-> plan.audience, permissions |-> grant.permissions,
     expires |-> grant.expires, genuine |-> TRUE, ancestors |-> grant.ancestors]

\* Mutant: the leaves without what they were issued from.
chainsOf_leaves(plan) == {leafOf(plan, g) : g \in plan.grants}

chainsOf(plan) == UNION {{leafOf(plan, g)} \cup Range(g.ancestors) : g \in plan.grants}

issued(plan) == [plan |-> plan, caps |-> chainsOf(plan), at |-> issuance.now]

\* Mutant: signing is taken not to take time.
IssueReturns_late ==
    /\ issuance.plan # Unset /\ issuance.plan.step = "signing"
    /\ LET plan == issuance.plan
       IN issuance' = [issuance EXCEPT !.plan = Unset, !.signed = @ \cup chainsOf(plan),
                                       !.results = @ \cup {issued(plan)}]

\* All leaves are signed; issue() returns the chains unless a grant has expired meanwhile.
IssueReturns ==
    /\ issuance.plan # Unset /\ issuance.plan.step = "signing"
    /\ LET plan == issuance.plan
       IN issuance' = IF \E g \in plan.grants : g.expires <= issuance.now
                      THEN [issuance EXCEPT !.plan = Unset]
                      ELSE [issuance EXCEPT !.plan = Unset, !.signed = @ \cup chainsOf(plan),
                                            !.results = @ \cup {issued(plan)}]

\* The person does not consent.
PlanDropped ==
    /\ issuance.plan # Unset /\ issuance.plan.step = "prepared"
    /\ issuance' = [issuance EXCEPT !.plan = Unset]

ClockTicks ==
    /\ issuance.now < MaxTime
    /\ issuance' = [issuance EXCEPT !.now = @ + 1]

IssuanceNext ==
    /\ issuance.compared = Unset
    /\ \/ \E cap \in Signable, ancestors \in {<< >>} \cup {chainOf(c) : c \in issuance.signed} :
            SignsDirectly(cap, ancestors)
       \/ \E option \in IssueOption : Prepares(option)
       \/ Issues \/ IssueReturns \/ PlanDropped \/ ClockTicks

IssuanceSpec == IssuanceInit /\ [][IssuanceNext]_issuance

-----------------------------------------------------------------------------
\* Coverage decides what is delegated, permissionPermits what is let through: whoever is given a
\* permission that another covers can do nothing that the other does not permit.
CoverageIsSound ==
    issuance.compared # Unset =>
        \A granted \in Scope : permissionScopeCovers(granted, issuance.compared) =>
            \A call \in ScopeCall : permissionPermits(call, issuance.compared, "invoke") =>
                \A ability \in granted.can : permissionPermits(call, granted, ability)

\* "Effective authority is therefore the intersection over the chain - a delegate can only
\* narrow" (capability.ts:120): a call that is permitted in the name of the authority was granted
\* to the caller by the authority or by somebody to whom delegating that very call has been
\* passed on from it, by capabilities that these have signed and that are in force, whatever
\* others have signed or made up.
AuthorityOnlyNarrows ==
    LET inForce == {c \in issuance.signed : c.genuine /\ c.expires >= issuance.now}
        principals == {Authority} \cup {c.issuer : c \in inForce} \cup {c.audience : c \in inForce}
    IN \A call \in CapCall : permits(call, issuance.signed, {Authority}, issuance.now) =>
        \A delegates \in SUBSET principals :
            /\ Authority \in delegates
            /\ \A c \in permitting(call, inForce, "delegate") : c.issuer \in delegates => c.audience \in delegates
            => \E c \in permitting(call, inForce, "invoke") : c.issuer \in delegates /\ c.audience = call.signer

\* What issue() returns works (capability.ts:381, "the new leaves and all ancestors needed by
\* `permits`"): until the expiry that was shown, every call that was asked for is permitted with
\* the returned capabilities alone, by whoever accepts the root that was shown; and that is
\* a root the issuer was told to use.
IssuedIsPermitted ==
    \A r \in issuance.results : \A g \in r.plan.grants :
        /\ accepts(r.plan.accepted, g.root)
        /\ issuance.now <= g.expires =>
            \A call \in CapCall :
                /\ call.signer = r.plan.audience
                /\ \E p \in g.permissions : permissionPermits(call, p, "invoke")
                => permits(call, r.caps, {g.root}, issuance.now)

\* What issue() returns is not dead on arrival, and no leaf claims to outlive the capability it
\* was issued from or the request.
LifetimesNest ==
    \A r \in issuance.results : \A g \in r.plan.grants :
        /\ r.at < g.expires /\ g.expires <= r.plan.expires
        /\ \A i \in DOMAIN g.ancestors : g.expires <= g.ancestors[i].expires

\* The roots that are offered for a choice (getDelegationRootIds) are all those from which
\* anything can be issued.
RootsAreOffered ==
    issuance.plan = Unset =>
        \A o \in IssueOption : \A p \in o.permissions :
            {rootIssuer(c) : c \in candidates(o.issuer, p, issuance.signed, issuance.now)}
                \subseteq delegationRootIds(o.issuer, issuance.signed, issuance.now)

\* Capabilities grant what their issuers may grant, and what is issued is of use.
IssuanceIsSound ==
    CoverageIsSound /\ AuthorityOnlyNarrows /\ IssuedIsPermitted /\ LifetimesNest /\ RootsAreOffered
=============================================================================
