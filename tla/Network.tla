------------------------------ MODULE Network ------------------------------
(***************************************************************************)
(* The network family: chains of ip_add, a host that nptv6_translate takes *)
(* from site to site, the listing of a CIDR, the allocation of subnets     *)
(* from a pool, and the two encodings of an address, NAT64 and I-DUNNO.    *)
(* The functions share nothing but the library they call, so one           *)
(* evaluation runs at a time and the parts that do not run keep still.     *)
(***************************************************************************)
EXTENDS IpArith, Nptv6, CidrBlocks, CidrSets, Nat64, Idunno

(* The functions being evaluated.                                          *)
VARIABLE part

vars == <<addVars, siteVars, blockVars, setVars, nat64Vars, idunnoVars, part>>

(* The parts that do not run, in a state that leaves nothing to check.     *)
AddIdle == start = AddrFrom4(0) /\ cur = start /\ moved = 0

SiteIdle ==
  LET one == CHOOSE t \in Top : TRUE  s == CHOOSE s \in Site : TRUE IN
  /\ prefix = [x \in Site |-> [bits |-> CHOOSE b \in PrefixLengths : TRUE, top |-> one]]
  /\ home = s /\ at = s
  /\ origin = [top |-> one, sub |-> 0, iid |-> CHOOSE i \in Iids : TRUE]
  /\ host = origin
  /\ seen = [x \in Site |-> None]

BlockIdle ==
  /\ op = "expand" /\ p = Masked(4, 0, 0) /\ newbits = 0
  /\ pc = "check" /\ outcome = "none" /\ list = <<>> /\ pos = 0

SetIdle ==
  /\ whole = {} /\ pool = {} /\ used = <<>> /\ retired = <<>>
  /\ answer = NullElement

Nat64Idle ==
  /\ v4 = <<>> /\ nat64 = <<>> /\ named = FALSE
  /\ text = <<>> /\ back = <<>> /\ step = "synthesize"

IdunnoIdle ==
  /\ table = "none" /\ bits = <<>> /\ turn = 1
  /\ cps = <<>> /\ decoded = <<>> /\ stage = "encode"

AddInitial    == AddInit    /\ SiteIdle /\ BlockIdle /\ SetIdle /\ Nat64Idle /\ IdunnoIdle
SiteInitial   == SiteInit   /\ AddIdle /\ BlockIdle /\ SetIdle /\ Nat64Idle /\ IdunnoIdle
BlockInitial  == BlockInit  /\ AddIdle /\ SiteIdle /\ SetIdle /\ Nat64Idle /\ IdunnoIdle
SetInitial    == SetInit    /\ AddIdle /\ SiteIdle /\ BlockIdle /\ Nat64Idle /\ IdunnoIdle
Nat64Initial  == Nat64Init  /\ AddIdle /\ SiteIdle /\ BlockIdle /\ SetIdle /\ IdunnoIdle
IdunnoInitial == IdunnoInit /\ AddIdle /\ SiteIdle /\ BlockIdle /\ SetIdle /\ Nat64Idle

Init ==
  \/ part = "add"    /\ AddInitial
  \/ part = "site"   /\ SiteInitial
  \/ part = "block"  /\ BlockInitial
  \/ part = "set"    /\ SetInitial
  \/ part = "nat64"  /\ Nat64Initial
  \/ part = "idunno" /\ IdunnoInitial

Adds ==
  /\ part = "add" /\ AddNext
  /\ UNCHANGED <<siteVars, blockVars, setVars, nat64Vars, idunnoVars, part>>

Translates ==
  /\ part = "site" /\ SiteNext
  /\ UNCHANGED <<addVars, blockVars, setVars, nat64Vars, idunnoVars, part>>

Lists ==
  /\ part = "block" /\ BlockNext
  /\ UNCHANGED <<addVars, siteVars, setVars, nat64Vars, idunnoVars, part>>

Allocates ==
  /\ part = "set" /\ SetNext
  /\ UNCHANGED <<addVars, siteVars, blockVars, nat64Vars, idunnoVars, part>>

Embeds ==
  /\ part = "nat64" /\ Nat64Next
  /\ UNCHANGED <<addVars, siteVars, blockVars, setVars, idunnoVars, part>>

Confuses ==
  /\ part = "idunno" /\ IdunnoNext
  /\ UNCHANGED <<addVars, siteVars, blockVars, setVars, nat64Vars, part>>

Next == Adds \/ Translates \/ Lists \/ Allocates \/ Embeds \/ Confuses

Spec == Init /\ [][Next]_vars
=============================================================================
