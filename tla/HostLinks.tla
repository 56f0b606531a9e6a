----------------------------- MODULE HostLinks -----------------------------
(***************************************************************************)
(* The links the synchronisation draws to hosts: VirtualMachine.host and   *)
(* DataStore.hosts.  The vCenter hands out the *name* of a host; the link  *)
(* is resolved by name in virt_host, which another task brings up to date  *)
(* in its own time and which keeps the rows of hosts that are gone.  The   *)
(* row of a datastore is found by the datastore's own name, so that two    *)
(* datastores of one name, in two datacenters, have one row and its hosts. *)
(*                                                                         *)
(* One sync_hosts, one sync_vms and one sync_datastores run side by side,  *)
(* item by item, over and over.  What they do besides (retries, failures,  *)
(* deactivation, which the lookup ignores) is in HostSync and VmSync.      *)
(***************************************************************************)
EXTENDS Naturals, FiniteSets

CONSTANTS
  Host,         \* hosts, each named by its hardware uuid
  Vm, Store,    \* virtual machines and datastores
  Name,         \* names of hosts
  StoreName,    \* names of datastores
  None,         \* no name, no row, no host
  MaxMoves      \* bound: changes of the vCenter

ASSUME NoneAssumption == None \notin Host \cup Name
ASSUME KindsAssumption == Vm \cap Store = {}
ASSUME BoundAssumption == MaxMoves \in Nat

VARIABLES
  name,         \* name[h]: what the vCenter calls host h, None if it is not there
  runs,         \* runs[v]: the host machine v runs on
  mounts,       \* mounts[d]: the hosts that mount datastore d
  storeName,    \* storeName[d]: what the vCenter calls datastore d
  rows,         \* rows[h]: the name in the row of host h, active or not
  link,         \* link[v]: VirtualMachine.host
  shares,       \* shares[n]: DataStore.hosts of the row with name n
  hostItem, vmItem, storeItem,    \* what was parsed and not yet written
  right,        \* history: what was last written from names the table knew
  moves

vars == <<name, runs, mounts, storeName, rows, link, shares, hostItem, vmItem, storeItem,
          right, moves>>

-----------------------------------------------------------------------------
Named == Name \cup {None}

TypeOK ==
  /\ name \in [Host -> Named]
  /\ runs \in [Vm -> Host \cup {None}]
  /\ mounts \in [Store -> SUBSET Host] /\ storeName \in [Store -> StoreName]
  /\ rows \in [Host -> Named]
  /\ link \in [Vm -> Host \cup {None}]
  /\ shares \in [StoreName -> SUBSET Host]
  /\ hostItem \subseteq [host : Host, name : Name] /\ Cardinality(hostItem) <= 1
  /\ vmItem \subseteq [vm : Vm, name : Named] /\ Cardinality(vmItem) <= 1
  /\ storeItem \subseteq [store : Store, name : StoreName, names : SUBSET Name]
  /\ Cardinality(storeItem) <= 1
  /\ right \subseteq Vm \cup Store
  /\ moves \in 0..MaxMoves

Known(h) == rows[h] # None /\ rows[h] = name[h]

(* History: is what was parsed still so, and does the table know it? *)
VmCurrent(i) ==
  LET h == runs[i.vm]
  IN  IF h = None THEN i.name = None ELSE Known(h) /\ i.name = name[h]

StoreCurrent(i) ==
  /\ mounts[i.store] # {} /\ i.name = storeName[i.store]
  /\ \A h \in mounts[i.store] : Known(h)
  /\ i.names = {name[h] : h \in mounts[i.store]}

Marked(x, ok) == right' = IF ok THEN right \cup {x} ELSE right \ {x}

(* Host.objects.filter(platform=..., name__in=ns) *)
Found(ns) == {h \in Host : rows[h] \in ns}

-----------------------------------------------------------------------------
(* sync_hosts, one host at a time *)

(* parse_host_info *)
ParseHost(h) ==
  /\ hostItem = {}
  /\ name[h] # None
  /\ hostItem' = {[host |-> h, name |-> name[h]]}
  /\ UNCHANGED <<name, runs, mounts, storeName, rows, link, shares, vmItem, storeItem, right, moves>>

(* Mutant: names are not unique within a platform. *)
WriteHostUnchecked ==
  /\ \E i \in hostItem : rows' = [rows EXCEPT ![i.host] = i.name]
  /\ hostItem' = {}
  /\ UNCHANGED <<name, runs, mounts, storeName, link, shares, vmItem, storeItem, right, moves>>

(* The upsert, or its IntegrityError when another row has the name. *)
WriteHost ==
  /\ \E i \in hostItem :
       rows' = IF \E g \in Host \ {i.host} : rows[g] = i.name
               THEN rows ELSE [rows EXCEPT ![i.host] = i.name]
  /\ hostItem' = {}
  /\ UNCHANGED <<name, runs, mounts, storeName, link, shares, vmItem, storeItem, right, moves>>

-----------------------------------------------------------------------------
(* sync_vms, one machine at a time *)

(* host_name = runtime.host.name, or "" without a host. *)
ParseVm(v) ==
  /\ vmItem = {}
  /\ vmItem' = {[vm |-> v, name |-> IF runs[v] = None THEN None ELSE name[runs[v]]]}
  /\ UNCHANGED <<name, runs, mounts, storeName, rows, link, shares, hostItem, storeItem, right, moves>>

(* Mutant: the link is written only when a host was found. *)
WriteVmKeepsLink ==
  /\ \E i \in vmItem :
       /\ link' = IF Found({i.name}) = {} \/ i.name = None THEN link
                  ELSE [link EXCEPT ![i.vm] = CHOOSE h \in Found({i.name}) : TRUE]
       /\ Marked(i.vm, VmCurrent(i))
  /\ vmItem' = {}
  /\ UNCHANGED <<name, runs, mounts, storeName, rows, shares, hostItem, storeItem, moves>>

(* The lookup by name and the upsert, in one transaction. *)
WriteVm ==
  /\ \E i \in vmItem :
       /\ \/ /\ i.name # None
             /\ \E h \in Found({i.name}) : link' = [link EXCEPT ![i.vm] = h]
          \/ /\ i.name = None \/ Found({i.name}) = {}
             /\ link' = [link EXCEPT ![i.vm] = None]
       /\ Marked(i.vm, VmCurrent(i))
  /\ vmItem' = {}
  /\ UNCHANGED <<name, runs, mounts, storeName, rows, shares, hostItem, storeItem, moves>>

-----------------------------------------------------------------------------
(* sync_datastores, one datastore at a time *)

ParseStore(d) ==
  /\ storeItem = {}
  /\ storeItem' = {[store |-> d, name |-> storeName[d], names |-> {name[h] : h \in mounts[d]}]}
  /\ UNCHANGED <<name, runs, mounts, storeName, rows, link, shares, hostItem, vmItem, right, moves>>

(* History: no datastore of the name is right any more but the one that    *)
(* was written, if it is.                                                  *)
StoreMarked(i) ==
  right' = IF i.names = {} THEN right \ {i.store}
           ELSE {d \in right \cup {i.store} :
                   IF d = i.store THEN StoreCurrent(i)
                   ELSE d \in Vm \/ storeName[d] # i.name}

(* Mutant: hosts are added and never taken away. *)
WriteStoreAdds ==
  /\ \E i \in storeItem :
       /\ shares' = [shares EXCEPT ![i.name] = @ \cup Found(i.names)]
       /\ StoreMarked(i)
  /\ storeItem' = {}
  /\ UNCHANGED <<name, runs, mounts, storeName, rows, link, hostItem, vmItem, moves>>

(* update_or_create by the name, and hosts.set(...) unless no host mounts  *)
(* the datastore.                                                          *)
WriteStore ==
  /\ \E i \in storeItem :
       /\ shares' = IF i.names = {} THEN shares
                    ELSE [shares EXCEPT ![i.name] = Found(i.names)]
       /\ StoreMarked(i)
  /\ storeItem' = {}
  /\ UNCHANGED <<name, runs, mounts, storeName, rows, link, hostItem, vmItem, moves>>

-----------------------------------------------------------------------------
(* The vCenter *)

(* A host is added, renamed, or removed once nothing uses it. *)
HostChanges(h) ==
  /\ moves < MaxMoves
  /\ moves' = moves + 1
  /\ \E n \in Named :
       /\ n # name[h]
       /\ n # None => n \notin {name[g] : g \in Host}
       /\ n = None => (\A v \in Vm : runs[v] # h) /\ (\A d \in Store : h \notin mounts[d])
       /\ name' = [name EXCEPT ![h] = n]
  /\ UNCHANGED <<runs, mounts, storeName, rows, link, shares, hostItem, vmItem, storeItem, right>>

VmMoves(v) ==
  /\ moves < MaxMoves
  /\ moves' = moves + 1
  /\ \E h \in {g \in Host : name[g] # None} \cup {None} :
       /\ h # runs[v]
       /\ runs' = [runs EXCEPT ![v] = h]
  /\ right' = right \ {v}
  /\ UNCHANGED <<name, mounts, storeName, rows, link, shares, hostItem, vmItem, storeItem>>

MountsChange(d) ==
  /\ moves < MaxMoves
  /\ moves' = moves + 1
  /\ \E hs \in SUBSET {g \in Host : name[g] # None} :
       /\ hs # mounts[d]
       /\ mounts' = [mounts EXCEPT ![d] = hs]
  /\ right' = right \ {d}
  /\ UNCHANGED <<name, runs, storeName, rows, link, shares, hostItem, vmItem, storeItem>>

(* Names of datastores are unique in a datacenter, not in the vCenter. *)
StoreRenamed(d) ==
  /\ moves < MaxMoves
  /\ moves' = moves + 1
  /\ \E n \in StoreName \ {storeName[d]} : storeName' = [storeName EXCEPT ![d] = n]
  /\ right' = right \ {d}
  /\ UNCHANGED <<name, runs, mounts, rows, link, shares, hostItem, vmItem, storeItem>>

-----------------------------------------------------------------------------
Init ==
  /\ name = [h \in Host |-> None]
  /\ runs = [v \in Vm |-> None]
  /\ mounts = [d \in Store |-> {}]
  /\ storeName \in [Store -> StoreName]
  /\ rows = [h \in Host |-> None]
  /\ link = [v \in Vm |-> None]
  /\ shares = [n \in StoreName |-> {}]
  /\ hostItem = {} /\ vmItem = {} /\ storeItem = {}
  /\ right = {}
  /\ moves = 0

Next ==
  \/ \E h \in Host : ParseHost(h) \/ HostChanges(h)
  \/ \E v \in Vm : ParseVm(v) \/ VmMoves(v)
  \/ \E d \in Store : ParseStore(d) \/ MountsChange(d) \/ StoreRenamed(d)
  \/ WriteHost \/ WriteVm \/ WriteStore

Spec == Init /\ [][Next]_vars

-----------------------------------------------------------------------------
(* Properties *)

(* Host.objects.get(platform, name) never raises MultipleObjectsReturned,  *)
(* which sync_vm_to_db does not catch.                                     *)
LookupIsUnambiguous ==
  \A g, h \in Host : rows[g] = rows[h] /\ rows[g] # None => g = h

(* A host that mounts a datastore is there and has a name. *)
MountedHostsAreThere == \A d \in Store : \A h \in mounts[d] : name[h] # None

(* The types and the two facts above: an inductive invariant. *)
HostLinksInv == TypeOK /\ LookupIsUnambiguous /\ MountedHostsAreThere

(* A machine written while the table knew its host by its current name is  *)
(* linked to that very host, and stays so until it moves, whatever happens *)
(* to names, rows and other machines.                                      *)
RightLinks == \A v \in Vm \cap right : link[v] = runs[v]

(* The row of a datastore has the hosts that mount it, when they were      *)
(* known as it was written, until it is mounted elsewhere or renamed, or   *)
(* another datastore of its name is written over it (sync_datastore_to_db).*)
RightShares == \A d \in Store \cap right : shares[storeName[d]] = mounts[d]
=============================================================================
