------------------------------ MODULE ApiTypes ------------------------------
(***************************************************************************)
(* pkg/apis: the ProviderConfig and Tenant types and their generated       *)
(* deep copies (zz_generated.deepcopy.go).                                 *)
(*                                                                         *)
(* A struct is a record: val gives the contents of each field (0 is nil or *)
(* the zero value), shared the pointer and slice fields whose memory it    *)
(* shares with the object it was copied from.  The fields of a struct that *)
(* is embedded or held by value count as fields of the struct around it;   *)
(* ProjectID stands for all fields that are plain values, Labels for the   *)
(* references within ObjectMeta.                                           *)
(***************************************************************************)
EXTENDS Naturals

Kind == {"ProviderConfig", "Tenant"}

ObjectMetaRefs == {"Labels"}

(* The types of each kind: fields, and which of them are pointers, slices  *)
(* or maps.  An element of a slice, and what a pointer points to, has the  *)
(* name of that field as its only field.                                   *)
ProviderConfigTypes ==
  LET subnet == {"NodeCIDRs", "PodRanges"}
      spec   == subnet \cup {"AuthConfig", "PrincipalInfo"}
      status == {"Conditions"}
      object == ObjectMetaRefs \cup spec \cup status
      Type(fields, refs) == [fields |-> fields, refs |-> refs]
  IN  [Range                        |-> Type({"NodeCIDRs"}, {}),
       ProviderConfigSecondaryRange |-> Type({"PodRanges"}, {}),
       AuthConfig                   |-> Type({"AuthConfig"}, {}),
       PrincipalInfo                |-> Type({"PrincipalInfo"}, {}),
       ProviderConfigSubnetInfo     |-> Type(subnet, subnet),
       ProviderNetworkConfig        |-> Type(subnet, subnet),
       ProviderConfigSpec           |-> Type(spec \cup {"ProjectID"}, spec),
       ProviderConfigStatus         |-> Type(status, status),
       ProviderConfig               |-> Type(object \cup {"ProjectID"}, object)]

TenantTypes ==
  LET subnet == {"PodRanges"}
      spec   == subnet \cup {"TenantCACerts"}
      status == {"Conditions"}
      object == ObjectMetaRefs \cup spec \cup status
      Type(fields, refs) == [fields |-> fields, refs |-> refs]
  IN  [SecondaryRange |-> Type({"PodRanges"}, {}),
       SubnetInfo     |-> Type(subnet, subnet),
       NetworkConfig  |-> Type(subnet, subnet),
       TenantSpec     |-> Type(spec \cup {"ProjectID"}, spec),
       TenantStatus   |-> Type(status, status),
       Tenant         |-> Type(object \cup {"ProjectID"}, object)]

Types(k) == IF k = "ProviderConfig" THEN ProviderConfigTypes ELSE TenantTypes

Fields(k) == Types(k)[k].fields

StatusFields == {"Conditions"}

-----------------------------------------------------------------------------
(* The assignment *out = *in of a part of type t of an object: what is not *)
(* a plain value is shared.                                                *)
Assign(k, t, val) ==
  [val    |-> [f \in Types(k)[t].fields |-> val[f]],
   shared |-> {f \in Types(k)[t].refs : val[f] # 0}]

(* A field that is not nil gets memory of its own, filled from the         *)
(* original; element types without references are copied by the filling.   *)
Realloc(s, fields) == [s EXCEPT !.shared = @ \ fields]

ObjectMetaDeepCopyInto(s) == Realloc(s, ObjectMetaRefs)

(* ProviderConfig.  The types that hold plain values only are copied by    *)
(* the assignment.                                                         *)
RangeDeepCopyInto(s) == s

ProviderConfigSecondaryRangeDeepCopyInto(s) == s

AuthConfigDeepCopyInto(s) == s

PrincipalInfoDeepCopyInto(s) == s

\* Mutated: a pointer field that was added later is not regenerated.
SubnetInfoWithoutNodeCIDRs(s) == Realloc(s, {"PodRanges"})

ProviderConfigSubnetInfoDeepCopyInto(s) == Realloc(s, {"NodeCIDRs", "PodRanges"})

ProviderNetworkConfigDeepCopyInto(s) == ProviderConfigSubnetInfoDeepCopyInto(s)

ProviderConfigSpecDeepCopyInto(s) ==
  Realloc(ProviderNetworkConfigDeepCopyInto(s), {"AuthConfig", "PrincipalInfo"})

ProviderConfigStatusDeepCopyInto(s) == Realloc(s, {"Conditions"})

ProviderConfigDeepCopyInto(s) ==
  ProviderConfigStatusDeepCopyInto(
    ProviderConfigSpecDeepCopyInto(ObjectMetaDeepCopyInto(s)))

(* Tenant. *)
SecondaryRangeDeepCopyInto(s) == s

SubnetInfoDeepCopyInto(s) == Realloc(s, {"PodRanges"})

NetworkConfigDeepCopyInto(s) == SubnetInfoDeepCopyInto(s)

TenantSpecDeepCopyInto(s) == Realloc(NetworkConfigDeepCopyInto(s), {"TenantCACerts"})

TenantStatusDeepCopyInto(s) == Realloc(s, {"Conditions"})

TenantDeepCopyInto(s) ==
  TenantStatusDeepCopyInto(TenantSpecDeepCopyInto(ObjectMetaDeepCopyInto(s)))

(* The lists: new Items, each copied.  A list is a function from names.    *)
ProviderConfigListDeepCopyInto(items) ==
  [n \in DOMAIN items |-> ProviderConfigDeepCopyInto(items[n])]

TenantListDeepCopyInto(items) ==
  [n \in DOMAIN items |-> TenantDeepCopyInto(items[n])]

(* The method of type t. *)
DeepCopyInto(t, s) ==
  CASE t = "Range"                        -> RangeDeepCopyInto(s)
    [] t = "ProviderConfigSecondaryRange" -> ProviderConfigSecondaryRangeDeepCopyInto(s)
    [] t = "AuthConfig"                   -> AuthConfigDeepCopyInto(s)
    [] t = "PrincipalInfo"                -> PrincipalInfoDeepCopyInto(s)
    [] t = "ProviderConfigSubnetInfo"     -> ProviderConfigSubnetInfoDeepCopyInto(s)
    [] t = "ProviderNetworkConfig"        -> ProviderNetworkConfigDeepCopyInto(s)
    [] t = "ProviderConfigSpec"           -> ProviderConfigSpecDeepCopyInto(s)
    [] t = "ProviderConfigStatus"         -> ProviderConfigStatusDeepCopyInto(s)
    [] t = "ProviderConfig"               -> ProviderConfigDeepCopyInto(s)
    [] t = "SecondaryRange"               -> SecondaryRangeDeepCopyInto(s)
    [] t = "SubnetInfo"                   -> SubnetInfoDeepCopyInto(s)
    [] t = "NetworkConfig"                -> NetworkConfigDeepCopyInto(s)
    [] t = "TenantSpec"                   -> TenantSpecDeepCopyInto(s)
    [] t = "TenantStatus"                 -> TenantStatusDeepCopyInto(s)
    [] t = "Tenant"                       -> TenantDeepCopyInto(s)

=============================================================================
