---------------------------- MODULE RouterBuilder ----------------------------
(***************************************************************************)
(* Router::new(..).with_handler(..)...build() (src/router/builder.rs).     *)
(* A handler is known by the metadata its config() reports; of it build()  *)
(* reads the kind, the domain and the handled type URLs, in order.         *)
(***************************************************************************)
EXTENDS Integers, Sequences

CONSTANTS
  Configs,      \* the handler configurations offered for registration:
                \* records with at least kind, domain and handled (a sequence)
  MaxHandlers   \* bound: how many handlers are registered at most

ASSUME BuilderAssumption == MaxHandlers \in Nat

VARIABLES
  factories,  \* the registered factories, in registration order
  built       \* "building", a build error, or the kind of the router built

builderVars == <<factories, built>>

BuildErrors == {"empty", "mixed", "duplicate"}

BuilderInit ==
  /\ factories = <<>>
  /\ built = "building"

WithHandler ==
  /\ built = "building"
  /\ Len(factories) < MaxHandlers
  /\ \E c \in Configs : factories' = Append(factories, c)
  /\ UNCHANGED built

-----------------------------------------------------------------------------
Mixed(fs) == \E i \in DOMAIN fs : fs[i].kind # fs[1].kind

\* Factory i declares a (domain, type URL) that was seen before it, in an
\* earlier factory or earlier in its own list.
Redeclares(fs, i) ==
  \E n \in DOMAIN fs[i].handled :
    \/ \E m \in 1 .. n - 1 : fs[i].handled[m] = fs[i].handled[n]
    \/ \E j \in 1 .. i - 1 : \E m \in DOMAIN fs[j].handled :
         /\ fs[j].domain = fs[i].domain
         /\ fs[j].handled[m] = fs[i].handled[n]

BuildResult(fs) ==
  IF fs = <<>> THEN "empty"
  ELSE IF Mixed(fs) THEN "mixed"
  ELSE IF fs[1].kind = "CommandHandler"
            /\ \E i \in DOMAIN fs : Redeclares(fs, i) THEN "duplicate"
  ELSE fs[1].kind

Build ==
  /\ built = "building"
  /\ built' = BuildResult(factories)
  /\ UNCHANGED factories

BuilderNext == WithHandler \/ Build

-----------------------------------------------------------------------------
\* The factories of fs that declare type URL t for domain d.
OwnersOf(fs, d, t) ==
  {i \in DOMAIN fs :
     fs[i].domain = d /\ \E n \in DOMAIN fs[i].handled : fs[i].handled[n] = t}
=============================================================================
