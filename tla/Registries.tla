----------------------------- MODULE Registries -----------------------------
(***************************************************************************)
(* What the dashboard serves: who may ask, the three registries that are   *)
(* JSON files, and the export of a room.  They share no state: a behaviour *)
(* is one of its parts, chosen by focus.                                   *)
(***************************************************************************)
EXTENDS Dashboard, Sequences

CONSTANTS
    Focuses,                                    \* the parts that are looked at
    MaxCalls, MaxTime,                          \* bounds of vendors and rooms
    ReviewCalls, ReviewTime,                    \* bounds of the reviews
    VendorIds, Profiles,                        \* see VendorRegistry
    Items, Reviewers, Words,                    \* see AccessReviews
    Lifetimes, Periods, EvidenceDates, Blocks,  \* see AuditRooms
    Controls, Dates, Collectors, MaxVersions    \* see AuditPackage

(* The IAM evidence lists finitely many entitlements. *)
ASSUME RegistriesAssumption == IsFiniteSet(Items)

Callers == Threads

VARIABLES
    focus,
    file, now, calls, started, trail, moves, quiet,
    tree, changes, stage, todo, verified, table, tables, zip, still

registry == <<file, now, calls, started, trail, moves, quiet>>
package == <<tree, changes, stage, todo, verified, table, tables, zip, still>>

Vendors == INSTANCE VendorRegistry
Reviews == INSTANCE AccessReviews WITH MaxCalls <- ReviewCalls, MaxTime <- ReviewTime
Rooms == INSTANCE AuditRooms
Package == INSTANCE AuditPackage

Start ==
    /\ focus \in Focuses
    /\ Vendors!Init
    /\ Package!Init
    /\ Init
    /\ focus # "access" => ~fixed

Serve ==
    /\ UNCHANGED focus
    /\ \/ focus = "vendors" /\ Vendors!Next /\ UNCHANGED <<package, vars>>
       \/ focus = "reviews" /\ Reviews!Next /\ UNCHANGED <<package, vars>>
       \/ focus = "rooms" /\ Rooms!Next /\ UNCHANGED <<package, vars>>
       \/ focus = "package" /\ Package!Next /\ UNCHANGED <<registry, vars>>
       \/ focus = "access" /\ Next /\ UNCHANGED <<registry, package>>

Served == Start /\ [][Serve]_<<focus, registry, package, vars>>

(***************************************************************************)
(* The properties of each part, for the behaviours of that part: its       *)
(* module states them.  Those of access are Dashboard's own.               *)
(***************************************************************************)
(* Vendors: no acknowledged save is lost while calls are serial. *)
NoVendorLost == focus = "vendors" => Vendors!NoVendorLost

(* Vendors: a report that overlooks a critical gap read an unreadable file. *)
ComplianceIsBacked == focus = "vendors" => Vendors!ComplianceIsBacked

(* Reviews: acknowledged decisions stand while calls are serial. *)
DecisionsStand == focus = "reviews" => Reviews!DecisionsStand

(* Reviews: no signature covers an undecided entitlement. *)
NothingSignedUnreviewed == focus = "reviews" => Reviews!NothingSignedUnreviewed

(* Reviews: a signed campaign does not change while calls are serial. *)
SignOffIsFinal == focus = "reviews" => Reviews!SignOffIsFinal

(* Rooms: a revoked room stays revoked while calls are serial. *)
RevocationHolds == focus = "rooms" => Rooms!RevocationHolds

(* Rooms: the log is of granted visits alone, and of each while calls are serial. *)
OnlyGrantsAreLogged == focus = "rooms" => Rooms!OnlyGrantsAreLogged

(* Package: without a race, the matrix, the tables and the files agree. *)
ExactAtRest == focus = "package" => Package!ExactAtRest
=============================================================================
