---------------------------- MODULE MCEndpoints -----------------------------
(* The routes and the symmetry of the runs of Endpoints.                     *)
EXTENDS Endpoints, TLC

\* A CRUD resource, and two queries, one on the resource's base path.
ShapeRoutes(s) == CASE s = "resource" -> {"base", "item"}
                    [] s = "query"    -> {"base"}
                    [] s = "other"    -> {"other"}

\* Endpoints are saved enabled here, and disabled by toggling them.
SavedEnabled == [database : Database, shape : Shape, enabled : {TRUE}]

Symmetry == {f @@ g @@ h @@ i : f \in Permutations(Id), g \in Permutations(Admin),
                                h \in Permutations(Client), i \in Permutations(Name)}
=============================================================================
