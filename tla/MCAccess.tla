------------------------------ MODULE MCAccess ------------------------------
(***************************************************************************)
(* An administrator and a member of the crew; the owner's role, which      *)
(* neither has, holds a permission more.  The crew's role is not built in, *)
(* and one more role may be created.                                       *)
(***************************************************************************)
EXTENDS Access

CONSTANTS ann, bob, adm, own, crew, new, manage, stats

MCUsers == {ann, bob}
MCRoles == {adm, own, crew, new}
MCReaders == {ann}
MCVisitors == {bob}
MCPanelPerms == {{}, {manage, stats}}
MCBuiltIn == {adm, own}
MCPerms == {manage, stats}
MCFirstRole == [u \in MCUsers |-> IF u = ann THEN adm ELSE crew]
MCFirstPerms == [r \in MCRoles |-> CASE r = adm -> {manage} [] r = own -> MCPerms
                                    [] r = crew -> {} [] OTHER -> Nothing]
==============================================================================
