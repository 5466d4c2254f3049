------------------------- MODULE RolePermissionSeed -------------------------
(* The permissions and roles the database is seeded with:                    *)
(* prisma/seed/permissions.ts.                                               *)

(* SEED_PERMISSIONS *)
SeedPermission ==
    {"catalog.read", "catalog.create", "catalog.update", "catalog.delete",
     "order.read", "order.update", "repair.assign", "repair.diagnose",
     "repair.change_status", "repair.view_internal_notes",
     "repair.write_internal_notes", "refund.create", "margin.read", "audit.read",
     "role.manage", "extension.manage", "settings.manage"}

Diagnosing == {"repair.diagnose", "repair.change_status"}
Notes == {"repair.view_internal_notes", "repair.write_internal_notes"}

(* permissionKeys of SEED_ROLES *)
RolePermissions ==
    [SUPER_ADMIN      |-> SeedPermission,
     ADMIN            |-> SeedPermission \ {"role.manage", "extension.manage"},
     WORKSHOP_MANAGER |-> {"catalog.read", "order.read", "repair.assign", "margin.read"}
                              \cup Diagnosing \cup Notes,
     TECHNICIAN       |-> {"catalog.read", "order.read"} \cup Diagnosing \cup Notes,
     CUSTOMER_SUPPORT |-> {"order.read", "repair.view_internal_notes"},
     SALES            |-> {"catalog.read", "order.read", "margin.read"},
     ACCOUNTANT       |-> {"order.read", "refund.create", "margin.read"},
     ORDER_PREPARER   |-> {"order.read", "repair.change_status"}]

(* keys of SEED_ROLES *)
SeedRole == DOMAIN RolePermissions
=============================================================================
