----------------------------- MODULE Permissions -----------------------------
(***************************************************************************)
(* common/security/authorization.py: roles, their permissions, and who may *)
(* access an order or a courier.  Roles and permissions are named by their *)
(* values; what a user's token carries is a record of two sets of names,   *)
(* which may hold names that are not known.                                *)
(***************************************************************************)

Permission == {
    "order:create", "order:read", "order:update", "order:delete", "order:assign", "order:cancel",
    "courier:read", "courier:update", "courier:manage", "courier:location:read",
    "restaurant:read", "restaurant:update", "restaurant:manage",
    "dispatch:run", "dispatch:configure",
    "pricing:read", "pricing:configure", "pricing:experiment",
    "forecast:read", "forecast:train", "analytics:read", "analytics:export",
    "admin:users", "admin:system", "admin:audit"}

Role == {"admin", "operator", "restaurant_manager", "courier", "customer", "api_client", "observer"}

RolePermissions(role) ==
    CASE role = "admin" -> Permission
      [] role = "operator" ->
            {"order:read", "order:update", "order:assign", "order:cancel", "courier:read",
             "courier:location:read", "restaurant:read", "dispatch:run", "dispatch:configure",
             "pricing:read", "forecast:read", "analytics:read"}
      [] role = "restaurant_manager" ->
            {"order:read", "order:update", "restaurant:read", "restaurant:update", "analytics:read"}
      [] role = "courier" -> {"order:read", "order:update", "courier:read", "courier:update"}
      [] role = "customer" ->
            {"order:create", "order:read", "order:cancel", "restaurant:read", "pricing:read"}
      [] role = "api_client" ->
            {"order:create", "order:read", "courier:read", "restaurant:read", "pricing:read",
             "forecast:read"}
      [] role = "observer" -> {"order:read", "courier:read", "restaurant:read", "analytics:read"}

\* get_user_permissions: unknown names are passed over.
UserPermissions(user) ==
    UNION {RolePermissions(role) : role \in user.roles \intersect Role}
        \union (user.permissions \intersect Permission)

HasPermission(user, permission) == permission \in UserPermissions(user)

HasAnyRole(user, roles) == user.roles \intersect roles # {}

\* Mutant: whoever has the role of a courier or a customer is let in as either.
CanAccessOrderEither(user, order) ==
    \/ HasAnyRole(user, {"admin", "operator"})
    \/ /\ HasAnyRole(user, {"customer", "courier"})
       /\ order.customer = user.sub \/ order.courier = user.sub

\* can_access_order, of an order that there is: the first of the roles decides, and a
\* restaurant manager is never let in.
CanAccessOrder(user, order) ==
    \/ HasAnyRole(user, {"admin", "operator"})
    \/ HasAnyRole(user, {"customer"}) /\ order.customer = user.sub
    \/ ~HasAnyRole(user, {"customer"}) /\ HasAnyRole(user, {"courier"}) /\ order.courier = user.sub

CanAccessCourier(user, courier) ==
    \/ HasAnyRole(user, {"admin", "operator"})
    \/ HasAnyRole(user, {"courier"}) /\ courier = user.sub

\* Who is let in, in terms of the permissions of the roles, both ways: to an order,
\* whoever may assign orders, the customer who may cancel it, and the courier who may not
\* cancel any; to a courier's data, whoever may see where couriers are, and the courier.
AccessMatchesPermissions(user, order) ==
    /\ CanAccessOrder(user, order) <=>
          \/ HasPermission(user, "order:assign")
          \/ HasPermission(user, "order:cancel") /\ order.customer = user.sub
          \/ /\ ~HasPermission(user, "order:cancel")
             /\ HasPermission(user, "courier:update")
             /\ order.courier = user.sub
    /\ CanAccessCourier(user, order.courier) <=>
          \/ HasPermission(user, "courier:location:read")
          \/ HasPermission(user, "courier:update") /\ order.courier = user.sub

\* Who may read orders and is refused one: whoever has none of the four roles that are
\* asked about, whoever the order does not name, and whoever it names in another role
\* than the one that decides.
RefusedReaders(user, order) ==
    HasPermission(user, "order:read") /\ ~CanAccessOrder(user, order) =>
        \/ ~HasAnyRole(user, {"admin", "operator", "customer", "courier"})
        \/ user.sub \notin {order.customer, order.courier}
        \/ user.sub = order.courier /\ HasAnyRole(user, {"customer"})
        \/ user.sub = order.customer /\ ~HasAnyRole(user, {"customer"})

\* A role more never takes access away, but for one: who becomes a customer loses the
\* orders assigned to him as a courier.
MoreRolesMoreAccess(user, role, order) ==
    LET more == [user EXCEPT !.roles = @ \union {role}]
    IN /\ CanAccessCourier(user, order.courier) => CanAccessCourier(more, order.courier)
       /\ CanAccessOrder(user, order) /\ ~CanAccessOrder(more, order) =>
             /\ role = "customer" /\ HasAnyRole(user, {"courier"})
             /\ order.courier = user.sub /\ order.customer # user.sub
=============================================================================
