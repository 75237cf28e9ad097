SPECIFICATION WorkspaceSpec
CONSTANTS
    Picks = {"routes", "images", "sandbox", "credentials", "backend"}
    Tickets = {t1}
    Launchers = {l1, l2}
    Reconcilers = {r1, r2}
    Watchers = {w1, w2}
    Admins = {c1, c2}
    Publishers = {q1}
    MaxKeys = 4
    Outs = {a}
    Ids = {i1, i2}
    Callers = {"host"}
    Commits = {i1, i2}
    MaxPushes = 3
    Writers = {p1}
    Edits = {e1, e2}
    Registrants = {j1, j2, j3}
    Files = {f1}
    Names = {n1}
    MaxCount = 3
    MaxUnlinks = 1
    Receivers = {t1}
    Windows = {w1}
    Panes = {p1, p2}
    Contents = {c1, c2}
    Compatible = {c1}
    Refs = {r1, latest}
    Latest = latest
    Sandboxes = {b1}
    Natives = {a1}
    Guests = {g1}
    Tokens = {e1, e2}
    Restarters = {c1}
    Migrators = {m1}
    Hosts = {n1, n2}
    Default = n1
    Workspaces = {w1}
    Identities = {i1, i2, i3, i4, i5}
    Checkouts = {a, b}
    Members = {m1}
    Slots = {s1}
    Association = host
    Administrators = {o1}
    Starters = {l1}
    MaxChanges = 1
    Controllers = {k1, k2}
    RequestIds = {r1}
    Limit = 1
    None = None
INVARIANT RegistrationHeld
INVARIANT RunsItsImage
INVARIANT LeftoversReported
INVARIANT CredentialsKept
INVARIANT OneBackend
INVARIANT CutoverComplete
CHECK_DEADLOCK FALSE
