CONSTANTS
    t1 = t1  t2 = t2  e1 = e1  e2 = e2  s1 = s1  s2 = s2
    r1 = r1  r2 = r2  r3 = r3
    None = None
    Tenants <- TwoTenants
    Emails <- OneEmail
    Subjects <- OneSubject
    Identities <- OnePerson
    Requests <- TwoRequests
SPECIFICATION Spec
PROPERTIES TenantsIndependent
