SPECIFICATION Spec
CONSTANTS
    Agents = {a1, a2, a3}
    Publishers = {pub1, pub2}
    PublisherOf <- MCPublisherOf
    Cards <- MCCards
    Queries <- MCQueries
    Lower <- MCLower
    MaxEndpoints = 2
    MaxPage = 4
    MaxChanges = 2
    Nil = Nil
    a1 = a1  a2 = a2  a3 = a3  pub1 = pub1  pub2 = pub2
INVARIANTS TypeOK ItemsWereStored ShortPageIsComplete PagesAgreeWithTotal
