SPECIFICATION PlaneSpec
CONSTANTS
    Streams = {r1, r2}
    NoStream = none
    ChunkCap = 1
    MaxChunks = 2
    None = None
    Gone = Gone
    i1 = i1  i2 = i2  i3 = i3
    a1 = a1  a2 = a2
    u1 = u1  u2 = u2
    v1 = v1  v2 = v2  v3 = v3
    e1 = e1  e2 = e2
    c1 = c1  c2 = c2
    f1 = f1  f2 = f2
    s1 = s1  s2 = s2
    k1 = k1  k2 = k2
    b1 = b1  b2 = b2
    ip1 = ip1
    conn1 = conn1
    t1 = t1  t2 = t2
    gpt5 = gpt5
    llama = llama
    p1 = p1  p2 = p2  p3 = p3  p4 = p4  p5 = p5  p6 = p6  p7 = p7
    d1 = d1  d2 = d2  d3 = d3
INVARIANTS
    SuccessIsComplete
    NoSilentStream
    SyncInv
    WorkspaceInv
    AssistantInv
    LoginInv
    ServerInv
    LoadInv
PROPERTIES
    ModelsKept
    EditsKept
    ChatSteps
    LoginSteps
SYMMETRY Symmetry
CHECK_DEADLOCK FALSE
