SPECIFICATION Spec
CONSTANTS
    ann = ann
    root = root
    shop = shop
    sid = sid
    annMail = annMail
    rootMail = rootMail
    shopMail = shopMail
    newMail = newMail
    key = key
    key2 = key2
    x = x
    secret = secret
    other = other
    home = home
    magic1 = magic1
    magic2 = magic2
    signUp = signUp
    create = create
    invite = invite
    phrase = phrase
    reseed = reseed
    seed = seed
    nostr1 = nostr1
    nostr2 = nostr2
    link = link
    relink = relink
    x1 = x1
    x2 = x2
    logIn = logIn
    recall = recall
    read = read
    move = move
    assist = assist
    meddle = meddle
    delete = delete
    provision = provision
    renew = renew
    renew2 = renew2
    promote = promote
    None = None
    Refused = Refused
    Applications = {shopMail, newMail}
    Addresses <- MCAddresses
    Calls = {magic1, magic2, signUp, create, invite, phrase, reseed, seed, nostr1, nostr2, link, relink, x1, x2, logIn, recall, read, move, assist, meddle, delete, provision, renew, renew2, promote}
    Given = {ann, root, shop, sid}
    GivenRow <- MCGivenRow
    Request <- MCRequest
    Values <- MCValues
    WalletEnabled = TRUE
    MaxTogether = 3
    Scenarios <- MCScenarios
CHECK_DEADLOCK FALSE
INVARIANTS
    Sound
    SignInSucceeds
PROPERTIES
    DirectorySpec
    WritesArePermitted
